---------------------------- MODULE WalletProofs ----------------------------
(***************************************************************************)
(* The two wallets.  The marks are exact after each of the steps they      *)
(* share, hence in both, whatever the amounts, the deposits, the number of *)
(* calls and the order in which they proceed.  The Rust wallet never       *)
(* spends an output twice; the Motoko account never spends one that was    *)
(* marked when it filtered.  Both pay the fees: what the wallet has and    *)
(* what it has paid away is never more than what was paid in, so the       *)
(* inputs of a transaction add up without wrapping around.                 *)
(***************************************************************************)
EXTENDS RustWallet, MotokoAccount, FunctionTheorems, FiniteSetTheorems, NaturalsInduction,
        SequenceTheorems, WellFoundedInduction, TLAPS

\* The record each call is.
Shape ==
    calls = [c \in Call |-> [pc     |-> calls[c].pc,
                             amount |-> calls[c].amount,
                             utxos  |-> calls[c].utxos,
                             tx     |-> calls[c].tx]]

\* A call builds one transaction, and has none until its UTXOs have come.
Building == {"idle", "get_utxos", "utxos", "build"}
OneTransaction ==
    \A c \in Call :
        /\ calls[c].pc \in Building => calls[c].tx = {}
        /\ \A s, t \in calls[c].tx : s = t

Marks == Shape /\ OneTransaction /\ MarksExact

-----------------------------------------------------------------------------
LEMMA InitMarks == Init => Marks /\ NoDoubleSpend
BY DEF Init, Marks, Shape, OneTransaction, MarksExact, NoDoubleSpend, Issued

\* The inputs of a transaction are among the UTXOs it was built from.
LEMMA InputsOffered ==
    ASSUME NEW utxos, NEW list \in SetToSeqs(utxos), NEW amount
    PROVE  Build(list, Source, Destination, amount, Fees).inputs \subseteq utxos
<1>1. \A i \in DOMAIN list : list[i] \in utxos
  BY DEF SetToSeqs
<1>2. Reached(list, amount, Fees) \subseteq DOMAIN list
  BY DEF Reached
<1>3. Build(list, Source, Destination, amount, Fees).inputs
        = {list[i] : i \in Reached(list, amount, Fees)}
  BY DEF Build
<1> QED  BY <1>1, <1>2, <1>3

\* A step that leaves the transactions of all calls alone, and the marks.
LEMMA SameTransactions ==
    ASSUME Marks, NEW c \in Call, NEW r, r.tx = calls[c].tx,
           r = [pc |-> r.pc, amount |-> r.amount, utxos |-> r.utxos, tx |-> r.tx],
           r.pc \in Building => r.tx = {},
           calls' = [calls EXCEPT ![c] = r], UNCHANGED spent
    PROVE  /\ Marks'
           /\ Issued' = Issued
           /\ calls'[c] = r
           /\ \A d \in Call \ {c} : calls'[d] = calls[d]
<1>1. \A d \in Call : calls'[d] = IF d = c THEN r ELSE calls[d]
  BY DEF Marks, Shape
<1>2. \A d \in Call : calls'[d].tx = calls[d].tx
  BY <1>1
<1>3. Issued' = Issued
  BY <1>2 DEF Issued
<1>4. Shape'
  BY <1>1 DEF Marks, Shape
<1>5. OneTransaction'
  BY <1>1, <1>2 DEF Marks, OneTransaction
<1>6. MarksExact'
  BY <1>3 DEF Marks, MarksExact, Outpoints
<1> QED  BY <1>1, <1>3, <1>4, <1>5, <1>6 DEF Marks

\* A step of the block chain.
LEMMA WorldMarks ==
    ASSUME Marks, UNCHANGED wallet
    PROVE  Marks' /\ Issued' = Issued
<1>1. spent' = spent /\ calls' = calls
  BY DEF wallet
<1>2. Issued' = Issued
  BY <1>1 DEF Issued
<1>3. Shape' /\ OneTransaction'
  BY <1>1 DEF Marks, Shape, OneTransaction
<1>4. MarksExact'
  BY <1>1, <1>2 DEF Marks, MarksExact, Outpoints
<1> QED  BY <1>2, <1>3, <1>4 DEF Marks

LEMMA WorldKeepsWallet == World => UNCHANGED wallet
BY DEF World, Receive, Confirm, Reorganise

\* A step that only moves a call on, past the point where it builds.
LEMMA MoveOn ==
    ASSUME Marks, NEW c \in Call, NEW next, next \notin Building,
           calls' = [calls EXCEPT ![c].pc = next], UNCHANGED spent
    PROVE  /\ Marks'
           /\ Issued' = Issued
           /\ calls'[c].pc = next
           /\ \A d \in Call \ {c} : calls'[d] = calls[d]
<1> DEFINE r == [pc |-> next, amount |-> calls[c].amount, utxos |-> calls[c].utxos, tx |-> calls[c].tx]
<1>1. calls[c] = [pc     |-> calls[c].pc, amount |-> calls[c].amount,
                  utxos  |-> calls[c].utxos, tx |-> calls[c].tx]
  BY DEF Marks, Shape
<1>2. calls'[c] = [calls[c] EXCEPT !.pc = next]
  BY DEF Marks, Shape
<1>3. calls'[c] = r
  BY <1>1, <1>2
<1>4. calls' = [calls EXCEPT ![c] = r]
  BY <1>2, <1>3
<1>5. /\ r.tx = calls[c].tx
      /\ r = [pc |-> r.pc, amount |-> r.amount, utxos |-> r.utxos, tx |-> r.tx]
      /\ r.pc = next
  OBVIOUS
<1> HIDE DEF r
<1> QED  BY <1>4, <1>5, SameTransactions

LEMMA AbandonMarks ==
    ASSUME Marks, NEW c \in Call, Abandon(c)
    PROVE  /\ Marks'
           /\ Issued' = Issued
           /\ calls'[c].pc = "done"
           /\ \A d \in Call \ {c} : calls'[d] = calls[d]
<1>1. calls' = [calls EXCEPT ![c].pc = "done"] /\ UNCHANGED spent
  BY DEF Abandon
<1>2. "done" \notin Building
  BY DEF Building
<1> QED  BY <1>1, <1>2, MoveOn

LEMMA SendTransactionMarks ==
    ASSUME Marks, NEW c \in Call, SendTransaction(c)
    PROVE  /\ Marks'
           /\ Issued' = Issued
           /\ calls'[c].pc = "done"
           /\ \A d \in Call \ {c} : calls'[d] = calls[d]
<1>1. calls' = [calls EXCEPT ![c].pc = "done"] /\ UNCHANGED spent
  BY DEF SendTransaction
<1>2. "done" \notin Building
  BY DEF Building
<1> QED  BY <1>1, <1>2, MoveOn

LEMMA BeginMarks ==
    ASSUME Marks, NEW c \in Call, NEW amount, Begin(c, amount)
    PROVE  /\ Marks'
           /\ Issued' = Issued
           /\ calls'[c].pc = "get_utxos"
           /\ \A d \in Call \ {c} : calls'[d] = calls[d]
<1> DEFINE r == [pc |-> "get_utxos", amount |-> amount, utxos |-> calls[c].utxos, tx |-> calls[c].tx]
<1>1. calls[c] = [pc     |-> calls[c].pc, amount |-> calls[c].amount,
                  utxos  |-> calls[c].utxos, tx |-> calls[c].tx]
  BY DEF Marks, Shape
<1>2. /\ calls' = [calls EXCEPT ![c] = [calls[c] EXCEPT !.pc = "get_utxos", !.amount = amount]]
      /\ UNCHANGED spent
  BY DEF Begin
<1>3. calls'[c] = [calls[c] EXCEPT !.pc = "get_utxos", !.amount = amount]
  BY <1>2 DEF Marks, Shape
<1>4. calls'[c] = r
  BY <1>1, <1>3
<1>5. calls' = [calls EXCEPT ![c] = r]
  BY <1>2, <1>3, <1>4
<1>6. calls[c].tx = {}
  BY DEF Begin, Marks, OneTransaction, Building
<1>7. /\ r.tx = calls[c].tx
      /\ r = [pc |-> r.pc, amount |-> r.amount, utxos |-> r.utxos, tx |-> r.tx]
      /\ r.pc = "get_utxos"
  OBVIOUS
<1> HIDE DEF r
<1> QED  BY <1>2, <1>5, <1>6, <1>7, SameTransactions

\* A call that gets UTXOs, from the Bitcoin canister or by leaving some out.
LEMMA TakeUtxosMarks ==
    ASSUME Marks, NEW c \in Call, NEW next, NEW utxos,
           calls[c].pc \in Building,
           calls' = [calls EXCEPT ![c].pc = next, ![c].utxos = utxos], UNCHANGED spent
    PROVE  /\ Marks'
           /\ Issued' = Issued
           /\ calls'[c].pc = next
           /\ calls'[c].utxos = utxos
           /\ \A d \in Call \ {c} : calls'[d] = calls[d]
<1> DEFINE r == [pc |-> next, amount |-> calls[c].amount, utxos |-> utxos, tx |-> calls[c].tx]
<1>1. calls[c] = [pc     |-> calls[c].pc, amount |-> calls[c].amount,
                  utxos  |-> calls[c].utxos, tx |-> calls[c].tx]
  BY DEF Marks, Shape
<1>2. calls' = [calls EXCEPT ![c] = [calls[c] EXCEPT !.pc = next, !.utxos = utxos]]
  OBVIOUS
<1>3. calls'[c] = [calls[c] EXCEPT !.pc = next, !.utxos = utxos]
  BY <1>2 DEF Marks, Shape
<1>4. calls'[c] = r
  BY <1>1, <1>3
<1>5. calls' = [calls EXCEPT ![c] = r]
  BY <1>2, <1>3, <1>4
<1>6. calls[c].tx = {}
  BY DEF Marks, OneTransaction
<1>7. /\ r.tx = calls[c].tx
      /\ r = [pc |-> r.pc, amount |-> r.amount, utxos |-> r.utxos, tx |-> r.tx]
      /\ r.pc = next
      /\ r.utxos = utxos
  OBVIOUS
<1> HIDE DEF r
<1> QED  BY <1>5, <1>6, <1>7, SameTransactions

LEMMA GetUtxosMarks ==
    ASSUME Marks, NEW c \in Call, GetUtxos(c)
    PROVE  /\ Marks'
           /\ Issued' = Issued
           /\ calls'[c].pc = "utxos"
           /\ \A d \in Call \ {c} : calls'[d] = calls[d]
<1>1. /\ calls[c].pc \in Building
      /\ calls' = [calls EXCEPT ![c].pc = "utxos", ![c].utxos = View]
      /\ UNCHANGED spent
  BY DEF GetUtxos, Building
<1> QED  BY <1>1, TakeUtxosMarks

\* A transaction is built and its inputs, which are among the UTXOs on offer,
\* are marked with it.
LEMMA SpendMarks ==
    ASSUME Marks, NEW c \in Call, calls[c].pc \in Building,
           NEW utxos, NEW next, next \notin Building, Spend(c, utxos, next)
    PROVE  /\ Marks'
           /\ \E tx : /\ tx.inputs \subseteq utxos
                      /\ Issued' = Issued \cup {tx}
           /\ calls'[c].pc = next
           /\ \A d \in Call \ {c} : calls'[d] = calls[d]
<1>1. PICK list \in SetToSeqs(utxos) :
         SpendMarking(c, list, next, Outpoints(Transaction(c, list)))
  BY DEF Spend
<1> DEFINE tx == Transaction(c, list)
<1>2. tx.inputs \subseteq utxos
  BY InputsOffered DEF Transaction
<1> HIDE DEF tx
<1>3. spent' = spent \cup Outpoints(tx)
  BY <1>1 DEF tx, SpendMarking
<1>4. calls' = [calls EXCEPT ![c].pc = next, ![c].tx = {tx}]
  BY <1>1 DEF tx, SpendMarking
<1>5. \A d \in Call : calls'[d] = IF d = c THEN [calls[c] EXCEPT !.pc = next, !.tx = {tx}]
                                          ELSE calls[d]
  BY <1>4 DEF Marks, Shape
<1>6. calls[c] = [pc     |-> calls[c].pc, amount |-> calls[c].amount,
                  utxos  |-> calls[c].utxos, tx |-> calls[c].tx]
  BY DEF Marks, Shape
<1>7. /\ calls'[c] = [pc |-> next, amount |-> calls[c].amount,
                      utxos |-> calls[c].utxos, tx |-> {tx}]
      /\ \A d \in Call \ {c} : calls'[d] = calls[d]
  BY <1>5, <1>6
<1>8. Issued' = Issued \cup {tx}
  <2>1. calls[c].tx = {}
    BY DEF Marks, OneTransaction
  <2> QED  BY <1>7, <2>1 DEF Issued
<1>9. Shape'
  BY <1>4, <1>7 DEF Marks, Shape
<1>10. OneTransaction'
  BY <1>7 DEF Marks, OneTransaction
<1>11. MarksExact'
  BY <1>3, <1>8 DEF Marks, MarksExact, Outpoints
<1> QED  BY <1>2, <1>7, <1>8, <1>9, <1>10, <1>11 DEF Marks

-----------------------------------------------------------------------------
\* No double spend where no new transaction is.
LEMMA SameIssued ==
    ASSUME NoDoubleSpend, Issued' = Issued
    PROVE  NoDoubleSpend'
BY DEF NoDoubleSpend, Outpoints

\* A transaction of unmarked outputs spends none that another one spends.
LEMMA UnmarkedIsSafe ==
    ASSUME MarksExact, NoDoubleSpend, NEW tx, Issued' = Issued \cup {tx},
           \A u \in tx.inputs : u.outpoint \notin spent
    PROVE  NoDoubleSpend'
<1>1. Outpoints(tx) \cap spent = {}
  BY DEF Outpoints
<1>2. \A t \in Issued : Outpoints(t) \subseteq spent
  BY DEF MarksExact
<1> QED  BY <1>1, <1>2 DEF NoDoubleSpend, Outpoints

-----------------------------------------------------------------------------
(* The Rust wallet.                                                        *)

RustInv == Marks /\ NoDoubleSpend

LEMMA NextRustInv == RustInv /\ [Next]_vars => RustInv'
<1> SUFFICES ASSUME RustInv, [Next]_vars
             PROVE  RustInv'
  OBVIOUS
<1> USE DEF RustInv
<1>1. CASE World
  BY <1>1, WorldKeepsWallet, WorldMarks, SameIssued
<1>2. ASSUME NEW c \in Call, NEW amount \in Amount, Send(c, amount)
      PROVE  RustInv'
  BY <1>2, BeginMarks, SameIssued DEF Send
<1>3. ASSUME NEW c \in Call, GetUtxos(c)
      PROVE  RustInv'
  BY <1>3, GetUtxosMarks, SameIssued
<1>4. ASSUME NEW c \in Call, GetUtxosRejected(c) \/ BuildError(c) \/ SendRejected(c)
      PROVE  RustInv'
  BY <1>4, AbandonMarks, SameIssued DEF GetUtxosRejected, BuildError, SendRejected
<1>5. ASSUME NEW c \in Call, BuildAndSend(c)
      PROVE  RustInv'
  <2>1. /\ calls[c].pc \in Building /\ "send" \notin Building
        /\ Spend(c, Unmarked(calls[c].utxos), "send")
    BY <1>5 DEF BuildAndSend, Building
  <2>2. Marks'
    BY <2>1, SpendMarks
  <2>3. PICK tx : tx.inputs \subseteq Unmarked(calls[c].utxos) /\ Issued' = Issued \cup {tx}
    BY <2>1, SpendMarks
  <2>4. \A u \in tx.inputs : u.outpoint \notin spent
    BY <2>3 DEF Unmarked
  <2> QED  BY <2>2, <2>3, <2>4, UnmarkedIsSafe DEF Marks
<1>6. ASSUME NEW c \in Call, SendTransaction(c)
      PROVE  RustInv'
  BY <1>6, SendTransactionMarks, SameIssued
<1>7. CASE UNCHANGED vars
  BY <1>7, WorldMarks, SameIssued DEF vars
<1> QED  BY <1>1, <1>2, <1>3, <1>4, <1>5, <1>6, <1>7 DEF Next

LEMMA RustInvariant == Spec => []RustInv
<1>1. Init => RustInv
  BY InitMarks DEF RustInv
<1> QED  BY <1>1, NextRustInv, PTL DEF Spec

\* SPENT_TXOS does what it is for: no two transactions the wallet builds spend
\* the same output.
THEOREM NeverDoubleSpends == Spec => []NoDoubleSpend
BY RustInvariant, PTL DEF RustInv

\* SPENT_TXOS holds the inputs of the transactions built so far, no less and
\* no more.
THEOREM RustMarksExact == Spec => []MarksExact
BY RustInvariant, PTL DEF RustInv, Marks

-----------------------------------------------------------------------------
(* The Motoko account: the steps it has of its own.                        *)

LEMMA FilterMarks ==
    ASSUME Marks, NEW c \in Call, Filter(c)
    PROVE  /\ Marks'
           /\ Issued' = Issued
           /\ calls'[c].pc = "build"
           /\ calls'[c].utxos = Unmarked(calls[c].utxos)
           /\ \A d \in Call \ {c} : calls'[d] = calls[d]
<1>1. /\ calls[c].pc \in Building
      /\ calls' = [calls EXCEPT ![c].pc = "build", ![c].utxos = Unmarked(calls[c].utxos)]
      /\ UNCHANGED spent
  BY DEF Filter, Building
<1> QED  BY <1>1, TakeUtxosMarks

\* The outpoints at the indices of the inputs are those of the inputs.
LEMMA BuiltSpends ==
    ASSUME NEW c \in Call, Built(c)
    PROVE  Spend(c, calls[c].utxos, "sign")
<1>1. PICK list \in SetToSeqs(calls[c].utxos) :
        SpendMarking(c, list, "sign",
            {list[i].outpoint : i \in UsedIndices(list, Transaction(c, list).inputs)})
  BY DEF Built
<1> DEFINE inputs == Transaction(c, list).inputs
<1>2. inputs = {list[i] : i \in Reached(list, calls[c].amount, Fees)}
  BY DEF Transaction, Build
<1>3. Reached(list, calls[c].amount, Fees) \subseteq DOMAIN list
  BY DEF Reached
<1> HIDE DEF inputs
<1>4. {list[i].outpoint : i \in UsedIndices(list, inputs)} = {u.outpoint : u \in inputs}
  BY <1>2, <1>3 DEF UsedIndices
<1>5. Outpoints(Transaction(c, list)) = {u.outpoint : u \in inputs}
  BY DEF Outpoints, inputs
<1>6. SpendMarking(c, list, "sign", Outpoints(Transaction(c, list)))
  BY <1>1, <1>4, <1>5 DEF inputs
<1> QED  BY <1>6 DEF Spend

LEMMA BuiltMarks ==
    ASSUME Marks, NEW c \in Call, Built(c)
    PROVE  /\ Marks'
           /\ \E tx : /\ tx.inputs \subseteq calls[c].utxos
                      /\ Issued' = Issued \cup {tx}
           /\ calls'[c].pc = "sign"
           /\ \A d \in Call \ {c} : calls'[d] = calls[d]
<1>1. /\ calls[c].pc \in Building /\ "sign" \notin Building
      /\ Spend(c, calls[c].utxos, "sign")
  BY BuiltSpends DEF Built, Building
<1> QED  BY <1>1, SpendMarks

LEMMA SignedMarks ==
    ASSUME Marks, NEW c \in Call, Signed(c)
    PROVE  /\ Marks'
           /\ Issued' = Issued
           /\ calls'[c].pc = "send"
           /\ \A d \in Call \ {c} : calls'[d] = calls[d]
<1>1. calls' = [calls EXCEPT ![c].pc = "send"] /\ UNCHANGED spent
  BY DEF Signed
<1>2. "send" \notin Building
  BY DEF Building
<1> QED  BY <1>1, <1>2, MoveOn

-----------------------------------------------------------------------------
(* The marks.                                                              *)

LEMMA NextMarks == Marks /\ [AccountNext]_vars => Marks'
<1> SUFFICES ASSUME Marks, [AccountNext]_vars
             PROVE  Marks'
  OBVIOUS
<1>1. CASE World
  BY <1>1, WorldKeepsWallet, WorldMarks
<1>2. ASSUME NEW c \in Call, NEW amount \in Amount, AccountSend(c, amount)
      PROVE  Marks'
  BY <1>2, BeginMarks DEF AccountSend
<1>3. ASSUME NEW c \in Call, GetUtxos(c)
      PROVE  Marks'
  BY <1>3, GetUtxosMarks
<1>4. ASSUME NEW c \in Call, NothingLeft(c) \/ AccountBuildError(c) \/ Rejected(c)
      PROVE  Marks'
  BY <1>4, AbandonMarks DEF NothingLeft, AccountBuildError, Rejected
<1>5. ASSUME NEW c \in Call, Filter(c)
      PROVE  Marks'
  BY <1>5, FilterMarks
<1>6. ASSUME NEW c \in Call, Built(c)
      PROVE  Marks'
  BY <1>6, BuiltMarks
<1>7. ASSUME NEW c \in Call, Signed(c)
      PROVE  Marks'
  BY <1>7, SignedMarks
<1>8. ASSUME NEW c \in Call, SendTransaction(c)
      PROVE  Marks'
  BY <1>8, SendTransactionMarks
<1>9. CASE UNCHANGED vars
  BY <1>9, WorldMarks DEF vars
<1> QED  BY <1>1, <1>2, <1>3, <1>4, <1>5, <1>6, <1>7, <1>8, <1>9 DEF AccountNext

LEMMA AccountMarks == AccountSpec => []Marks
<1>1. Init => Marks
  BY InitMarks
<1> QED  BY <1>1, NextMarks, PTL DEF AccountSpec

\* The set of spent outpoints is exactly the inputs of the transactions built,
\* with any number of calls open at once: what filtering too early breaks is
\* not the marks.
THEOREM AccountMarksExact == AccountSpec => []MarksExact
<1>1. Marks => MarksExact
  BY DEF Marks
<1> QED  BY <1>1, AccountMarks, PTL

-----------------------------------------------------------------------------
(* Calls that overlap.                                                     *)

\* A step of one call of the account.
CallStep(c) ==
    \/ \E amount \in Amount : AccountSend(c, amount)
    \/ GetUtxos(c)
    \/ Filter(c) \/ NothingLeft(c)
    \/ Built(c) \/ AccountBuildError(c)
    \/ Signed(c) \/ SendTransaction(c) \/ Rejected(c)

\* What a step of a call does to it: it builds, it filters, or it goes on with
\* the transaction it has, if any.
Builds(c) ==
    /\ calls[c].pc = "build" /\ calls'[c].pc = "sign"
    /\ \E tx : calls'[c].tx = {tx} /\ tx.inputs \subseteq calls[c].utxos
Filters(c) ==
    /\ calls[c].pc = "utxos" /\ calls'[c].pc = "build"
    /\ calls'[c].utxos = Unmarked(calls[c].utxos)
GoesOn(c) ==
    /\ calls'[c].tx = calls[c].tx
    /\ \/ calls[c].pc \in Unfiltered /\ calls'[c].pc \in Unfiltered
       \/ calls'[c].pc \notin Building

LEMMA PcMoves ==
    ASSUME Marks, NEW c \in Call, NEW next, calls' = [calls EXCEPT ![c].pc = next]
    PROVE  /\ calls'[c].pc = next /\ calls'[c].tx = calls[c].tx
           /\ \A d \in Call \ {c} : calls'[d] = calls[d]
<1>1. calls[c] = [pc     |-> calls[c].pc, amount |-> calls[c].amount,
                  utxos  |-> calls[c].utxos, tx |-> calls[c].tx]
  BY DEF Marks, Shape
<1>2. /\ calls'[c] = [calls[c] EXCEPT !.pc = next]
      /\ \A d \in Call \ {c} : calls'[d] = calls[d]
  BY DEF Marks, Shape
<1> QED  BY <1>1, <1>2

LEMMA BuiltBuilds ==
    ASSUME Marks, NEW c \in Call, Built(c)
    PROVE  Builds(c) /\ \A d \in Call \ {c} : calls'[d] = calls[d]
<1>1. calls[c].pc = "build"
  BY DEF Built
<1>2. PICK list \in SetToSeqs(calls[c].utxos) :
         SpendMarking(c, list, "sign", Outpoints(Transaction(c, list)))
  BY BuiltSpends DEF Spend
<1> DEFINE tx == Transaction(c, list)
<1>3. tx.inputs \subseteq calls[c].utxos
  BY InputsOffered DEF Transaction
<1> HIDE DEF tx
<1>4. calls' = [calls EXCEPT ![c].pc = "sign", ![c].tx = {tx}]
  BY <1>2 DEF tx, SpendMarking
<1>5. calls[c] = [pc     |-> calls[c].pc, amount |-> calls[c].amount,
                  utxos  |-> calls[c].utxos, tx |-> calls[c].tx]
  BY DEF Marks, Shape
<1>6. /\ calls'[c] = [calls[c] EXCEPT !.pc = "sign", !.tx = {tx}]
      /\ \A d \in Call \ {c} : calls'[d] = calls[d]
  BY <1>4 DEF Marks, Shape
<1>7. calls'[c].pc = "sign" /\ calls'[c].tx = {tx}
  BY <1>5, <1>6
<1> QED  BY <1>1, <1>3, <1>6, <1>7 DEF Builds

LEMMA StepOfCall ==
    ASSUME Marks, NEW c \in Call, CallStep(c)
    PROVE  /\ Builds(c) \/ Filters(c) \/ GoesOn(c)
           /\ \A d \in Call \ {c} : calls'[d] = calls[d]
<1>1. ASSUME NEW amount \in Amount, AccountSend(c, amount)
      PROVE  GoesOn(c) /\ \A d \in Call \ {c} : calls'[d] = calls[d]
  <2>1. calls[c].pc = "idle" /\ Begin(c, amount)
    BY <1>1 DEF AccountSend, Begin
  <2>2. /\ Marks' /\ calls'[c].pc = "get_utxos"
        /\ \A d \in Call \ {c} : calls'[d] = calls[d]
    BY <2>1, BeginMarks
  <2>3. calls[c].tx = {} /\ calls'[c].tx = {}
    BY <2>1, <2>2 DEF Marks, OneTransaction, Building
  <2> QED  BY <2>1, <2>2, <2>3 DEF GoesOn, Unfiltered
<1>2. ASSUME GetUtxos(c)
      PROVE  GoesOn(c) /\ \A d \in Call \ {c} : calls'[d] = calls[d]
  <2>1. calls[c].pc = "get_utxos"
    BY <1>2 DEF GetUtxos
  <2>2. /\ Marks' /\ calls'[c].pc = "utxos"
        /\ \A d \in Call \ {c} : calls'[d] = calls[d]
    BY <1>2, GetUtxosMarks
  <2>3. calls[c].tx = {} /\ calls'[c].tx = {}
    BY <2>1, <2>2 DEF Marks, OneTransaction, Building
  <2> QED  BY <2>1, <2>2, <2>3 DEF GoesOn, Unfiltered
<1>3. ASSUME Filter(c)
      PROVE  Filters(c) /\ \A d \in Call \ {c} : calls'[d] = calls[d]
  BY <1>3, FilterMarks DEF Filters, Filter
<1>4. ASSUME Built(c)
      PROVE  Builds(c) /\ \A d \in Call \ {c} : calls'[d] = calls[d]
  BY <1>4, BuiltBuilds
<1>5. ASSUME NEW next \in {"send", "done"}, calls' = [calls EXCEPT ![c].pc = next]
      PROVE  GoesOn(c) /\ \A d \in Call \ {c} : calls'[d] = calls[d]
  BY <1>5, PcMoves DEF GoesOn, Building
<1>6. CASE NothingLeft(c) \/ AccountBuildError(c) \/ Rejected(c)
  BY <1>5, <1>6 DEF NothingLeft, AccountBuildError, Rejected, Abandon
<1>7. CASE Signed(c)
  BY <1>5, <1>7 DEF Signed
<1>8. CASE SendTransaction(c)
  BY <1>5, <1>8 DEF SendTransaction
<1> QED  BY <1>1, <1>2, <1>3, <1>4, <1>6, <1>7, <1>8 DEF CallStep

\* Where a call c is that has not filtered, or has done so when d had built:
\* what it has on offer, and what it spends, is not what d spends.
Late(c, d) ==
    /\ c # d /\ calls[d].tx # {}
    /\ \/ calls[c].pc \in Unfiltered
       \/ /\ calls[c].pc = "build"
          /\ \A u \in calls[c].utxos, t \in calls[d].tx : u.outpoint \notin Outpoints(t)
       \/ calls[c].pc \notin Building /\ SpendApart(c, d)

\* A call that has built does not build again.
LEMMA BuiltOnce ==
    ASSUME Marks, NEW d \in Call, calls[d].tx # {}, CallStep(d)
    PROVE  calls'[d].tx = calls[d].tx
<1>1. calls[d].pc \notin Building
  BY DEF Marks, OneTransaction
<1>2. ~ Builds(d) /\ ~ Filters(d)
  BY <1>1 DEF Builds, Filters, Building
<1> QED  BY <1>2, StepOfCall DEF GoesOn

\* A step of the late call itself.
LEMMA LateStep ==
    ASSUME Marks, NEW c \in Call, NEW d \in Call, Late(c, d), CallStep(c)
    PROVE  Late(c, d)'
<1>1. /\ c # d /\ calls[d].tx # {} /\ calls'[d] = calls[d]
      /\ Builds(c) \/ Filters(c) \/ GoesOn(c)
  BY StepOfCall DEF Late
<1>2. CASE Builds(c)
  <2>1. PICK tx : calls'[c].tx = {tx} /\ tx.inputs \subseteq calls[c].utxos
    BY <1>2 DEF Builds
  <2>2. calls[c].pc = "build" /\ calls'[c].pc = "sign"
    BY <1>2 DEF Builds
  <2>3. \A u \in calls[c].utxos, t \in calls[d].tx : u.outpoint \notin Outpoints(t)
    BY <2>2 DEF Late, Unfiltered, Building
  <2>4. \A t \in calls[d].tx : Outpoints(tx) \cap Outpoints(t) = {}
    BY <2>1, <2>3 DEF Outpoints
  <2>5. SpendApart(c, d)'
    BY <1>1, <2>1, <2>4 DEF SpendApart, Outpoints
  <2> QED  BY <1>1, <2>2, <2>5 DEF Late, Building
<1>3. CASE Filters(c)
  <2>1. calls'[c].pc = "build" /\ calls'[c].utxos = Unmarked(calls[c].utxos)
    BY <1>3 DEF Filters
  <2>2. \A t \in calls[d].tx : Outpoints(t) \subseteq spent
    BY DEF Marks, MarksExact, Issued
  <2>3. \A u \in calls'[c].utxos : u.outpoint \notin spent
    BY <2>1 DEF Unmarked
  <2>4. \A u \in calls'[c].utxos, t \in calls'[d].tx : u.outpoint \notin Outpoints(t)
    BY <1>1, <2>2, <2>3
  <2> QED  BY <1>1, <2>1, <2>4 DEF Late, Outpoints
<1>4. CASE GoesOn(c)
  <2>1. CASE calls'[c].pc \in Unfiltered
    BY <1>1, <2>1 DEF Late
  <2>2. CASE calls'[c].pc \notin Building
    <3>1. SpendApart(c, d)
      BY DEF Late, SpendApart, Marks, OneTransaction, Unfiltered, Building
    <3>2. SpendApart(c, d)'
      BY <1>1, <1>4, <3>1 DEF GoesOn, SpendApart, Outpoints
    <3> QED  BY <1>1, <2>2, <3>2 DEF Late
  <2> QED  BY <1>4, <2>1, <2>2 DEF GoesOn
<1> QED  BY <1>1, <1>2, <1>3, <1>4

LEMMA NextLate ==
    ASSUME NEW c \in Call, NEW d \in Call
    PROVE  Marks /\ Late(c, d) /\ [AccountNext]_vars => Late(c, d)'
<1> SUFFICES ASSUME Marks, Late(c, d), [AccountNext]_vars
             PROVE  Late(c, d)'
  OBVIOUS
<1>1. ASSUME calls'[c] = calls[c], calls'[d].tx = calls[d].tx
      PROVE  Late(c, d)'
  BY <1>1 DEF Late, SpendApart, Outpoints
<1>2. CASE World
  BY <1>1, <1>2, WorldKeepsWallet DEF wallet
<1>3. ASSUME NEW e \in Call, CallStep(e)
      PROVE  Late(c, d)'
  <2>1. \A f \in Call \ {e} : calls'[f] = calls[f]
    BY <1>3, StepOfCall
  <2>2. CASE e = c
    BY <1>3, <2>2, LateStep
  <2>3. CASE e = d
    <3>1. calls[d].tx # {} /\ c # d
      BY DEF Late
    <3>2. calls'[d].tx = calls[d].tx
      BY <1>3, <2>3, <3>1, BuiltOnce
    <3> QED  BY <1>1, <2>1, <2>3, <3>1, <3>2
  <2>4. CASE e # c /\ e # d
    BY <1>1, <2>1, <2>4
  <2> QED  BY <2>2, <2>3, <2>4
<1>4. CASE UNCHANGED vars
  BY <1>1, <1>4 DEF vars, wallet
<1> QED  BY <1>2, <1>3, <1>4 DEF AccountNext, CallStep

\* With any number of calls open at once, a call of the account that filters
\* its UTXOs after another one has marked its inputs never spends one of them.
THEOREM AccountNoLateDoubleSpend == AccountSpec => NoLateDoubleSpend
<1>1. ASSUME NEW c \in Call, NEW d \in Call
      PROVE  AccountSpec =>
               [](calls[c].pc \in Unfiltered /\ calls[d].tx # {} => []SpendApart(c, d))
  <2>1. Marks /\ calls[c].pc \in Unfiltered /\ calls[d].tx # {} => Late(c, d)
    BY DEF Late, Marks, OneTransaction, Unfiltered, Building
  <2>2. Marks /\ Late(c, d) /\ [AccountNext]_vars => Late(c, d)'
    BY NextLate
  <2>3. Marks /\ Late(c, d) => SpendApart(c, d)
    BY DEF Late, SpendApart, Marks, OneTransaction, Unfiltered, Building
  <2> QED  BY <2>1, <2>2, <2>3, AccountMarks, PTL DEF AccountSpec
<1> QED  BY <1>1 DEF NoLateDoubleSpend

-----------------------------------------------------------------------------
(* Folds and sums.                                                         *)

LEMMA NatSetInduction ==
    ASSUME NEW T, 0 \in T, \A n \in Nat : n \in T => n + 1 \in T
    PROVE  Nat \subseteq T
<1> SUFFICES ASSUME Nat \ T # {} PROVE FALSE
  OBVIOUS
<1> DEFINE R == OpToRel(<, Nat)
           U == Nat \ T
<1>1. IsWellFoundedOn(R, Nat)
  BY NatLessThanWellFounded
<1>2. \A x, y \in Nat : x < y => <<x, y>> \in R
  BY DEF OpToRel
<1> HIDE DEF R
<1>3. PICK m \in U : \A y \in U : ~ (<<y, m>> \in R)
  BY <1>1, WFMin
<1>4. m # 0 /\ m \in Nat
  OBVIOUS
<1>5. m - 1 \in Nat /\ m - 1 < m
  BY <1>4
<1>6. m - 1 \in T
  BY <1>2, <1>3, <1>4, <1>5
<1> QED  BY <1>4, <1>5, <1>6

\* What holds of a set if it holds of it less any element holds of all
\* subsets of a finite set.
LEMMA SubsetInduction ==
    ASSUME NEW S, IsFiniteSet(S), NEW P, {} \in P,
           \A s \in SUBSET S : s # {} /\ (\A x \in s : s \ {x} \in P) => s \in P
    PROVE  \A s \in SUBSET S : s \in P
<1> DEFINE T == {n \in Nat : \A s \in SUBSET S : Cardinality(s) = n => s \in P}
<1>1. \A s \in SUBSET S : IsFiniteSet(s) /\ Cardinality(s) \in Nat
  BY FS_Subset, FS_CardinalityType
<1>2. 0 \in T
  BY <1>1, FS_EmptySet
<1>3. ASSUME NEW n \in Nat, n \in T PROVE n + 1 \in T
  <2>1. \A s \in SUBSET S : Cardinality(s) = n => s \in P
    BY <1>3
  <2>2. ASSUME NEW s \in SUBSET S, Cardinality(s) = n + 1 PROVE s \in P
    <3>1. s # {}
      <4>1. Cardinality({}) = 0 /\ n + 1 # 0
        BY FS_EmptySet
      <4> QED  BY <2>2, <4>1
    <3>2. ASSUME NEW x \in s PROVE s \ {x} \in P
      <4>1. s \ {x} \in SUBSET S /\ Cardinality(s \ {x}) = n
        BY <1>1, <2>2, FS_RemoveElement
      <4> QED  BY <2>1, <4>1
    <3> QED  BY <3>1, <3>2
  <2> QED  BY <2>2
<1> HIDE DEF T
<1>4. \A n \in Nat : n \in T
  BY <1>2, <1>3, NatSetInduction
<1>5. ASSUME NEW s \in SUBSET S PROVE s \in P
  <2>1. Cardinality(s) \in T
    BY <1>1, <1>4
  <2> QED  BY <2>1 DEF T
<1> QED  BY <1>5

\* The function over the subsets of S that takes one element away after the
\* other: pick tells which, F what the value is then.
IsFold(f, S, base, pick, F) ==
    \A s \in SUBSET S : f[s] = IF s = {} THEN base ELSE F[<<s, f[s \ {pick[s]}]>>]

LEMMA FoldExists ==
    ASSUME NEW S, IsFiniteSet(S), NEW V, NEW base \in V, NEW pick, NEW F,
           \A s \in SUBSET S : s # {} => pick[s] \in s,
           \A s \in SUBSET S : \A v \in V : F[<<s, v>>] \in V
    PROVE  \E f \in [SUBSET S -> V] : IsFold(f, S, base, pick, F)
<1> DEFINE D(n) == {s \in SUBSET S : Cardinality(s) <= n}
           Less(s) == s \ {pick[s]}
           Is(f, n) == /\ f \in [D(n) -> V]
                       /\ \A s \in D(n) : f[s] = IF s = {} THEN base ELSE F[<<s, f[Less(s)]>>]
           T == {n \in Nat : \E f : Is(f, n)}
           N == Cardinality(S)
<1>1. \A s \in SUBSET S : IsFiniteSet(s) /\ Cardinality(s) \in Nat /\ Cardinality(s) <= N
  BY FS_Subset, FS_CardinalityType
<1>2. \A s \in SUBSET S : s # {} => Less(s) \in SUBSET S /\ Cardinality(Less(s)) = Cardinality(s) - 1
  <2> SUFFICES ASSUME NEW s \in SUBSET S, s # {}
               PROVE  Less(s) \in SUBSET S /\ Cardinality(Less(s)) = Cardinality(s) - 1
    OBVIOUS
  <2> DEFINE x == pick[s]
  <2>1. x \in s /\ IsFiniteSet(s)
    BY <1>1
  <2> HIDE DEF x
  <2>2. Cardinality(s \ {x}) = Cardinality(s) - 1
    BY <2>1, FS_RemoveElement
  <2> QED  BY <2>2 DEF x
<1>3. {} \in SUBSET S /\ Cardinality({}) = 0
  BY FS_EmptySet
<1> HIDE DEF Less
<1>4. 0 \in T
  <2> DEFINE f == [s \in D(0) |-> base]
  <2>1. \A s \in D(0) : s = {}
    <3> SUFFICES ASSUME NEW s \in D(0) PROVE s = {}
      OBVIOUS
    <3>1. IsFiniteSet(s) /\ Cardinality(s) = 0
      BY <1>1
    <3> QED  BY <3>1, FS_EmptySet
  <2>2. Is(f, 0)
    BY <2>1
  <2> QED  BY <2>2
<1>5. ASSUME NEW n \in Nat, n \in T PROVE n + 1 \in T
  <2>1. PICK f : Is(f, n)
    BY <1>5
  <2> DEFINE g == [s \in D(n + 1) |-> IF s \in D(n) THEN f[s] ELSE F[<<s, f[Less(s)]>>]]
  <2>2. /\ \A s \in D(n) : f[s] \in V
        /\ \A s \in D(n) : f[s] = IF s = {} THEN base ELSE F[<<s, f[Less(s)]>>]
    BY <2>1
  <2>3. \A s \in D(n + 1) : s # {} => Less(s) \in D(n)
    BY <1>1, <1>2
  <2>4. \A s \in D(n) : s \in D(n + 1) /\ g[s] = f[s]
    BY <1>1
  <2>5. {} \in D(n)
    BY <1>3
  <2> HIDE DEF Is
  <2>6. ASSUME NEW s \in D(n + 1)
        PROVE  g[s] \in V /\ g[s] = IF s = {} THEN base ELSE F[<<s, g[Less(s)]>>]
    <3>1. s # {} => g[Less(s)] = f[Less(s)]
      BY <2>3, <2>4
    <3>2. CASE s \in D(n)
      <4> HIDE DEF g, D
      <4> QED  BY <2>2, <2>4, <3>1, <3>2
    <3>3. CASE s \notin D(n)
      <4>1. s # {} /\ g[s] = F[<<s, f[Less(s)]>>]
        BY <2>5, <3>3
      <4>2. f[Less(s)] \in V /\ s \in SUBSET S
        BY <2>2, <2>3, <4>1
      <4> HIDE DEF g, D
      <4> QED  BY <3>1, <4>1, <4>2
    <3> QED  BY <3>2, <3>3
  <2>7. g \in [D(n + 1) -> V]
    <3>1. g = [s \in D(n + 1) |-> g[s]]
      OBVIOUS
    <3> HIDE DEF g, D
    <3> QED  BY <2>6, <3>1
  <2> HIDE DEF g, D
  <2>8. Is(g, n + 1)
    BY <2>6, <2>7 DEF Is
  <2> QED  BY <2>8
<1>6. N \in Nat
  BY FS_CardinalityType
<1>7. D(N) = SUBSET S
  BY <1>1
<1> HIDE DEF T, N, D
<1>8. N \in T
  BY <1>4, <1>5, <1>6, NatSetInduction
<1>9. PICK f : Is(f, N)
  BY <1>8 DEF T
<1> QED  BY <1>7, <1>9 DEF IsFold, Less

\* The values of outputs, taken one by one.
ValueSum(S) == MapThenSumSet(LAMBDA u : u.value, S)
Taken(s) == CHOOSE x \in s : TRUE
Valued(S) == IsFiniteSet(S) /\ \A u \in S : u.value \in Nat

IsValueSum(f, S) ==
    f = [s \in SUBSET S |-> IF s = {} THEN 0 ELSE Taken(s).value + f[s \ {Taken(s)}]]

LEMMA ValueSumDef ==
    ASSUME NEW S
    PROVE  ValueSum(S) = (CHOOSE f : IsValueSum(f, S))[S]
BY DEF ValueSum, MapThenSumSet, MapThenFoldSet, IsValueSum, Taken

LEMMA ValueSumExists ==
    ASSUME NEW S, Valued(S)
    PROVE  \E f \in [SUBSET S -> Nat] : IsValueSum(f, S) /\ ValueSum(S) = f[S]
<1> DEFINE pick == [s \in SUBSET S |-> Taken(s)]
           F == [z \in (SUBSET S) \X Nat |-> (IF z[1] = {} THEN 0 ELSE Taken(z[1]).value) + z[2]]
<1>1. \A s \in SUBSET S : s # {} => Taken(s) \in s /\ Taken(s).value \in Nat
  BY DEF Taken, Valued
<1>2. \A s \in SUBSET S : s # {} => pick[s] \in s
  BY <1>1
<1>3. \A s \in SUBSET S : \A v \in Nat :
        /\ F[<<s, v>>] = (IF s = {} THEN 0 ELSE Taken(s).value) + v
        /\ F[<<s, v>>] \in Nat
  <2> SUFFICES ASSUME NEW s \in SUBSET S, NEW v \in Nat
               PROVE  /\ F[<<s, v>>] = (IF s = {} THEN 0 ELSE Taken(s).value) + v
                      /\ F[<<s, v>>] \in Nat
    OBVIOUS
  <2>1. F[<<s, v>>] = (IF s = {} THEN 0 ELSE Taken(s).value) + v
    OBVIOUS
  <2>2. (IF s = {} THEN 0 ELSE Taken(s).value) \in Nat
    BY <1>1
  <2> HIDE DEF F
  <2> QED  BY <2>1, <2>2
<1> HIDE DEF F
<1>4. PICK f \in [SUBSET S -> Nat] : IsFold(f, S, 0, pick, F)
  <2>1. IsFiniteSet(S) /\ 0 \in Nat
    BY DEF Valued
  <2> HIDE DEF pick
  <2> QED  BY <1>2, <1>3, <2>1, FoldExists
<1>5. ASSUME NEW s \in SUBSET S
      PROVE  f[s] = IF s = {} THEN 0 ELSE Taken(s).value + f[s \ {Taken(s)}]
  <2>1. f[s] = IF s = {} THEN 0 ELSE F[<<s, f[s \ {Taken(s)}]>>]
    BY <1>4 DEF IsFold
  <2>2. f[s \ {Taken(s)}] \in Nat
    OBVIOUS
  <2>3. s # {} => F[<<s, f[s \ {Taken(s)}]>>] = Taken(s).value + f[s \ {Taken(s)}]
    BY <1>3, <2>2
  <2> QED  BY <2>1, <2>3
<1>6. f = [s \in SUBSET S |-> f[s]]
  OBVIOUS
<1>7. IsValueSum(f, S)
  BY <1>5, <1>6 DEF IsValueSum
<1>8. IsValueSum(CHOOSE h : IsValueSum(h, S), S)
  BY <1>7
<1>9. ASSUME NEW g, IsValueSum(g, S) PROVE g \in [SUBSET S -> Nat]
  <2> DEFINE P == {s \in SUBSET S : g[s] \in Nat}
  <2>1. \A s \in SUBSET S : g[s] = IF s = {} THEN 0 ELSE Taken(s).value + g[s \ {Taken(s)}]
    BY <1>9 DEF IsValueSum
  <2>2. {} \in P
    <3>1. g[{}] = 0
      BY <2>1
    <3> QED  BY <3>1
  <2>3. ASSUME NEW s \in SUBSET S, s # {}, \A x \in s : s \ {x} \in P PROVE s \in P
    <3>1. Taken(s) \in s /\ Taken(s).value \in Nat
      BY <1>1, <2>3
    <3>2. g[s \ {Taken(s)}] \in Nat
      BY <2>3, <3>1
    <3>3. g[s] = Taken(s).value + g[s \ {Taken(s)}]
      BY <2>1, <2>3
    <3>4. g[s] \in Nat
      BY <3>1, <3>2, <3>3
    <3> QED  BY <3>4
  <2>4. IsFiniteSet(S)
    BY DEF Valued
  <2> HIDE DEF P
  <2>5. \A s \in SUBSET S : s \in P
    BY <2>2, <2>3, <2>4, SubsetInduction
  <2>6. \A s \in SUBSET S : g[s] \in Nat
    BY <2>5 DEF P
  <2> QED  BY <1>9, <2>6 DEF IsValueSum
<1> QED  BY <1>8, <1>9, ValueSumDef

\* The sum of a subset does not depend on the set it is a subset of.
LEMMA ValueSumUnique ==
    ASSUME NEW S, NEW T \in SUBSET S, IsFiniteSet(T), NEW g, NEW h,
           IsValueSum(g, S), IsValueSum(h, T)
    PROVE  g[T] = h[T]
<1> DEFINE P == {s \in SUBSET T : g[s] = h[s]}
<1>1. \A s \in SUBSET S : g[s] = IF s = {} THEN 0 ELSE Taken(s).value + g[s \ {Taken(s)}]
  BY DEF IsValueSum
<1>2. \A s \in SUBSET T : h[s] = IF s = {} THEN 0 ELSE Taken(s).value + h[s \ {Taken(s)}]
  BY DEF IsValueSum
<1>3. {} \in P
  BY <1>1, <1>2
<1>4. ASSUME NEW s \in SUBSET T, s # {}, \A x \in s : s \ {x} \in P PROVE s \in P
  <2> DEFINE x == Taken(s)
  <2>1. x \in s
    BY <1>4 DEF Taken
  <2>2. s \in SUBSET S /\ g[s] = x.value + g[s \ {x}] /\ h[s] = x.value + h[s \ {x}]
    BY <1>1, <1>2, <1>4
  <2> HIDE DEF x
  <2>3. g[s \ {x}] = h[s \ {x}]
    BY <1>4, <2>1
  <2> QED  BY <2>2, <2>3
<1> HIDE DEF P
<1>5. T \in P
  BY <1>3, <1>4, SubsetInduction
<1> QED  BY <1>5 DEF P

\* It does not matter which output is taken first.
LEMMA ValueSumStep ==
    ASSUME NEW S, Valued(S), NEW g \in [SUBSET S -> Nat], IsValueSum(g, S)
    PROVE  \A x \in S : g[S] = x.value + g[S \ {x}]
<1> DEFINE Q(s) == \A x \in s : g[s] = x.value + g[s \ {x}]
           P == {s \in SUBSET S : \A t \in SUBSET s : Q(t)}
<1>1. \A s \in SUBSET S : g[s] = IF s = {} THEN 0 ELSE Taken(s).value + g[s \ {Taken(s)}]
  BY DEF IsValueSum
<1>2. {} \in P
  OBVIOUS
<1>3. ASSUME NEW s \in SUBSET S, s # {}, \A x \in s : s \ {x} \in P PROVE s \in P
  <2> DEFINE c == Taken(s)
  <2>1. c \in s /\ g[s] = c.value + g[s \ {c}] /\ c.value \in Nat
    BY <1>1, <1>3 DEF Taken, Valued
  <2> HIDE DEF c
  <2>2. \A x \in s : \A t \in SUBSET (s \ {x}) : Q(t)
    BY <1>3
  <2> HIDE DEF P
  <2>3. ASSUME NEW x \in s PROVE g[s] = x.value + g[s \ {x}]
    <3>1. CASE x = c
      BY <2>1, <3>1
    <3>2. CASE x # c
      <4> DEFINE both == g[(s \ {c}) \ {x}]
                 vx == x.value
                 vc == c.value
      <4>1. x \in s \ {c} /\ c \in s \ {x} /\ (s \ {c}) \ {x} = (s \ {x}) \ {c}
        BY <2>1, <3>2
      <4>2. Q(s \ {c}) /\ Q(s \ {x})
        BY <2>1, <2>2
      <4>3. g[s \ {c}] = vx + both /\ g[s \ {x}] = vc + both /\ both \in Nat
        BY <4>1, <4>2
      <4>4. vx \in Nat /\ vc \in Nat
        BY <2>1 DEF Valued
      <4> HIDE DEF both, vx, vc
      <4>5. g[s] = vc + (vx + both) /\ vc + (vx + both) = vx + (vc + both)
        BY <2>1, <4>3, <4>4 DEF vc
      <4> QED  BY <4>3, <4>5 DEF vx
    <3> QED  BY <3>1, <3>2
  <2>4. Q(s)
    BY <2>3
  <2>5. ASSUME NEW t \in SUBSET s, t # s PROVE \E x \in s : t \in SUBSET (s \ {x})
    <3>1. PICK x \in s : x \notin t
      BY <2>5
    <3> QED  BY <3>1
  <2> HIDE DEF Q
  <2>6. \A t \in SUBSET s : Q(t)
    BY <2>2, <2>4, <2>5
  <2> QED  BY <2>6 DEF P
<1> HIDE DEF P, Q
<1>4. IsFiniteSet(S)
  BY DEF Valued
<1>5. \A s \in SUBSET S : s \in P
  BY <1>2, <1>3, <1>4, SubsetInduction
<1>6. S \in P
  BY <1>5
<1>7. Q(S)
  BY <1>6 DEF P
<1> QED  BY <1>7 DEF Q

LEMMA ValueSumFacts ==
    ASSUME NEW S, Valued(S)
    PROVE  /\ ValueSum(S) \in Nat
           /\ S = {} => ValueSum(S) = 0
           /\ \A x \in S : ValueSum(S) = x.value + ValueSum(S \ {x})
<1>1. PICK g \in [SUBSET S -> Nat] : IsValueSum(g, S) /\ ValueSum(S) = g[S]
  BY ValueSumExists
<1>2. g[S] \in Nat /\ \A x \in S : g[S] = x.value + g[S \ {x}]
  <2>1. g \in [SUBSET S -> Nat] /\ IsValueSum(g, S) /\ Valued(S)
    BY <1>1
  <2> QED  BY <2>1, ValueSumStep
<1>3. S = {} => g[S] = 0
  BY <1>1 DEF IsValueSum
<1>4. ASSUME NEW x \in S PROVE g[S \ {x}] = ValueSum(S \ {x})
  <2> DEFINE T == S \ {x}
  <2>1. T \in SUBSET S /\ Valued(T) /\ IsFiniteSet(T)
    BY FS_RemoveElement DEF Valued
  <2> HIDE DEF T
  <2>2. PICK h \in [SUBSET T -> Nat] : IsValueSum(h, T) /\ ValueSum(T) = h[T]
    BY <2>1, ValueSumExists
  <2>3. g[T] = h[T]
    BY <1>1, <2>1, <2>2, ValueSumUnique
  <2> QED  BY <2>2, <2>3 DEF T
<1> QED  BY <1>1, <1>2, <1>3, <1>4

LEMMA ValueSumAdd ==
    ASSUME NEW S, Valued(S), NEW x, x \notin S, x.value \in Nat
    PROVE  Valued(S \cup {x}) /\ ValueSum(S \cup {x}) = x.value + ValueSum(S)
<1> DEFINE T == S \cup {x}
<1>1. Valued(T) /\ x \in T /\ T \ {x} = S
  BY FS_AddElement DEF Valued
<1> HIDE DEF T
<1>2. ValueSum(T) = x.value + ValueSum(T \ {x})
  BY <1>1, ValueSumFacts
<1> QED  BY <1>1, <1>2 DEF T

LEMMA ValueSumParts ==
    ASSUME NEW S, Valued(S), NEW A \in SUBSET S
    PROVE  /\ Valued(A) /\ Valued(S \ A)
           /\ ValueSum(S) = ValueSum(A) + ValueSum(S \ A)
           /\ ValueSum(A) <= ValueSum(S)
<1> DEFINE P == {s \in SUBSET S : ValueSum(S) = ValueSum(s) + ValueSum(S \ s)}
<1>1. \A s \in SUBSET S : Valued(s) /\ Valued(S \ s)
  BY FS_Subset DEF Valued
<1>2. \A s \in SUBSET S : ValueSum(s) \in Nat /\ ValueSum(S \ s) \in Nat
  BY <1>1, ValueSumFacts
<1>3. {} \in P
  <2>1. ValueSum({}) = 0 /\ S \ {} = S /\ ValueSum(S) \in Nat
    BY <1>1, ValueSumFacts
  <2> QED  BY <2>1
<1>4. ASSUME NEW s \in SUBSET S, s # {}, \A x \in s : s \ {x} \in P PROVE s \in P
  <2>1. PICK x \in s : TRUE
    BY <1>4
  <2> DEFINE r == s \ {x}
             t == S \ r
             v == x.value
             vr == ValueSum(r)
             vt == ValueSum(S \ s)
  <2>2. ValueSum(S) = vr + ValueSum(t)
    BY <1>4, <2>1
  <2>3. ValueSum(s) = v + vr
    BY <1>1, <2>1, ValueSumFacts
  <2>4. r \in SUBSET S /\ x \in t /\ t \ {x} = S \ s
    BY <2>1
  <2>5. Valued(t)
    BY <1>1, <2>4
  <2> HIDE DEF t
  <2>6. ValueSum(t) = v + vt
    BY <2>4, <2>5, ValueSumFacts
  <2>7. v \in Nat /\ vr \in Nat /\ vt \in Nat
    BY <1>2, <2>1, <2>4 DEF Valued
  <2> HIDE DEF v, vr, vt
  <2>8. ValueSum(S) = ValueSum(s) + vt
    BY <2>2, <2>3, <2>6, <2>7
  <2> QED  BY <2>8 DEF vt
<1> HIDE DEF P
<1>5. IsFiniteSet(S)
  BY DEF Valued
<1>6. A \in P
  BY <1>3, <1>4, <1>5, SubsetInduction
<1>7. ValueSum(S) = ValueSum(A) + ValueSum(S \ A)
  BY <1>6 DEF P
<1> QED  BY <1>1, <1>2, <1>7

LEMMA ValueSumUnion ==
    ASSUME NEW A, Valued(A), NEW B, Valued(B)
    PROVE  Valued(A \cup B) /\ ValueSum(A \cup B) <= ValueSum(A) + ValueSum(B)
<1> DEFINE S == A \cup B
           C == S \ A
<1>1. Valued(S) /\ A \in SUBSET S /\ C \in SUBSET B
  BY FS_Union DEF Valued
<1> HIDE DEF S
<1>2. ValueSum(S) = ValueSum(A) + ValueSum(C)
  BY <1>1, ValueSumParts
<1> HIDE DEF C
<1>3. ValueSum(C) <= ValueSum(B) /\ Valued(C)
  BY <1>1, ValueSumParts
<1>4. ValueSum(A) \in Nat /\ ValueSum(B) \in Nat /\ ValueSum(C) \in Nat
  BY <1>3, ValueSumFacts
<1> QED  BY <1>1, <1>2, <1>3, <1>4 DEF S

-----------------------------------------------------------------------------
(* What a transaction is worth.                                            *)

LEMMA MaxIn ==
    ASSUME NEW n \in Nat, NEW S \in SUBSET (1 .. n), S # {}
    PROVE  Max(S) \in S /\ \A y \in S : y <= Max(S)
<1> DEFINE P(m) == \A A \in SUBSET (1 .. m) : A = {} \/ \E x \in A : \A y \in A : x >= y
           T == {m \in Nat : P(m)}
<1>1. 0 \in T
  <2>1. 1 .. 0 = {}
    OBVIOUS
  <2> QED  BY <2>1
<1>2. ASSUME NEW m \in Nat, m \in T PROVE m + 1 \in T
  <2>1. ASSUME NEW A \in SUBSET (1 .. m + 1), A # {} PROVE \E x \in A : \A y \in A : x >= y
    <3>1. CASE m + 1 \in A
      <4>1. \A y \in A : m + 1 >= y
        OBVIOUS
      <4> QED  BY <3>1, <4>1
    <3>2. CASE m + 1 \notin A
      <4>1. A \in SUBSET (1 .. m)
        BY <3>2
      <4> QED  BY <1>2, <2>1, <4>1
    <3> QED  BY <3>1, <3>2
  <2> QED  BY <2>1
<1> HIDE DEF T
<1>3. n \in T
  BY <1>1, <1>2, NatSetInduction
<1>4. \E x \in S : \A y \in S : x >= y
  BY <1>3 DEF T
<1>5. Max(S) \in S /\ \A y \in S : Max(S) >= y
  BY <1>4 DEF Max
<1> QED  BY <1>5

\* The first numbers.
LEMMA FirstNumbers ==
    ASSUME NEW n \in Nat, NEW R \in SUBSET (1 .. n), \A i \in R : \A j \in 1 .. i : j \in R
    PROVE  Cardinality(R) \in 0 .. n /\ R = 1 .. Cardinality(R)
<1>1. ASSUME NEW k \in 0 .. n, R = 1 .. k PROVE Cardinality(R) = k
  <2>1. k \in Nat
    OBVIOUS
  <2> QED  BY <1>1, <2>1, FS_Interval
<1>2. CASE R = {}
  <2>1. 0 \in 0 .. n /\ R = 1 .. 0
    BY <1>2
  <2> QED  BY <1>1, <2>1
<1>3. CASE R # {}
  <2> DEFINE k == Max(R)
  <2>1. k \in R /\ \A y \in R : y <= k
    BY <1>3, MaxIn
  <2> HIDE DEF k
  <2>2. k \in 0 .. n /\ 1 .. k \subseteq R
    BY <2>1
  <2>3. R \subseteq 1 .. k
    BY <2>1, <2>2
  <2>4. R = 1 .. k
    BY <2>2, <2>3
  <2> QED  BY <1>1, <2>2, <2>4
<1> QED  BY <1>2, <1>3

LEMMA ImageFinite ==
    ASSUME NEW S, IsFiniteSet(S), NEW f
    PROVE  IsFiniteSet({f[x] : x \in S})
<1> DEFINE T == {f[x] : x \in S}
           h == [x \in S |-> f[x]]
<1>1. h \in [S -> T] /\ \A y \in T : \E x \in S : h[x] = y
  OBVIOUS
<1> HIDE DEF h, T
<1>2. h \in Surjection(S, T)
  BY <1>1 DEF Surjection
<1> QED  BY <1>2, FS_Surjection DEF T

LEMMA SmallRest ==
    ASSUME NEW w \in Nat \ {0}, NEW c \in Nat, c < w
    PROVE  c % w = c
OBVIOUS

IsTotal(f, t) ==
    f = [s \in SUBSET DOMAIN t |->
            IF s = {} THEN 0 ELSE (f[s \ {Max(s)}] + t[Max(s)].value) % Word]

LEMMA TotalDef ==
    ASSUME NEW t
    PROVE  Total(t) = (CHOOSE f : IsTotal(f, t))[DOMAIN t]
BY DEF Total, FoldLeft, MapThenFoldSet, IsTotal

LEMMA TotalExists ==
    ASSUME NEW n \in Nat, NEW t, DOMAIN t = 1 .. n, \A i \in 1 .. n : t[i].value \in Nat
    PROVE  \E f : IsTotal(f, t) /\ Total(t) = f[1 .. n]
<1> DEFINE S == 1 .. n
           V == 0 .. Word - 1
           pick == [s \in SUBSET S |-> Max(s)]
           F == [z \in (SUBSET S) \X V |->
                   (z[2] + (IF z[1] = {} THEN 0 ELSE t[Max(z[1])].value)) % Word]
<1>1. \A s \in SUBSET S : s # {} => Max(s) \in s /\ t[Max(s)].value \in Nat
  BY MaxIn
<1>2. \A s \in SUBSET S : s # {} => pick[s] \in s
  BY <1>1
<1>3. \A s \in SUBSET S : \A v \in V :
        /\ F[<<s, v>>] = (v + (IF s = {} THEN 0 ELSE t[Max(s)].value)) % Word
        /\ F[<<s, v>>] \in V
  <2> SUFFICES ASSUME NEW s \in SUBSET S, NEW v \in V
               PROVE  /\ F[<<s, v>>] = (v + (IF s = {} THEN 0 ELSE t[Max(s)].value)) % Word
                      /\ F[<<s, v>>] \in V
    OBVIOUS
  <2> DEFINE w == IF s = {} THEN 0 ELSE t[Max(s)].value
  <2>1. F[<<s, v>>] = (v + w) % Word
    OBVIOUS
  <2>2. w \in Nat
    BY <1>1
  <2> HIDE DEF F, w
  <2>3. Word \in Nat \ {0} /\ v \in Nat
    BY WordAssumption
  <2>4. (v + w) % Word \in V
    BY <2>2, <2>3
  <2> QED  BY <2>1, <2>4 DEF w
<1>4. IsFiniteSet(S) /\ 0 \in V
  BY FS_Interval, WordAssumption
<1> HIDE DEF F, V
<1>5. PICK f \in [SUBSET S -> V] : IsFold(f, S, 0, pick, F)
  <2> HIDE DEF pick, S
  <2> QED  BY <1>2, <1>3, <1>4, FoldExists
<1>6. ASSUME NEW s \in SUBSET S
      PROVE  f[s] = IF s = {} THEN 0 ELSE (f[s \ {Max(s)}] + t[Max(s)].value) % Word
  <2>1. f[s] = IF s = {} THEN 0 ELSE F[<<s, f[s \ {Max(s)}]>>]
    BY <1>5 DEF IsFold
  <2>2. f[s \ {Max(s)}] \in V
    OBVIOUS
  <2>3. s # {} => F[<<s, f[s \ {Max(s)}]>>] = (f[s \ {Max(s)}] + t[Max(s)].value) % Word
    BY <1>3, <2>2
  <2> QED  BY <2>1, <2>3
<1>7. f = [s \in SUBSET S |-> f[s]]
  OBVIOUS
<1>8. IsTotal(f, t)
  BY <1>6, <1>7 DEF IsTotal
<1>9. IsTotal(CHOOSE h : IsTotal(h, t), t)
  BY <1>8
<1> QED  BY <1>9, TotalDef

\* The wrapped sum of a list is the sum of its values when that fits a word.
LEMMA TotalIsSum ==
    ASSUME NEW n \in Nat, NEW t, DOMAIN t = 1 .. n, \A i \in 1 .. n : t[i].value \in Nat,
           \A i, j \in 1 .. n : t[i] = t[j] => i = j,
           ValueSum({t[i] : i \in 1 .. n}) < Word
    PROVE  Total(t) = ValueSum({t[i] : i \in 1 .. n})
<1> DEFINE R(k) == {t[i] : i \in 1 .. k}

<1>1. PICK f : IsTotal(f, t) /\ Total(t) = f[1 .. n]
  BY TotalExists
<1>2. \A k \in 1 .. n : f[1 .. k] = (f[1 .. k - 1] + t[k].value) % Word
  <2> SUFFICES ASSUME NEW k \in 1 .. n PROVE f[1 .. k] = (f[1 .. k - 1] + t[k].value) % Word
    OBVIOUS
  <2> DEFINE s == 1 .. k
  <2>1. s \in SUBSET (1 .. n) /\ s # {} /\ k \in s /\ k \in Nat
    OBVIOUS
  <2>2. Max(s) \in s /\ \A y \in s : y <= Max(s)
    <3> HIDE DEF s
    <3> QED  BY <2>1, MaxIn
  <2>3. Max(s) = k
    BY <2>1, <2>2
  <2>4. s \ {k} = 1 .. k - 1
    OBVIOUS
  <2>5. f[s] = (f[s \ {Max(s)}] + t[Max(s)].value) % Word
    <3> HIDE DEF s
    <3> QED  BY <1>1, <2>1 DEF IsTotal
  <2> QED  BY <2>3, <2>4, <2>5
<1>3. f[{}] = 0
  BY <1>1 DEF IsTotal
<1> DEFINE Q(k) == IsFiniteSet(R(k)) /\ f[1 .. k] = ValueSum(R(k))
           T == {k \in Nat : k <= n => Q(k)}
<1>4. 0 \in T
  <2>1. R(0) = {} /\ 1 .. 0 = {}
    OBVIOUS
  <2>2. IsFiniteSet({}) /\ ValueSum({}) = 0
    <3>1. Valued({})
      BY FS_EmptySet DEF Valued
    <3> QED  BY <3>1, ValueSumFacts DEF Valued
  <2> HIDE DEF R
  <2> QED  BY <1>3, <2>1, <2>2
<1>5. IsFiniteSet(R(n)) /\ Valued(R(n))
  <2>1. IsFiniteSet(1 .. n)
    BY FS_Interval
  <2>2. IsFiniteSet(R(n))
    BY <2>1, ImageFinite
  <2> QED  BY <2>2 DEF Valued
<1>6. ASSUME NEW k \in Nat, k \in T PROVE k + 1 \in T
  <2> SUFFICES ASSUME k + 1 <= n PROVE Q(k + 1)
    OBVIOUS
  <2> DEFINE x == t[k + 1]
  <2>1. k + 1 \in 1 .. n /\ (k + 1) - 1 = k /\ k <= n
    OBVIOUS
  <2>2. f[1 .. k + 1] = (f[1 .. k] + x.value) % Word
    BY <1>2, <2>1
  <2>3. Q(k)
    BY <1>6, <2>1
  <2>4. R(k + 1) = R(k) \cup {x} /\ x \notin R(k)
    <3>1. \A i \in 1 .. k + 1 : i \in 1 .. k \/ i = k + 1
      OBVIOUS
    <3>2. \A i \in 1 .. k : i \in 1 .. n /\ i # k + 1
      OBVIOUS
    <3>3. \A i \in 1 .. k : i \in 1 .. k + 1
      OBVIOUS
    <3>4. k + 1 \in 1 .. k + 1
      OBVIOUS
    <3> QED  BY <2>1, <3>1, <3>2, <3>3, <3>4
  <2>5. R(k) \subseteq R(n) /\ R(k + 1) \subseteq R(n) /\ x \in R(n)
    BY <2>1
  <2>6. x.value \in Nat
    BY <2>1
  <2> DEFINE A == R(k)
             B == R(n)
             C == R(k + 1)
  <2>7. ValueSum(B) < Word
    OBVIOUS
  <2> HIDE DEF R, A, B, C, x
  <2>8. Valued(B) /\ A \in SUBSET B /\ C \in SUBSET B /\ C = A \cup {x} /\ x \notin A
    BY <1>5, <2>4, <2>5 DEF A, B, C
  <2>9. Valued(A)
    BY <2>8, ValueSumParts
  <2>10. ValueSum(C) = x.value + ValueSum(A)
    BY <2>6, <2>8, <2>9, ValueSumAdd
  <2>11. Valued(C) /\ ValueSum(C) <= ValueSum(B)
    BY <2>8, ValueSumParts
  <2>12. ValueSum(A) \in Nat /\ ValueSum(B) \in Nat
    BY <2>8, <2>9, ValueSumFacts
  <2> DEFINE a == ValueSum(A)
             b == ValueSum(B)
             c == ValueSum(C)
             v == x.value
  <2>13. f[1 .. k + 1] = (a + v) % Word
    BY <2>2, <2>3 DEF A
  <2>14. c = v + a /\ c <= b /\ b < Word /\ a \in Nat /\ b \in Nat /\ v \in Nat
    BY <2>6, <2>7, <2>10, <2>11, <2>12
  <2> HIDE DEF a, b, c, v
  <2>15. (a + v) % Word = c
    <3>1. a + v = c /\ c \in Nat /\ c < Word /\ Word \in Nat \ {0}
      BY <2>14, WordAssumption
    <3> QED  BY <3>1, SmallRest
  <2>16. IsFiniteSet(C)
    BY <2>11 DEF Valued
  <2> QED  BY <2>13, <2>15, <2>16 DEF C, c
<1> HIDE DEF T
<1>7. n \in T
  BY <1>4, <1>6, NatSetInduction
<1>8. f[1 .. n] = ValueSum(R(n))
  BY <1>7 DEF T
<1> QED  BY <1>1, <1>8

\* A list that begins a list of different outputs: its total is that of its
\* values, when all the outputs fit a word.
LEMMA TotalOfPart ==
    ASSUME NEW utxos, Valued(utxos), ValueSum(utxos) < Word,
           NEW list \in SetToSeqs(utxos), NEW k \in 0 .. Cardinality(utxos)
    PROVE  Total(SubSeq(list, 1, k)) = ValueSum({list[i] : i \in 1 .. k})
<1> DEFINE n == Cardinality(utxos)
           t == SubSeq(list, 1, k)
           R == {list[i] : i \in 1 .. k}
<1>1. n \in Nat
  BY FS_CardinalityType DEF Valued
<1>2. list \in [1 .. n -> utxos] /\ \A i, j \in 1 .. n : list[i] = list[j] => i = j
  BY DEF SetToSeqs
<1> HIDE DEF n
<1>3. k \in Nat /\ k <= n /\ k \in 0 .. n
  BY <1>1 DEF n
<1>4. list \in Seq(utxos) /\ Len(list) = n
  BY <1>1, <1>2
<1>5. t \in Seq(utxos) /\ Len(t) = k /\ \A i \in 1 .. k : t[i] = list[i]
  BY <1>3, <1>4
<1>6. DOMAIN t = 1 .. k
  BY <1>5
<1> HIDE DEF t
<1>7. \A i \in 1 .. k : i \in 1 .. n /\ t[i] \in utxos /\ t[i].value \in Nat
  BY <1>1, <1>2, <1>3, <1>5 DEF Valued
<1>8. \A i, j \in 1 .. k : t[i] = t[j] => i = j
  BY <1>2, <1>5, <1>7
<1>9. {t[i] : i \in 1 .. k} = R
  BY <1>5
<1>10. ValueSum(R) < Word
  <2>1. R \in SUBSET utxos
    BY <1>5, <1>7
  <2> HIDE DEF R
  <2>2. ValueSum(R) <= ValueSum(utxos) /\ Valued(R)
    BY <2>1, ValueSumParts
  <2>3. ValueSum(R) \in Nat /\ ValueSum(utxos) \in Nat /\ Word \in Nat
    BY <2>2, ValueSumFacts, WordAssumption
  <2> QED  BY <2>2, <2>3
<1> HIDE DEF R
<1>11. ValueSum({t[i] : i \in 1 .. k}) < Word
  BY <1>9, <1>10
<1>12. Total(t) = ValueSum({t[i] : i \in 1 .. k})
  BY <1>3, <1>6, <1>7, <1>8, <1>11, TotalIsSum
<1> QED  BY <1>9, <1>12 DEF t, R

\* The inputs of a transaction are worth what the loop has added up.
LEMMA InputsAreSpent ==
    ASSUME NEW utxos, Valued(utxos), ValueSum(utxos) < Word,
           NEW list \in SetToSeqs(utxos), NEW amount
    PROVE  LET inputs == {list[i] : i \in Reached(list, amount, Fees)}
           IN  /\ inputs \in SUBSET utxos
               /\ TotalSpent(list, amount, Fees) = ValueSum(inputs)
<1> DEFINE n == Cardinality(utxos)
           R == Reached(list, amount, Fees)
           k == Cardinality(R)
<1>1. n \in Nat
  BY FS_CardinalityType DEF Valued
<1>2. list \in [1 .. n -> utxos]
  BY DEF SetToSeqs
<1> HIDE DEF n
<1>3. R \in SUBSET (1 .. n)
  BY <1>2 DEF Reached
<1>4. \A i \in R : \A j \in 1 .. i : j \in R
  <2> SUFFICES ASSUME NEW i \in R, NEW j \in 1 .. i PROVE j \in R
    OBVIOUS
  <2>1. i \in 1 .. n /\ j \in 1 .. n
    BY <1>1, <1>3
  <2>2. \A m \in 1 .. j - 1 : m \in 1 .. i - 1
    BY <2>1
  <2> QED  BY <1>2, <2>1, <2>2 DEF Reached
<1>5. TotalSpent(list, amount, Fees) = Total(SubSeq(list, 1, k))
  BY DEF TotalSpent
<1>6. {list[i] : i \in R} \in SUBSET utxos
  BY <1>2, <1>3
<1> HIDE DEF R
<1>7. k \in 0 .. n /\ R = 1 .. k
  BY <1>1, <1>3, <1>4, FirstNumbers
<1> HIDE DEF k
<1>8. Total(SubSeq(list, 1, k)) = ValueSum({list[i] : i \in 1 .. k})
  BY <1>7, TotalOfPart DEF n
<1> QED  BY <1>5, <1>6, <1>7, <1>8 DEF R

\* What a transaction pays, to whom: the amount, and maybe the rest.
Pays(tx, a) ==
    \/ tx.outputs = <<[to |-> Destination, value |-> a]>>
    \/ \E b \in Nat : tx.outputs = <<[to |-> Destination, value |-> a],
                                     [to |-> Source, value |-> b]>>

IsOutputSum(f, t) ==
    f = [s \in SUBSET DOMAIN t |-> IF s = {} THEN 0 ELSE f[s \ {Max(s)}] + t[Max(s)].value]

LEMMA OutputValueDef ==
    ASSUME NEW tx
    PROVE  OutputValue(tx) = (CHOOSE f : IsOutputSum(f, tx.outputs))[DOMAIN tx.outputs]
BY DEF OutputValue, FoldLeft, MapThenFoldSet, IsOutputSum

LEMMA OutputSumExists ==
    ASSUME NEW tx, NEW n \in Nat, DOMAIN tx.outputs = 1 .. n,
           \A i \in 1 .. n : tx.outputs[i].value \in Nat
    PROVE  \E f : IsOutputSum(f, tx.outputs) /\ OutputValue(tx) = f[1 .. n]
<1> DEFINE S == 1 .. n
           t == tx.outputs
           pick == [s \in SUBSET S |-> Max(s)]
           F == [z \in (SUBSET S) \X Nat |->
                   z[2] + (IF z[1] = {} THEN 0 ELSE t[Max(z[1])].value)]
<1>1. \A s \in SUBSET S : s # {} => Max(s) \in s /\ t[Max(s)].value \in Nat
  BY MaxIn
<1>2. \A s \in SUBSET S : s # {} => pick[s] \in s
  BY <1>1
<1>3. \A s \in SUBSET S : \A v \in Nat :
        /\ F[<<s, v>>] = v + (IF s = {} THEN 0 ELSE t[Max(s)].value)
        /\ F[<<s, v>>] \in Nat
  <2> SUFFICES ASSUME NEW s \in SUBSET S, NEW v \in Nat
               PROVE  /\ F[<<s, v>>] = v + (IF s = {} THEN 0 ELSE t[Max(s)].value)
                      /\ F[<<s, v>>] \in Nat
    OBVIOUS
  <2> DEFINE w == IF s = {} THEN 0 ELSE t[Max(s)].value
  <2>1. F[<<s, v>>] = v + w
    OBVIOUS
  <2>2. w \in Nat
    BY <1>1
  <2> HIDE DEF F, w
  <2> QED  BY <2>1, <2>2 DEF w
<1>4. IsFiniteSet(S) /\ 0 \in Nat
  BY FS_Interval
<1> HIDE DEF F
<1>5. PICK f \in [SUBSET S -> Nat] : IsFold(f, S, 0, pick, F)
  <2> HIDE DEF pick, S
  <2> QED  BY <1>2, <1>3, <1>4, FoldExists
<1>6. ASSUME NEW s \in SUBSET S
      PROVE  f[s] = IF s = {} THEN 0 ELSE f[s \ {Max(s)}] + t[Max(s)].value
  <2>1. f[s] = IF s = {} THEN 0 ELSE F[<<s, f[s \ {Max(s)}]>>]
    BY <1>5 DEF IsFold
  <2>2. f[s \ {Max(s)}] \in Nat
    OBVIOUS
  <2>3. s # {} => F[<<s, f[s \ {Max(s)}]>>] = f[s \ {Max(s)}] + t[Max(s)].value
    BY <1>3, <2>2
  <2> QED  BY <2>1, <2>3
<1>7. f = [s \in SUBSET S |-> f[s]]
  OBVIOUS
<1>8. IsOutputSum(f, t)
  BY <1>6, <1>7 DEF IsOutputSum
<1>9. IsOutputSum(CHOOSE h : IsOutputSum(h, t), t)
  BY <1>8
<1> QED  BY <1>9, OutputValueDef

\* The outputs of a transaction are worth the amount and the rest, and its
\* change is at most that.
LEMMA PaysFacts ==
    ASSUME NEW tx, NEW a \in Nat, Pays(tx, a)
    PROVE  /\ tx.outputs[1].value = a
           /\ tx.outputs = <<[to |-> Destination, value |-> a]>> => OutputValue(tx) = a
           /\ \A b \in Nat : tx.outputs = <<[to |-> Destination, value |-> a],
                                            [to |-> Source, value |-> b]>>
                             => OutputValue(tx) = a + b
<1> DEFINE t == tx.outputs
<1>1. Max({1}) = 1
  <2>1. Max({1}) \in {1}
    <3>1. {1} \in SUBSET (1 .. 1) /\ {1} # {}
      OBVIOUS
    <3> QED  BY <3>1, MaxIn
  <2> QED  BY <2>1
<1>2. Max({1, 2}) = 2
  <2>1. Max({1, 2}) \in {1, 2} /\ \A y \in {1, 2} : y <= Max({1, 2})
    <3>1. {1, 2} \in SUBSET (1 .. 2) /\ {1, 2} # {}
      OBVIOUS
    <3> QED  BY <3>1, MaxIn
  <2> QED  BY <2>1
<1>3. ASSUME t = <<[to |-> Destination, value |-> a]>>
      PROVE  t[1].value = a /\ OutputValue(tx) = a
  <2>1. DOMAIN t = {1} /\ 1 .. 1 = {1} /\ t[1].value = a
    BY <1>3
  <2> HIDE DEF t
  <2>2. DOMAIN t = 1 .. 1 /\ \A i \in 1 .. 1 : t[i].value \in Nat
    BY <2>1
  <2>3. PICK f : IsOutputSum(f, t) /\ OutputValue(tx) = f[1 .. 1]
    BY <2>2, OutputSumExists DEF t
  <2>4. f[{}] = 0 /\ f[{1}] = f[{1} \ {Max({1})}] + t[Max({1})].value
    BY <2>1, <2>3 DEF IsOutputSum
  <2>5. {1} \ {1} = {}
    OBVIOUS
  <2>6. f[{1}] = a
    BY <1>1, <2>1, <2>4, <2>5
  <2>7. f[1 .. 1] = a
    BY <2>1, <2>6
  <2> QED  BY <2>1, <2>3, <2>7
<1>4. ASSUME NEW b \in Nat,
             t = <<[to |-> Destination, value |-> a], [to |-> Source, value |-> b]>>
      PROVE  t[1].value = a /\ OutputValue(tx) = a + b
  <2>1. DOMAIN t = {1, 2} /\ 1 .. 2 = {1, 2} /\ t[1].value = a /\ t[2].value = b
    BY <1>4
  <2> HIDE DEF t
  <2>2. DOMAIN t = 1 .. 2 /\ \A i \in 1 .. 2 : t[i].value \in Nat
    BY <2>1
  <2>3. PICK f : IsOutputSum(f, t) /\ OutputValue(tx) = f[1 .. 2]
    BY <2>2, OutputSumExists DEF t
  <2>4. /\ f[{}] = 0 /\ f[{1}] = f[{1} \ {Max({1})}] + t[Max({1})].value
        /\ f[{1, 2}] = f[{1, 2} \ {Max({1, 2})}] + t[Max({1, 2})].value
    BY <2>1, <2>3 DEF IsOutputSum
  <2>5. {1} \ {1} = {} /\ {1, 2} \ {2} = {1}
    OBVIOUS
  <2>6. f[{1}] = a
    BY <1>1, <2>1, <2>4, <2>5
  <2>7. f[{1, 2}] = a + b
    BY <1>2, <2>1, <2>4, <2>5, <2>6
  <2> QED  BY <2>1, <2>3, <2>7
<1> QED  BY <1>3, <1>4 DEF Pays

LEMMA ChangeFacts ==
    ASSUME NEW tx, NEW a \in Nat, Pays(tx, a)
    PROVE  /\ Valued(Change(tx)) /\ ValueSum(Change(tx)) <= OutputValue(tx)
           /\ OutputValue(tx) \in Nat
           /\ \A u \in Change(tx) : u.outpoint.txid = tx.id
<1> DEFINE Paid(i) == [outpoint |-> [txid |-> tx.id, vout |-> i - 1], value |-> tx.outputs[i].value]
           A == {Paid(i) : i \in DOMAIN tx.outputs}
<1>1. Change(tx) \in SUBSET A
  BY DEF Change
<1>2. Valued({}) /\ ValueSum({}) = 0
  <2>1. Valued({})
    BY FS_EmptySet DEF Valued
  <2> QED  BY <2>1, ValueSumFacts
<1>3. CASE tx.outputs = <<[to |-> Destination, value |-> a]>>
  <2> DEFINE x == Paid(1)
  <2>1. DOMAIN tx.outputs = {1} /\ tx.outputs[1].value = a
    BY <1>3
  <2>2. A = {x} /\ x.value = a
    BY <2>1
  <2>3. OutputValue(tx) = a
    BY <1>3, PaysFacts
  <2> HIDE DEF x, A
  <2>4. Valued({} \cup {x}) /\ ValueSum({} \cup {x}) = a + 0
    BY <1>2, <2>2, ValueSumAdd
  <2>5. {} \cup {x} = A /\ a + 0 = a
    BY <2>2
  <2>6. Valued(A) /\ ValueSum(A) = a
    BY <2>4, <2>5
  <2>7. Valued(Change(tx)) /\ ValueSum(Change(tx)) <= a
    BY <1>1, <2>6, ValueSumParts
  <2> QED  BY <2>3, <2>7 DEF Change
<1>4. CASE \E b \in Nat : tx.outputs = <<[to |-> Destination, value |-> a],
                                         [to |-> Source, value |-> b]>>
  <2>0. PICK b \in Nat : tx.outputs = <<[to |-> Destination, value |-> a],
                                        [to |-> Source, value |-> b]>>
    BY <1>4
  <2> DEFINE x == Paid(1)
             y == Paid(2)
  <2>1. DOMAIN tx.outputs = {1, 2} /\ tx.outputs[1].value = a /\ tx.outputs[2].value = b
    BY <2>0
  <2>2. A = {x, y} /\ x.value = a /\ y.value = b
    BY <2>1
  <2>3. x # y
    <3>1. x.outpoint.vout = 0 /\ y.outpoint.vout = 1
      OBVIOUS
    <3> HIDE DEF x, y
    <3> QED  BY <3>1
  <2>4. OutputValue(tx) = a + b
    BY <2>0, PaysFacts
  <2> HIDE DEF x, y, A
  <2>5. Valued({} \cup {x}) /\ ValueSum({} \cup {x}) = a + 0
    BY <1>2, <2>2, ValueSumAdd
  <2>6. {} \cup {x} = {x} /\ a + 0 = a
    OBVIOUS
  <2>7. Valued({x}) /\ ValueSum({x}) = a /\ y \notin {x}
    BY <2>3, <2>5, <2>6
  <2>8. Valued({x} \cup {y}) /\ ValueSum({x} \cup {y}) = b + a
    BY <2>2, <2>7, ValueSumAdd
  <2>9. {x} \cup {y} = A /\ b + a = a + b
    BY <2>2
  <2>10. Valued(A) /\ ValueSum(A) = a + b
    BY <2>8, <2>9
  <2>11. Valued(Change(tx)) /\ ValueSum(Change(tx)) <= a + b
    BY <1>1, <2>10, ValueSumParts
  <2> QED  BY <2>4, <2>11 DEF Change
<1> QED  BY <1>3, <1>4 DEF Pays

\* What the fees of a transaction should be.
FeesOf(tx) ==
    LET amount == tx.outputs[1].value
    IN  InputValue(tx) >= amount + Fees =>
          InputValue(tx) - OutputValue(tx) - Fees \in 0 .. DustThreshold - 1

LEMMA OneThenOther == ASSUME NEW x, NEW y PROVE <<x>> \o <<y>> = <<x, y>>
<1> DEFINE S == {x, y}
           s == <<x>>
           t == <<y>>
           r == <<x, y>>
<1>1. s \in Seq(S) /\ Len(s) = 1 /\ s[1] = x
  OBVIOUS
<1>2. t \in Seq(S) /\ Len(t) = 1 /\ t[1] = y
  OBVIOUS
<1>3. r \in Seq(S) /\ Len(r) = 2 /\ r[1] = x /\ r[2] = y
  OBVIOUS
<1> HIDE DEF s, t, r, S
<1>4. /\ s \o t \in Seq(S)
      /\ Len(s \o t) = Len(s) + Len(t)
      /\ \A i \in 1 .. Len(s) + Len(t) :
            (s \o t)[i] = IF i <= Len(s) THEN s[i] ELSE t[i - Len(s)]
  BY <1>1, <1>2, ConcatProperties
<1>5. Len(s \o t) = 2 /\ (s \o t)[1] = x /\ (s \o t)[2] = y
  BY <1>1, <1>2, <1>4
<1>6. \A i \in 1 .. Len(r) : (s \o t)[i] = r[i]
  BY <1>3, <1>5
<1>7. s \o t = r
  BY <1>3, <1>4, <1>5, <1>6, SeqEqual
<1> QED  BY <1>7 DEF s, t, r

\* A transaction built from UTXOs that fit a word pays the fees.
LEMMA TransactionPays ==
    ASSUME DustThreshold > 0, NEW utxos, Valued(utxos), ValueSum(utxos) < Word,
           NEW list \in SetToSeqs(utxos), NEW c \in Call, calls[c].amount \in 0 .. Word - 1
    PROVE  LET tx == Transaction(c, list)
           IN  /\ tx.id = c /\ Valued(tx.inputs)
               /\ \E a \in Nat : Pays(tx, a)
               /\ FeesOf(tx)
<1> DEFINE a == calls[c].amount
           tx == Transaction(c, list)
           rest == Remaining(list, a, Fees)
           v == ValueSum(tx.inputs)
<1>1. /\ tx.inputs = {list[i] : i \in Reached(list, a, Fees)} /\ tx.id = c
      /\ tx.outputs = <<[to |-> Destination, value |-> a]>>
                        \o IF rest >= DustThreshold
                           THEN <<[to |-> Source, value |-> rest]>> ELSE << >>
  BY DEF Transaction, Build
<1>2. a \in Nat /\ a < Word /\ Fees \in Nat /\ Word \in Nat \ {0} /\ DustThreshold \in Nat
  BY WalletAssumption, WordAssumption
<1> HIDE DEF tx, a
<1>3. tx.inputs \in SUBSET utxos /\ TotalSpent(list, a, Fees) = v
  BY <1>1, InputsAreSpent
<1>4. Valued(tx.inputs) /\ v <= ValueSum(utxos)
  BY <1>3, ValueSumParts
<1>5. v \in Nat /\ v < Word
  <2>1. v \in Nat /\ ValueSum(utxos) \in Nat
    BY <1>4, ValueSumFacts
  <2> HIDE DEF v
  <2> QED  BY <1>2, <1>4, <2>1
<1>6. rest = (v - a - Fees) % Word
  BY <1>3 DEF Remaining
<1> HIDE DEF rest
<1>7. InputValue(tx) = v
  BY DEF InputValue, ValueSum
<1> HIDE DEF v
<1>8. rest \in Nat
  <2> DEFINE w == v - a - Fees
  <2>1. w \in Int
    BY <1>2, <1>5
  <2> HIDE DEF w
  <2>2. w % Word \in Nat
    BY <1>2, <2>1
  <2> QED  BY <1>6, <2>2 DEF w
<1>9. v >= a + Fees => rest = v - a - Fees
  <2> SUFFICES ASSUME v >= a + Fees PROVE rest = v - a - Fees
    OBVIOUS
  <2> DEFINE w == v - a - Fees
  <2>1. w \in Nat /\ w < Word
    BY <1>2, <1>5
  <2> HIDE DEF w
  <2>2. w % Word = w
    BY <1>2, <2>1, SmallRest
  <2> QED  BY <1>6, <2>2 DEF w
<1>10. CASE rest >= DustThreshold
  <2>1. tx.outputs = <<[to |-> Destination, value |-> a], [to |-> Source, value |-> rest]>>
    <3> DEFINE x == [to |-> Destination, value |-> a]
               y == [to |-> Source, value |-> rest]
    <3>1. tx.outputs = <<x>> \o <<y>>
      BY <1>1, <1>10
    <3> HIDE DEF x, y
    <3>2. <<x>> \o <<y>> = <<x, y>>
      BY OneThenOther
    <3> QED  BY <3>1, <3>2 DEF x, y
  <2>2. Pays(tx, a)
    BY <1>8, <2>1 DEF Pays
  <2>3. OutputValue(tx) = a + rest /\ tx.outputs[1].value = a
    BY <1>2, <1>8, <2>1, <2>2, PaysFacts
  <2>4. v >= a + Fees => v - OutputValue(tx) - Fees \in 0 .. DustThreshold - 1
    BY <1>2, <1>5, <1>9, <2>3
  <2>5. FeesOf(tx)
    BY <1>7, <2>3, <2>4 DEF FeesOf
  <2> QED  BY <1>1, <1>2, <1>4, <2>2, <2>5 DEF tx
<1>11. CASE ~ (rest >= DustThreshold)
  <2>1. tx.outputs = <<[to |-> Destination, value |-> a]>>
    BY <1>1, <1>11
  <2>2. Pays(tx, a)
    BY <2>1 DEF Pays
  <2>3. OutputValue(tx) = a /\ tx.outputs[1].value = a
    BY <1>2, <2>1, <2>2, PaysFacts
  <2>4. v >= a + Fees => v - OutputValue(tx) - Fees \in 0 .. DustThreshold - 1
    BY <1>2, <1>5, <1>8, <1>9, <1>11, <2>3
  <2>5. FeesOf(tx)
    BY <1>7, <2>3, <2>4 DEF FeesOf
  <2> QED  BY <1>1, <1>2, <1>4, <2>2, <2>5 DEF tx
<1> QED  BY <1>10, <1>11

-----------------------------------------------------------------------------
(* The wallet's balance.                                                   *)

LEMMA ValueSumOne ==
    ASSUME NEW x, x.value \in Nat
    PROVE  Valued({x}) /\ ValueSum({x}) = x.value
<1>1. Valued({}) /\ ValueSum({}) = 0
  <2>1. Valued({})
    BY FS_EmptySet DEF Valued
  <2> QED  BY <2>1, ValueSumFacts
<1>2. Valued({} \cup {x}) /\ ValueSum({} \cup {x}) = x.value + 0
  BY <1>1, ValueSumAdd
<1>3. {} \cup {x} = {x} /\ x.value + 0 = x.value
  OBVIOUS
<1> QED  BY <1>2, <1>3

\* Outputs are taken away and others put in their place.
LEMMA ValueSumMoved ==
    ASSUME NEW A, Valued(A), NEW out \in SUBSET A, NEW new, Valued(new),
           NEW B \in SUBSET ((A \ out) \cup new)
    PROVE  Valued(B) /\ ValueSum(B) + ValueSum(out) <= ValueSum(A) + ValueSum(new)
<1> DEFINE K == A \ out
           M == K \cup new
           a == ValueSum(A)
           b == ValueSum(B)
           k == ValueSum(K)
           m == ValueSum(M)
           o == ValueSum(out)
           w == ValueSum(new)
<1>1. Valued(out) /\ Valued(K) /\ a = o + k
  BY ValueSumParts
<1>2. Valued(M) /\ m <= k + w
  <2> HIDE DEF K
  <2> QED  BY <1>1, ValueSumUnion
<1>3. Valued(B) /\ b <= m
  <2>1. B \in SUBSET M
    OBVIOUS
  <2> HIDE DEF M
  <2> QED  BY <1>2, <2>1, ValueSumParts
<1>4. a \in Nat /\ b \in Nat /\ k \in Nat /\ m \in Nat /\ o \in Nat /\ w \in Nat
  BY <1>1, <1>2, <1>3, ValueSumFacts
<1> HIDE DEF a, b, k, m, o, w
<1>5. b + o <= a + w
  BY <1>1, <1>2, <1>3, <1>4
<1> QED  BY <1>3, <1>5 DEF a, b, o, w

PaidIn(D) == {DepositUtxo(d) : d \in D}

\* All the deposits there are fit a word: there are fewer than 2^64 satoshis.
MoneyFits == IsFiniteSet(Deposit) /\ ValueSum(PaidIn(Deposit)) < Word

\* What the wallet has paid away with a transaction, fees included.
Given(tx) == [outpoint |-> tx, value |-> InputValue(tx) - ValueSum(Change(tx))]

TransactionOK(tx) == Valued(tx.inputs) /\ (\E a \in Nat : Pays(tx, a)) /\ FeesOf(tx)

CallOK(c, r) ==
    /\ r.amount \in 0 .. Word - 1
    /\ Valued(r.utxos) /\ ValueSum(r.utxos) < Word
    /\ \A tx \in r.tx : tx.id = c /\ TransactionOK(tx)

\* What the wallet has and what it has paid away is what was paid in at most.
Balanced ==
    /\ Valued(View)
    /\ ValueSum(View) + ValueSum({Given(tx) : tx \in confirmed}) <= ValueSum(PaidIn(deposited))

FeesInv ==
    /\ Marks
    /\ \A c \in Call : CallOK(c, calls[c])
    /\ sent \subseteq Issued
    /\ confirmed \subseteq sent /\ IsFiniteSet(confirmed)
    /\ \A tx \in confirmed : OutputValue(tx) <= InputValue(tx)
    /\ deposited \subseteq Deposit
    /\ Balanced

LEMMA DepositsValued ==
    ASSUME MoneyFits, NEW D \in SUBSET Deposit
    PROVE  Valued(PaidIn(D)) /\ ValueSum(PaidIn(D)) < Word /\ ValueSum(PaidIn(D)) \in Nat
<1> DEFINE A == PaidIn(Deposit)
           B == PaidIn(D)
<1>1. IsFiniteSet(A)
  <2> DEFINE f == [d \in Deposit |-> DepositUtxo(d)]
  <2>1. IsFiniteSet({f[d] : d \in Deposit})
    <3> HIDE DEF f
    <3> QED  BY ImageFinite DEF MoneyFits
  <2>2. {f[d] : d \in Deposit} = A
    BY DEF PaidIn
  <2> QED  BY <2>1, <2>2
<1>2. Valued(A)
  <2>1. ASSUME NEW u \in A PROVE u.value \in Nat
    <3>1. PICK d \in Deposit : u = DepositUtxo(d)
      BY DEF PaidIn
    <3>2. Value[d] \in Nat
      BY WalletAssumption, WordAssumption
    <3> QED  BY <3>1, <3>2 DEF DepositUtxo
  <2> QED  BY <1>1, <2>1 DEF Valued
<1>3. B \in SUBSET A /\ ValueSum(A) < Word
  BY DEF PaidIn, MoneyFits
<1> HIDE DEF A, B
<1>4. Valued(B) /\ ValueSum(B) <= ValueSum(A)
  BY <1>2, <1>3, ValueSumParts
<1>5. ValueSum(A) \in Nat /\ ValueSum(B) \in Nat /\ Word \in Nat
  BY <1>2, <1>4, ValueSumFacts, WordAssumption
<1> QED  BY <1>3, <1>4, <1>5 DEF B

\* What is paid away is never less than nothing.
LEMMA GivenFacts ==
    ASSUME NEW tx, TransactionOK(tx), OutputValue(tx) <= InputValue(tx)
    PROVE  /\ Given(tx).value \in Nat /\ Given(tx).outpoint = tx
           /\ Given(tx).value = InputValue(tx) - ValueSum(Change(tx))
           /\ InputValue(tx) = ValueSum(tx.inputs) /\ Valued(tx.inputs) /\ Valued(Change(tx))
           /\ ValueSum(Change(tx)) \in Nat /\ InputValue(tx) \in Nat
<1>1. Valued(Change(tx)) /\ ValueSum(Change(tx)) <= OutputValue(tx) /\ OutputValue(tx) \in Nat
  BY ChangeFacts DEF TransactionOK
<1>2. Valued(tx.inputs) /\ InputValue(tx) = ValueSum(tx.inputs)
  BY DEF TransactionOK, InputValue, ValueSum
<1>3. ValueSum(Change(tx)) \in Nat /\ InputValue(tx) \in Nat
  BY <1>1, <1>2, ValueSumFacts
<1>4. InputValue(tx) - ValueSum(Change(tx)) \in Nat
  BY <1>1, <1>3
<1> QED  BY <1>1, <1>2, <1>3, <1>4 DEF Given

LEMMA GivenValued ==
    ASSUME NEW T, IsFiniteSet(T), \A tx \in T : Given(tx).value \in Nat
    PROVE  Valued({Given(tx) : tx \in T}) /\ ValueSum({Given(tx) : tx \in T}) \in Nat
<1> DEFINE A == {Given(tx) : tx \in T}
           f == [tx \in T |-> Given(tx)]
<1>1. IsFiniteSet({f[tx] : tx \in T})
  <2> HIDE DEF f
  <2> QED  BY ImageFinite
<1>2. {f[tx] : tx \in T} = A
  OBVIOUS
<1>3. Valued(A)
  BY <1>1, <1>2 DEF Valued
<1> HIDE DEF A
<1>4. ValueSum(A) \in Nat
  BY <1>3, ValueSumFacts
<1> QED  BY <1>3, <1>4 DEF A

\* The transactions that were built are told apart by their calls.
LEMMA OneOfEach ==
    ASSUME FeesInv, NEW s \in Issued
    PROVE  /\ s.id \in Call /\ TransactionOK(s)
           /\ \A t \in Issued : t.id = s.id => t = s
<1>1. PICK c \in Call : s \in calls[c].tx
  BY DEF Issued
<1>2. s.id = c /\ TransactionOK(s)
  BY <1>1 DEF FeesInv, CallOK
<1>3. ASSUME NEW t \in Issued, t.id = s.id PROVE t = s
  <2>1. PICK d \in Call : t \in calls[d].tx
    BY DEF Issued
  <2>2. t.id = d
    BY <2>1 DEF FeesInv, CallOK
  <2> QED  BY <1>1, <1>2, <1>3, <2>1, <2>2 DEF FeesInv, Marks, OneTransaction
<1> QED  BY <1>1, <1>2, <1>3

\* What the Bitcoin canister tells the wallet to have fits a word.
LEMMA ViewFits ==
    ASSUME MoneyFits, FeesInv
    PROVE  Valued(View) /\ ValueSum(View) < Word /\ ValueSum(View) \in Nat
<1> DEFINE g == ValueSum({Given(tx) : tx \in confirmed})
           p == ValueSum(PaidIn(deposited))
           v == ValueSum(View)
<1>1. p \in Nat /\ p < Word
  BY DepositsValued DEF FeesInv
<1>2. g \in Nat
  <2>1. \A tx \in confirmed : Given(tx).value \in Nat
    <3> SUFFICES ASSUME NEW tx \in confirmed PROVE Given(tx).value \in Nat
      OBVIOUS
    <3>1. tx \in Issued /\ OutputValue(tx) <= InputValue(tx)
      BY DEF FeesInv
    <3>2. TransactionOK(tx)
      BY <3>1, OneOfEach
    <3> QED  BY <3>1, <3>2, GivenFacts
  <2> QED  BY <2>1, GivenValued DEF FeesInv
<1>3. Valued(View) /\ v + g <= p
  BY DEF FeesInv, Balanced
<1>4. v \in Nat
  BY <1>3, ValueSumFacts
<1> HIDE DEF g, p, v
<1>5. v < Word /\ v \in Nat
  BY <1>1, <1>2, <1>3, <1>4, WordAssumption
<1> QED  BY <1>3, <1>5 DEF v

-----------------------------------------------------------------------------
(* The balance after each step of the block chain.                         *)

LEMMA ConfirmedGiven ==
    ASSUME FeesInv
    PROVE  LET G == {Given(tx) : tx \in confirmed}
           IN  /\ Valued(G) /\ ValueSum(G) \in Nat
               /\ \A tx \in confirmed : Given(tx).value \in Nat /\ TransactionOK(tx)
<1>1. \A tx \in confirmed : Given(tx).value \in Nat /\ TransactionOK(tx)
  <2> SUFFICES ASSUME NEW tx \in confirmed
               PROVE  Given(tx).value \in Nat /\ TransactionOK(tx)
    OBVIOUS
  <2>1. tx \in Issued /\ OutputValue(tx) <= InputValue(tx)
    BY DEF FeesInv
  <2>2. TransactionOK(tx)
    BY <2>1, OneOfEach
  <2> QED  BY <2>1, <2>2, GivenFacts
<1>2. IsFiniteSet(confirmed)
  BY DEF FeesInv
<1> QED  BY <1>1, <1>2, GivenValued

LEMMA ReceiveBooks ==
    ASSUME MoneyFits, FeesInv, NEW d \in Deposit, Receive(d)
    PROVE  Balanced'
<1> DEFINE x == DepositUtxo(d)
           A == View
           P == PaidIn(deposited)
           G == {Given(tx) : tx \in confirmed}
           B == View'
           v == ValueSum(A)
           w == ValueSum(B)
           p == ValueSum(P)
           g == ValueSum(G)
           n == Value[d]
<1>1. d \notin deposited /\ deposited' = deposited \cup {d} /\ confirmed' = confirmed
  BY DEF Receive
<1>2. n \in Nat /\ x.value = n
  BY WalletAssumption, WordAssumption DEF DepositUtxo
<1>3. Valued(P) /\ p \in Nat
  BY DepositsValued DEF FeesInv
<1>4. x \notin P
  BY <1>1 DEF PaidIn, DepositUtxo
<1>5. PaidIn(deposited') = P \cup {x}
  BY <1>1 DEF PaidIn
<1>6. B \in SUBSET (A \cup {x})
  BY <1>1 DEF View, SpentBy
<1>7. Valued(A) /\ v + g <= p
  BY DEF FeesInv, Balanced
<1>8. g \in Nat
  BY ConfirmedGiven
<1> HIDE DEF x, A, P, B
<1>9. Valued({x}) /\ ValueSum({x}) = n
  BY <1>2, ValueSumOne
<1>10. Valued(A \cup {x}) /\ ValueSum(A \cup {x}) <= v + n
  <2> DEFINE S == {x}
  <2>1. Valued(S) /\ ValueSum(S) = n
    BY <1>9
  <2> HIDE DEF S
  <2>2. Valued(A \cup S) /\ ValueSum(A \cup S) <= v + ValueSum(S)
    BY <1>7, <2>1, ValueSumUnion
  <2> QED  BY <2>1, <2>2 DEF S
<1>11. Valued(B) /\ w <= ValueSum(A \cup {x})
  BY <1>6, <1>10, ValueSumParts
<1>12. ValueSum(P \cup {x}) = n + p
  BY <1>2, <1>3, <1>4, ValueSumAdd
<1>13. v \in Nat /\ w \in Nat /\ ValueSum(A \cup {x}) \in Nat
  BY <1>7, <1>10, <1>11, ValueSumFacts
<1> HIDE DEF v, w, p, g, n
<1>14. w + g <= n + p
  BY <1>2, <1>3, <1>7, <1>8, <1>10, <1>11, <1>13
<1>15. w + g <= ValueSum(PaidIn(deposited'))
  BY <1>5, <1>12, <1>14
<1>16. {Given(tx) : tx \in confirmed'} = G
  BY <1>1
<1> HIDE DEF G
<1> QED  BY <1>11, <1>15, <1>16 DEF Balanced, B, w, g

LEMMA ConfirmBooks ==
    ASSUME MoneyFits, FeesInv, NEW tx \in sent, Confirm(tx)
    PROVE  Balanced'
<1> DEFINE x == Given(tx)
           A == View
           I == tx.inputs
           C == Change(tx)
           P == PaidIn(deposited)
           G == {Given(t) : t \in confirmed}
           B == View'
           v == ValueSum(A)
           w == ValueSum(B)
           i == ValueSum(I)
           c == ValueSum(C)
           p == ValueSum(P)
           g == ValueSum(G)
<1>1. /\ tx \notin confirmed /\ I \in SUBSET A /\ OutputValue(tx) <= InputValue(tx)
      /\ confirmed' = confirmed \cup {tx} /\ deposited' = deposited
  BY DEF Confirm
<1>2. TransactionOK(tx)
  <2>1. tx \in Issued
    BY DEF FeesInv
  <2> QED  BY <2>1, OneOfEach
<1>3. /\ x.value \in Nat /\ x.value = InputValue(tx) - c /\ InputValue(tx) = i
      /\ Valued(I) /\ Valued(C) /\ c \in Nat /\ InputValue(tx) \in Nat
  BY <1>1, <1>2, GivenFacts
<1>4. x \notin G
  <2>1. x.outpoint = tx /\ \A t \in confirmed : Given(t).outpoint = t
    BY DEF Given
  <2> HIDE DEF x
  <2> QED  BY <1>1, <2>1
<1>5. {Given(t) : t \in confirmed'} = G \cup {x}
  BY <1>1
<1>6. PaidIn(deposited') = P
  BY <1>1 DEF PaidIn
<1>7. B \in SUBSET ((A \ I) \cup C)
  BY <1>1 DEF View, SpentBy
<1>8. Valued(A) /\ v + g <= p /\ p \in Nat
  BY DepositsValued DEF FeesInv, Balanced
<1>9. Valued(G) /\ g \in Nat
  BY ConfirmedGiven
<1> HIDE DEF x, A, P, B, I, C, G
<1>10. Valued(B) /\ w + i <= v + c
  BY <1>1, <1>3, <1>7, <1>8, ValueSumMoved
<1>11. ValueSum(G \cup {x}) = x.value + g
  BY <1>3, <1>4, <1>9, ValueSumAdd
<1>12. v \in Nat /\ w \in Nat /\ i \in Nat
  BY <1>3, <1>8, <1>10, ValueSumFacts
<1> HIDE DEF v, w, i, c, g
<1>13. x.value = i - c
  BY <1>3
<1>14. w + (x.value + g) <= v + g
  BY <1>3, <1>9, <1>10, <1>12, <1>13
<1>15. w + (x.value + g) <= p
  BY <1>3, <1>8, <1>9, <1>12, <1>14
<1>16. w + ValueSum(G \cup {x}) <= p
  BY <1>11, <1>15
<1> QED  BY <1>5, <1>6, <1>10, <1>16 DEF Balanced, B, w, P

LEMMA ReorganiseBooks ==
    ASSUME MoneyFits, FeesInv, NEW tx \in sent, Reorganise(tx)
    PROVE  Balanced'
<1> DEFINE x == Given(tx)
           A == View
           I == tx.inputs
           C == Change(tx)
           P == PaidIn(deposited)
           G == {Given(t) : t \in confirmed}
           H == {Given(t) : t \in confirmed'}
           B == View'
           v == ValueSum(A)
           w == ValueSum(B)
           i == ValueSum(I)
           c == ValueSum(C)
           p == ValueSum(P)
           g == ValueSum(G)
           h == ValueSum(H)
<1>1. /\ tx \in confirmed /\ C \cap SpentBy(confirmed) = {}
      /\ confirmed' = confirmed \ {tx} /\ deposited' = deposited
  BY DEF Reorganise
<1>2. TransactionOK(tx) /\ tx \in Issued /\ OutputValue(tx) <= InputValue(tx)
  <2>1. tx \in Issued /\ OutputValue(tx) <= InputValue(tx)
    BY <1>1 DEF FeesInv
  <2> QED  BY <2>1, OneOfEach
<1>3. /\ x.value \in Nat /\ x.value = InputValue(tx) - c /\ InputValue(tx) = i
      /\ Valued(I) /\ Valued(C) /\ c \in Nat /\ InputValue(tx) \in Nat
  BY <1>2, GivenFacts
<1>4. x \in G /\ H = G \ {x}
  <2>1. \A t \in confirmed : Given(t) = x => t = tx
    BY DEF Given
  <2>2. x \in G
    BY <1>1
  <2> HIDE DEF x
  <2> QED  BY <1>1, <2>1, <2>2 DEF x
<1>5. PaidIn(deposited') = P
  BY <1>1 DEF PaidIn
<1>6. C \in SUBSET A
  BY <1>1 DEF View
<1>7. B \in SUBSET ((A \ C) \cup I)
  <2> SUFFICES ASSUME NEW u \in B, u \notin I PROVE u \in A /\ u \notin C
    OBVIOUS
  <2>1. u \notin SpentBy(confirmed)
    BY <1>1 DEF View, SpentBy
  <2>2. CASE \E d \in deposited : u = DepositUtxo(d)
    <3>1. PICK d \in deposited : u = DepositUtxo(d)
      BY <2>2
    <3>2. u \in A
      BY <2>1, <3>1 DEF View
    <3>3. u.outpoint.txid \in Deposit
      BY <3>1 DEF DepositUtxo, FeesInv
    <3>4. tx.id \in Call
      BY <1>2, OneOfEach
    <3>5. \A y \in C : y.outpoint.txid = tx.id
      BY <1>2, ChangeFacts DEF TransactionOK
    <3> QED  BY <3>2, <3>3, <3>4, <3>5, WalletAssumption
  <2>3. CASE \E t \in confirmed \ {tx} : u \in Change(t)
    <3>1. PICK t \in confirmed \ {tx} : u \in Change(t)
      BY <2>3
    <3>2. u \in A
      BY <2>1, <3>1 DEF View
    <3>3. t \in Issued /\ TransactionOK(t)
      BY <3>1, ConfirmedGiven DEF FeesInv
    <3>4. t.id # tx.id
      BY <1>2, <3>1, <3>3, OneOfEach
    <3>5. \A y \in C : y.outpoint.txid = tx.id
      BY <1>2, ChangeFacts DEF TransactionOK
    <3>6. \A y \in Change(t) : y.outpoint.txid = t.id
      BY <3>3, ChangeFacts DEF TransactionOK
    <3> QED  BY <3>1, <3>2, <3>4, <3>5, <3>6
  <2> QED  BY <1>1, <2>2, <2>3 DEF View
<1>8. Valued(A) /\ v + g <= p /\ p \in Nat
  BY DepositsValued DEF FeesInv, Balanced
<1>9. Valued(G) /\ g \in Nat
  BY ConfirmedGiven
<1> HIDE DEF x, A, P, B, I, C, G, H
<1>10. Valued(B) /\ w + c <= v + i
  BY <1>3, <1>6, <1>7, <1>8, ValueSumMoved
<1>11. g = x.value + h
  BY <1>4, <1>9, ValueSumFacts
<1>12. v \in Nat /\ w \in Nat /\ i \in Nat
  BY <1>3, <1>8, <1>10, ValueSumFacts
<1>13. h \in Nat
  <2>1. H \in SUBSET G
    BY <1>4
  <2>2. Valued(H)
    BY <1>9, <2>1, ValueSumParts
  <2> QED  BY <2>2, ValueSumFacts
<1> HIDE DEF v, w, i, c, g, h
<1>14. x.value = i - c
  BY <1>3
<1>15. w + h <= v + g
  BY <1>3, <1>10, <1>11, <1>12, <1>13, <1>14
<1>16. w + h <= p
  BY <1>8, <1>9, <1>12, <1>13, <1>15
<1> QED  BY <1>5, <1>10, <1>16 DEF Balanced, B, w, P, h, H

-----------------------------------------------------------------------------
(* What the calls know and build.                                          *)

\* A step of the block chain leaves the calls alone.
LEMMA WorldFees ==
    ASSUME MoneyFits, FeesInv, World
    PROVE  FeesInv'
<1>1. Marks' /\ Issued' = Issued /\ calls' = calls
  BY WorldKeepsWallet, WorldMarks DEF FeesInv, wallet
<1>2. \A c \in Call : CallOK(c, calls'[c])
  BY <1>1 DEF FeesInv
<1>3. ASSUME NEW d \in Deposit, Receive(d)
      PROVE  FeesInv'
  <2>1. Balanced'
    BY <1>3, ReceiveBooks
  <2>2. sent' = sent /\ confirmed' = confirmed /\ deposited' \subseteq Deposit
    BY <1>3 DEF Receive, FeesInv
  <2> QED  BY <1>1, <1>2, <2>1, <2>2 DEF FeesInv
<1>4. ASSUME NEW tx \in sent, Confirm(tx)
      PROVE  FeesInv'
  <2>1. Balanced'
    BY <1>4, ConfirmBooks
  <2>2. /\ sent' = sent /\ deposited' = deposited /\ confirmed' = confirmed \cup {tx}
        /\ OutputValue(tx) <= InputValue(tx)
    BY <1>4 DEF Confirm
  <2>3. IsFiniteSet(confirmed')
    BY <2>2, FS_AddElement DEF FeesInv
  <2>4. \A t \in confirmed' : OutputValue(t) <= InputValue(t)
    BY <2>2 DEF FeesInv
  <2> QED  BY <1>1, <1>2, <2>1, <2>2, <2>3, <2>4 DEF FeesInv
<1>5. ASSUME NEW tx \in sent, Reorganise(tx)
      PROVE  FeesInv'
  <2>1. Balanced'
    BY <1>5, ReorganiseBooks
  <2>2. sent' = sent /\ deposited' = deposited /\ confirmed' = confirmed \ {tx}
    BY <1>5 DEF Reorganise
  <2>3. IsFiniteSet(confirmed')
    BY <2>2, FS_Subset DEF FeesInv
  <2>4. \A t \in confirmed' : OutputValue(t) <= InputValue(t)
    BY <2>2 DEF FeesInv
  <2> QED  BY <1>1, <1>2, <2>1, <2>2, <2>3, <2>4 DEF FeesInv
<1> QED  BY <1>3, <1>4, <1>5 DEF World

\* A step of a call leaves the block chain alone.
LEMMA CallFees ==
    ASSUME FeesInv, NEW c \in Call, Marks', CallOK(c, calls'[c]),
           \A d \in Call \ {c} : calls'[d] = calls[d],
           sent \subseteq sent', sent' \subseteq Issued',
           UNCHANGED <<deposited, confirmed>>
    PROVE  FeesInv'
<1>1. View' = View
  BY DEF View, SpentBy
<1>2. Balanced'
  <2>1. PaidIn(deposited') = PaidIn(deposited)
    BY DEF PaidIn
  <2>2. {Given(tx) : tx \in confirmed'} = {Given(tx) : tx \in confirmed}
    OBVIOUS
  <2>3. Balanced
    BY DEF FeesInv
  <2> QED  BY <1>1, <2>1, <2>2, <2>3 DEF Balanced
<1>3. \A d \in Call : CallOK(d, calls'[d])
  BY DEF FeesInv
<1> QED  BY <1>2, <1>3 DEF FeesInv

\* A call that only moves on.
LEMMA MoveOnFees ==
    ASSUME FeesInv, NEW c \in Call, NEW next, next \notin Building,
           calls' = [calls EXCEPT ![c].pc = next],
           UNCHANGED <<spent, deposited, confirmed>>,
           sent \subseteq sent', sent' \subseteq Issued
    PROVE  FeesInv'
<1>1. /\ Marks' /\ Issued' = Issued
      /\ \A d \in Call \ {c} : calls'[d] = calls[d]
  BY MoveOn DEF FeesInv
<1>2. /\ calls'[c].amount = calls[c].amount /\ calls'[c].utxos = calls[c].utxos
      /\ calls'[c].tx = calls[c].tx
  <2>1. calls[c] = [pc     |-> calls[c].pc, amount |-> calls[c].amount,
                    utxos  |-> calls[c].utxos, tx |-> calls[c].tx]
    BY DEF FeesInv, Marks, Shape
  <2>2. calls'[c] = [calls[c] EXCEPT !.pc = next]
    BY DEF FeesInv, Marks, Shape
  <2> QED  BY <2>1, <2>2
<1>3. CallOK(c, calls'[c])
  BY <1>2 DEF FeesInv, CallOK
<1> QED  BY <1>1, <1>3, CallFees

LEMMA AbandonFees ==
    ASSUME FeesInv, NEW c \in Call, Abandon(c)
    PROVE  FeesInv'
<1>1. /\ calls' = [calls EXCEPT ![c].pc = "done"]
      /\ UNCHANGED <<spent, deposited, confirmed>> /\ sent' = sent
  BY DEF Abandon, world
<1>2. "done" \notin Building /\ sent \subseteq sent' /\ sent' \subseteq Issued
  BY <1>1 DEF Building, FeesInv
<1> QED  BY <1>1, <1>2, MoveOnFees

LEMMA SendTransactionFees ==
    ASSUME FeesInv, NEW c \in Call, SendTransaction(c)
    PROVE  FeesInv'
<1>1. /\ calls' = [calls EXCEPT ![c].pc = "done"]
      /\ UNCHANGED <<spent, deposited, confirmed>> /\ sent' = sent \cup calls[c].tx
  BY DEF SendTransaction
<1>2. calls[c].tx \subseteq Issued
  BY DEF Issued
<1>3. "done" \notin Building /\ sent \subseteq sent' /\ sent' \subseteq Issued
  BY <1>1, <1>2 DEF Building, FeesInv
<1> QED  BY <1>1, <1>3, MoveOnFees

LEMMA BeginFees ==
    ASSUME FeesInv, NEW c \in Call, NEW amount \in Amount, Begin(c, amount)
    PROVE  FeesInv'
<1>1. /\ Marks' /\ Issued' = Issued
      /\ \A d \in Call \ {c} : calls'[d] = calls[d]
  BY BeginMarks DEF FeesInv
<1>2. /\ calls'[c].amount = amount /\ calls'[c].utxos = calls[c].utxos
      /\ calls'[c].tx = calls[c].tx
  <2>1. calls[c] = [pc     |-> calls[c].pc, amount |-> calls[c].amount,
                    utxos  |-> calls[c].utxos, tx |-> calls[c].tx]
    BY DEF FeesInv, Marks, Shape
  <2>2. calls' = [calls EXCEPT ![c] = [calls[c] EXCEPT !.pc = "get_utxos", !.amount = amount]]
    BY DEF Begin
  <2>3. calls'[c] = [calls[c] EXCEPT !.pc = "get_utxos", !.amount = amount]
    BY <2>2 DEF FeesInv, Marks, Shape
  <2> QED  BY <2>1, <2>3
<1>3. amount \in 0 .. Word - 1
  BY WalletAssumption
<1>4. CallOK(c, calls'[c])
  BY <1>2, <1>3 DEF FeesInv, CallOK
<1>5. UNCHANGED <<deposited, confirmed>> /\ sent' = sent
  BY DEF Begin, world
<1>6. sent \subseteq sent' /\ sent' \subseteq Issued'
  BY <1>1, <1>5 DEF FeesInv
<1> QED  BY <1>1, <1>4, <1>5, <1>6, CallFees

\* A call takes UTXOs that fit a word.
LEMMA TakeUtxosFees ==
    ASSUME FeesInv, NEW c \in Call, calls[c].pc \in Building, NEW next, NEW utxos,
           Valued(utxos), ValueSum(utxos) < Word,
           calls' = [calls EXCEPT ![c].pc = next, ![c].utxos = utxos],
           UNCHANGED <<spent, world>>
    PROVE  FeesInv'
<1>1. /\ Marks' /\ Issued' = Issued /\ calls'[c].utxos = utxos
      /\ \A d \in Call \ {c} : calls'[d] = calls[d]
  BY TakeUtxosMarks DEF FeesInv
<1>2. calls'[c].amount = calls[c].amount /\ calls'[c].tx = calls[c].tx
  <2>1. calls[c] = [pc     |-> calls[c].pc, amount |-> calls[c].amount,
                    utxos  |-> calls[c].utxos, tx |-> calls[c].tx]
    BY DEF FeesInv, Marks, Shape
  <2>2. calls' = [calls EXCEPT ![c] = [calls[c] EXCEPT !.pc = next, !.utxos = utxos]]
    OBVIOUS
  <2>3. calls'[c] = [calls[c] EXCEPT !.pc = next, !.utxos = utxos]
    BY <2>2 DEF FeesInv, Marks, Shape
  <2> QED  BY <2>1, <2>3
<1>3. CallOK(c, calls'[c])
  BY <1>1, <1>2 DEF FeesInv, CallOK
<1>4. UNCHANGED <<deposited, confirmed>> /\ sent' = sent
  BY DEF world
<1>5. sent \subseteq sent' /\ sent' \subseteq Issued'
  BY <1>1, <1>4 DEF FeesInv
<1> QED  BY <1>1, <1>3, <1>4, <1>5, CallFees

LEMMA GetUtxosFees ==
    ASSUME MoneyFits, FeesInv, NEW c \in Call, GetUtxos(c)
    PROVE  FeesInv'
<1> DEFINE utxos == View
<1>1. /\ calls[c].pc \in Building /\ UNCHANGED <<spent, world>>
      /\ calls' = [calls EXCEPT ![c].pc = "utxos", ![c].utxos = utxos]
  BY DEF GetUtxos, Building
<1>2. Valued(utxos) /\ ValueSum(utxos) < Word
  BY ViewFits
<1> HIDE DEF utxos
<1> QED  BY <1>1, <1>2, TakeUtxosFees

\* A transaction is built from some of the UTXOs a call holds, and outpoints
\* are marked so that the marks are exact.
LEMMA SpendFees ==
    ASSUME DustThreshold > 0, FeesInv, NEW c \in Call, calls[c].pc \in Building,
           NEW utxos \in SUBSET calls[c].utxos, NEW list \in SetToSeqs(utxos),
           NEW next, NEW marked, SpendMarking(c, list, next, marked), Marks'
    PROVE  FeesInv'
<1> DEFINE tx == Transaction(c, list)
<1>1. calls[c].amount \in 0 .. Word - 1 /\ Valued(calls[c].utxos)
      /\ ValueSum(calls[c].utxos) < Word
  BY DEF FeesInv, CallOK
<1>2. Valued(utxos) /\ ValueSum(utxos) < Word
  <2> DEFINE all == calls[c].utxos
  <2>1. Valued(all) /\ utxos \in SUBSET all /\ ValueSum(all) < Word
    BY <1>1
  <2> HIDE DEF all
  <2>2. Valued(utxos) /\ ValueSum(utxos) <= ValueSum(all)
    BY <2>1, ValueSumParts
  <2>3. ValueSum(utxos) \in Nat /\ ValueSum(all) \in Nat /\ Word \in Nat
    BY <2>1, <2>2, ValueSumFacts, WordAssumption
  <2> QED  BY <2>1, <2>2, <2>3
<1>3. tx.id = c /\ TransactionOK(tx)
  BY <1>1, <1>2, TransactionPays DEF TransactionOK
<1> HIDE DEF tx
<1>4. /\ calls' = [calls EXCEPT ![c] = [calls[c] EXCEPT !.pc = next, !.tx = {tx}]]
      /\ UNCHANGED <<deposited, confirmed>> /\ sent' = sent
  BY DEF SpendMarking, tx, world
<1>5. /\ calls'[c] = [calls[c] EXCEPT !.pc = next, !.tx = {tx}]
      /\ \A d \in Call \ {c} : calls'[d] = calls[d]
  BY <1>4 DEF FeesInv, Marks, Shape
<1>6. /\ calls'[c].amount = calls[c].amount /\ calls'[c].utxos = calls[c].utxos
      /\ calls'[c].tx = {tx}
  <2>1. calls[c] = [pc     |-> calls[c].pc, amount |-> calls[c].amount,
                    utxos  |-> calls[c].utxos, tx |-> calls[c].tx]
    BY DEF FeesInv, Marks, Shape
  <2> QED  BY <1>5, <2>1
<1>7. CallOK(c, calls'[c])
  BY <1>1, <1>3, <1>6 DEF CallOK
<1>8. sent \subseteq sent' /\ sent' \subseteq Issued'
  <2>1. calls[c].tx = {}
    BY DEF FeesInv, Marks, OneTransaction
  <2>2. Issued \subseteq Issued'
    BY <1>5, <2>1 DEF Issued
  <2> QED  BY <1>4, <2>2 DEF FeesInv
<1> QED  BY <1>4, <1>5, <1>7, <1>8, CallFees

LEMMA InitFees ==
    ASSUME MoneyFits, Init
    PROVE  FeesInv
<1>1. Marks
  BY InitMarks
<1>2. Valued({}) /\ ValueSum({}) = 0
  <2>1. Valued({})
    BY FS_EmptySet DEF Valued
  <2> QED  BY <2>1, ValueSumFacts
<1>3. \A c \in Call : CallOK(c, calls[c])
  <2> SUFFICES ASSUME NEW c \in Call PROVE CallOK(c, calls[c])
    OBVIOUS
  <2>1. calls[c].amount = 0 /\ calls[c].utxos = {} /\ calls[c].tx = {}
    BY DEF Init
  <2>2. 0 \in 0 .. Word - 1 /\ 0 < Word
    BY WordAssumption
  <2> QED  BY <1>2, <2>1, <2>2 DEF CallOK
<1>4. Balanced
  <2>1. View = {} /\ {Given(tx) : tx \in confirmed} = {} /\ PaidIn(deposited) = {}
    BY DEF Init, View, PaidIn
  <2> QED  BY <1>2, <2>1 DEF Balanced
<1> QED  BY <1>1, <1>3, <1>4, FS_EmptySet DEF Init, FeesInv, Issued

LEMMA InvFeesPaid == FeesInv => FeesPaid
<1> SUFFICES ASSUME FeesInv, NEW tx \in Issued PROVE FeesOf(tx)
  BY DEF FeesPaid, FeesOf
<1> QED  BY OneOfEach DEF TransactionOK

LEMMA UnchangedFees == FeesInv /\ UNCHANGED vars => FeesInv'
<1> SUFFICES ASSUME FeesInv, UNCHANGED vars PROVE FeesInv'
  OBVIOUS
<1>1. UNCHANGED wallet /\ UNCHANGED <<sent, deposited, confirmed>> /\ calls' = calls
  BY DEF vars, wallet, world
<1>2. Marks' /\ Issued' = Issued
  BY <1>1, WorldMarks DEF FeesInv
<1>3. View' = View
  BY <1>1 DEF View, SpentBy
<1>4. Balanced'
  <2>1. PaidIn(deposited') = PaidIn(deposited)
    BY <1>1 DEF PaidIn
  <2>2. {Given(tx) : tx \in confirmed'} = {Given(tx) : tx \in confirmed}
    BY <1>1
  <2> QED  BY <1>3, <2>1, <2>2 DEF Balanced, FeesInv
<1> QED  BY <1>1, <1>2, <1>4 DEF FeesInv

LEMMA RustNextFees ==
    ASSUME MoneyFits, DustThreshold > 0
    PROVE  FeesInv /\ [Next]_vars => FeesInv'
<1> SUFFICES ASSUME FeesInv, [Next]_vars
             PROVE  FeesInv'
  OBVIOUS
<1>1. CASE World
  BY <1>1, WorldFees
<1>2. ASSUME NEW c \in Call, NEW amount \in Amount, Send(c, amount)
      PROVE  FeesInv'
  BY <1>2, BeginFees DEF Send
<1>3. ASSUME NEW c \in Call, GetUtxos(c)
      PROVE  FeesInv'
  BY <1>3, GetUtxosFees
<1>4. ASSUME NEW c \in Call, GetUtxosRejected(c) \/ BuildError(c) \/ SendRejected(c)
      PROVE  FeesInv'
  BY <1>4, AbandonFees DEF GetUtxosRejected, BuildError, SendRejected
<1>5. ASSUME NEW c \in Call, BuildAndSend(c)
      PROVE  FeesInv'
  <2> DEFINE utxos == Unmarked(calls[c].utxos)
  <2>1. /\ calls[c].pc \in Building /\ "send" \notin Building
        /\ Spend(c, utxos, "send")
    BY <1>5 DEF BuildAndSend, Building
  <2>2. utxos \in SUBSET calls[c].utxos
    BY DEF Unmarked
  <2> HIDE DEF utxos
  <2>3. Marks'
    BY <2>1, SpendMarks DEF FeesInv
  <2>4. PICK list \in SetToSeqs(utxos) :
          SpendMarking(c, list, "send", Outpoints(Transaction(c, list)))
    BY <2>1 DEF Spend
  <2> QED  BY <2>1, <2>2, <2>3, <2>4, SpendFees
<1>6. ASSUME NEW c \in Call, SendTransaction(c)
      PROVE  FeesInv'
  BY <1>6, SendTransactionFees
<1>7. CASE UNCHANGED vars
  BY <1>7, UnchangedFees
<1> QED  BY <1>1, <1>2, <1>3, <1>4, <1>5, <1>6, <1>7 DEF Next

\* Whatever the deposits, the amounts and the order of the calls, a transaction
\* the Rust wallet builds pays the fees, and less than the dust threshold on
\* top of them, whenever its inputs cover the fees: the total of its inputs
\* does not wrap, because all that was ever paid in fits a word.
THEOREM RustFeesPaid ==
    ASSUME MoneyFits, DustThreshold > 0
    PROVE  Spec => []FeesPaid
<1>1. Init => FeesInv
  BY InitFees
<1>2. FeesInv /\ [Next]_vars => FeesInv'
  BY RustNextFees
<1>3. FeesInv => FeesPaid
  BY InvFeesPaid
<1> QED  BY <1>1, <1>2, <1>3, PTL DEF Spec

LEMMA AccountNextFees ==
    ASSUME MoneyFits, DustThreshold > 0
    PROVE  FeesInv /\ [AccountNext]_vars => FeesInv'
<1> SUFFICES ASSUME FeesInv, [AccountNext]_vars
             PROVE  FeesInv'
  OBVIOUS
<1>1. CASE World
  BY <1>1, WorldFees
<1>2. ASSUME NEW c \in Call, NEW amount \in Amount, AccountSend(c, amount)
      PROVE  FeesInv'
  BY <1>2, BeginFees DEF AccountSend
<1>3. ASSUME NEW c \in Call, GetUtxos(c)
      PROVE  FeesInv'
  BY <1>3, GetUtxosFees
<1>4. ASSUME NEW c \in Call, NothingLeft(c) \/ AccountBuildError(c) \/ Rejected(c)
      PROVE  FeesInv'
  BY <1>4, AbandonFees DEF NothingLeft, AccountBuildError, Rejected
<1>5. ASSUME NEW c \in Call, Filter(c)
      PROVE  FeesInv'
  <2> DEFINE all == calls[c].utxos
             utxos == Unmarked(all)
  <2>1. /\ calls[c].pc \in Building /\ UNCHANGED <<spent, world>>
        /\ calls' = [calls EXCEPT ![c].pc = "build", ![c].utxos = utxos]
    BY <1>5 DEF Filter, Building
  <2>2. utxos \in SUBSET all
    BY DEF Unmarked
  <2>3. Valued(all) /\ ValueSum(all) < Word
    BY DEF FeesInv, CallOK
  <2> HIDE DEF all, utxos
  <2>4. Valued(utxos) /\ ValueSum(utxos) <= ValueSum(all)
    BY <2>2, <2>3, ValueSumParts
  <2>5. ValueSum(utxos) \in Nat /\ ValueSum(all) \in Nat /\ Word \in Nat
    BY <2>3, <2>4, ValueSumFacts, WordAssumption
  <2>6. ValueSum(utxos) < Word
    BY <2>3, <2>4, <2>5
  <2> QED  BY <2>1, <2>4, <2>6, TakeUtxosFees
<1>6. ASSUME NEW c \in Call, Built(c)
      PROVE  FeesInv'
  <2> DEFINE utxos == calls[c].utxos
             marked(list) == {list[i].outpoint : i \in UsedIndices(list, Transaction(c, list).inputs)}
  <2>1. calls[c].pc \in Building
    BY <1>6 DEF Built, Building
  <2>2. Marks'
    BY <1>6, BuiltMarks DEF FeesInv
  <2>3. PICK list \in SetToSeqs(utxos) : SpendMarking(c, list, "sign", marked(list))
    BY <1>6 DEF Built
  <2> DEFINE m == marked(list)
  <2>4. SpendMarking(c, list, "sign", m)
    BY <2>3
  <2> HIDE DEF m
  <2> QED  BY <2>1, <2>2, <2>4, SpendFees
<1>7. ASSUME NEW c \in Call, Signed(c)
      PROVE  FeesInv'
  <2>1. /\ calls' = [calls EXCEPT ![c].pc = "send"]
        /\ UNCHANGED <<spent, deposited, confirmed>> /\ sent' = sent
    BY <1>7 DEF Signed, world
  <2>2. "send" \notin Building /\ sent \subseteq sent' /\ sent' \subseteq Issued
    BY <2>1 DEF Building, FeesInv
  <2> QED  BY <2>1, <2>2, MoveOnFees
<1>8. ASSUME NEW c \in Call, SendTransaction(c)
      PROVE  FeesInv'
  BY <1>8, SendTransactionFees
<1>9. CASE UNCHANGED vars
  BY <1>9, UnchangedFees
<1> QED  BY <1>1, <1>2, <1>3, <1>4, <1>5, <1>6, <1>7, <1>8, <1>9 DEF AccountNext

\* The same of the Motoko account, with any number of calls open at once: two
\* transactions that spend the same output still pay the fees each.
THEOREM AccountFeesPaid ==
    ASSUME MoneyFits, DustThreshold > 0
    PROVE  AccountSpec => []FeesPaid
<1>1. Init => FeesInv
  BY InitFees
<1>2. FeesInv /\ [AccountNext]_vars => FeesInv'
  BY AccountNextFees
<1>3. FeesInv => FeesPaid
  BY InvFeesPaid
<1> QED  BY <1>1, <1>2, <1>3, PTL DEF AccountSpec
=============================================================================
