---------------------------- MODULE UtxoSetProofs ----------------------------
(***************************************************************************)
(* Proofs about UtxoSet, for every value of its constants.                 *)
(***************************************************************************)
EXTENDS UtxoSet, UtxoSetOpsProofs

\* The inductive invariant: the parts of the set agree, and it has its type.
IInv ==
    /\ TypeOK
    /\ SetOK(utxo_set)
    /\ NoIndexFailure

LEMMA InsertType ==
    ASSUME TypeOK, NEW t \in TxId, NEW height \in Height, Insert(t, height),
           SetOK(utxo_set')
    PROVE  TypeOK'
<1>0. /\ EntriesAfter(utxo_set, t, height, utxo_set')
      /\ utxo_set'.strict = TRUE
  BY InsertEntries, InsertIsSet DEF Insert, TypeOK
<1>1. ASSUME NEW o \in DOMAIN utxo_set'.utxos
      PROVE  utxo_set'.utxos[o] \in Entry
  <2>1. CASE o \in Created(t)
    <3>1. utxo_set'.utxos[o] = [txout |-> Tx[t].outputs[o.vout + 1], height |-> height]
      BY <2>1, <1>0 DEF EntriesAfter
    <3>2. Tx[t].outputs[o.vout + 1] \in TxOut /\ height \in Nat
      BY <2>1, CreatedFacts, HeightAssumption
    <3> QED  BY <3>1, <3>2 DEF Entry
  <2>2. CASE o \notin Created(t)
    BY <1>1, <2>2, <1>0 DEF TypeOK, EntriesAfter
  <2> QED  BY <2>1, <2>2
<1>2. DOMAIN utxo_set'.address_to_outpoints = Address
  BY DEF SetOK, Consistent, IndexOf
<1>3. failure' \in Failure
  BY DEF Insert, Failure
<1> QED  BY <1>0, <1>1, <1>2, <1>3 DEF TypeOK, SetOK, IsSet

LEMMA InsertPreserves ==
    ASSUME IInv, NEW t \in TxId, NEW height \in Height, Insert(t, height)
    PROVE  IInv'
<1>1. ~ AlreadyInserted(utxo_set, t)
  BY DEF Insert, InsertFailure
<1>2. SetOK(utxo_set')
  BY <1>1, InsertOK DEF Insert, IInv
<1>3. TypeOK'
  BY <1>2, InsertType DEF IInv
<1>4. NoIndexFailure'
  BY DEF Insert, NoIndexFailure
<1> QED  BY <1>2, <1>3, <1>4 DEF IInv

\* So the answers partition the entries that have an address.
LEMMA ConsistentPartition ==
    ASSUME TypeOK, Consistent(utxo_set)
    PROVE  AnswersPartition
<1> DEFINE Row(o) == <<o, utxo_set.utxos[o].txout, utxo_set.utxos[o].height>>
<1>1. ASSUME NEW a \in Address
      PROVE  IntoSet(GetUtxos(utxo_set, a)) = {Row(o) : o \in OutpointsOf(utxo_set.utxos, a)}
  BY AnswerIsOfAddress DEF IntoSet
<1>2. IntoSet(utxo_set) = {Row(o) : o \in DOMAIN utxo_set.utxos}
  BY DEF IntoSet
<1>3. \A o : Row(o)[2] = utxo_set.utxos[o].txout
  OBVIOUS
<1> HIDE DEF Row
<1>4. ASSUME NEW o \in DOMAIN utxo_set.utxos
      PROVE  utxo_set.utxos[o].txout.address \in Address \cup {NoAddress}
  BY DEF TypeOK, Entry, TxOut
<1>5. UNION {IntoSet(GetUtxos(utxo_set, a)) : a \in Address}
        = {Row(o) : o \in {d \in DOMAIN utxo_set.utxos :
                              utxo_set.utxos[d].txout.address \in Address}}
  BY <1>1 DEF OutpointsOf
<1>6. {e \in IntoSet(utxo_set) : e[2].address # NoAddress}
        = {Row(o) : o \in {d \in DOMAIN utxo_set.utxos :
                              utxo_set.utxos[d].txout.address # NoAddress}}
  BY <1>2, <1>3
<1>7. {d \in DOMAIN utxo_set.utxos : utxo_set.utxos[d].txout.address \in Address}
        = {d \in DOMAIN utxo_set.utxos : utxo_set.utxos[d].txout.address # NoAddress}
  BY <1>4, TxAssumption
<1>8. \A a, b \in Address : a # b =>
        DOMAIN GetUtxos(utxo_set, a).utxos \cap DOMAIN GetUtxos(utxo_set, b).utxos = {}
  BY AnswerIsOfAddress DEF OutpointsOf
<1> QED  BY <1>5, <1>6, <1>7, <1>8 DEF AnswersPartition

-----------------------------------------------------------------------------
(* The theorems.                                                            *)

LEMMA InitIInv == Init => IInv
<1> SUFFICES ASSUME Init PROVE IInv
  OBVIOUS
<1>1. utxo_set = New(TRUE) /\ DOMAIN utxo_set.utxos = {} /\ SetOK(utxo_set)
  BY NewOK DEF Init
<1>2. TypeOK
  BY <1>1 DEF Init, New, TypeOK, Failure
<1> QED  BY <1>1, <1>2 DEF Init, IInv, NoIndexFailure

LEMMA NextIInv == IInv /\ [Next]_vars => IInv'
<1> SUFFICES ASSUME IInv, [Next]_vars PROVE IInv'
  OBVIOUS
<1>0. ASSUME UNCHANGED utxo_set, failure' \in Failure \ {"index"}
      PROVE  IInv'
  BY <1>0 DEF IInv, TypeOK, SetOK, IsSet, Authentic, Consistent, NoIndexFailure
<1>1. CASE \E t \in TxId, height \in Height : Insert(t, height)
  BY <1>1, InsertPreserves
<1>2. ASSUME NEW t \in TxId, Trap(t)
      PROVE  IInv'
  <2>1. failure' \in Failure \ {"index"}
    BY <1>2, ConsistentNotBroken DEF IInv, SetOK, Trap, InsertFailure, Failure
  <2> QED  BY <1>0, <1>2, <2>1 DEF Trap
<1>3. CASE SaveAndLoad
  BY <1>0, <1>3, ConsistentReload DEF IInv, SetOK, SaveAndLoad, TypeOK, NoIndexFailure
<1>4. CASE UNCHANGED vars
  BY <1>0, <1>4 DEF vars, IInv, TypeOK, NoIndexFailure
<1> QED  BY <1>1, <1>2, <1>3, <1>4 DEF Next

LEMMA InductiveInvariant == Spec => []IInv
<1> QED  BY InitIInv, NextIInv, PTL DEF Spec

\* The state of the UTXO set keeps its type.
THEOREM TypeCorrect == Spec => []TypeOK
<1>1. IInv => TypeOK
  BY DEF IInv
<1> QED  BY <1>1, InductiveInvariant, PTL

\* Every entry is the output its transaction has there, duplicates that
\* overwrite each other included.
THEOREM EntriesAlwaysAuthentic == Spec => []EntriesAuthentic
<1>1. IInv => EntriesAuthentic
  BY DEF IInv, SetOK, Authentic, EntriesAuthentic
<1> QED  BY <1>1, InductiveInvariant, PTL

\* The address index lists exactly the outpoints of the map, whatever
\* transactions are offered and however often the state is reloaded.
THEOREM IndexAlwaysConsistent == Spec => []IndexConsistent
<1>1. IInv => IndexConsistent
  BY DEF IInv, SetOK, Consistent, IndexConsistent
<1> QED  BY <1>1, InductiveInvariant, PTL

\* insert_tx never panics on its own index.
THEOREM IndexNeverFails == Spec => []NoIndexFailure
<1>1. IInv => NoIndexFailure
  BY DEF IInv
<1> QED  BY <1>1, InductiveInvariant, PTL

\* get_utxos never panics.
THEOREM GetUtxosAlwaysAnswers == Spec => []GetUtxosAnswers
<1>1. IInv => GetUtxosAnswers
  BY ConsistentAnswers DEF IInv, SetOK, GetUtxosAnswers
<1> QED  BY <1>1, InductiveInvariant, PTL

\* A saved state loads as the state that was saved.
THEOREM ReloadIsIdentity == Spec => []RoundTrip
<1>1. IInv => RoundTrip
  BY ConsistentReload DEF IInv, SetOK, RoundTrip
<1> QED  BY <1>1, InductiveInvariant, PTL

\* The answers for the addresses are, taken together, the addressed part of
\* the set, and no two of them share an output.
THEOREM AnswersAlwaysPartition == Spec => []AnswersPartition
<1>1. IInv => AnswersPartition
  BY ConsistentPartition DEF IInv, SetOK
<1> QED  BY <1>1, InductiveInvariant, PTL
=============================================================================
