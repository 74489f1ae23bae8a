--------------------------- MODULE UtxoSetOpsProofs ---------------------------
(***************************************************************************)
(* Lemmas about the operators of UtxoSetOps, for any set they are applied  *)
(* to: what insert_tx does to the entries and to the index, and what a     *)
(* consistent index rules out.                                             *)
(***************************************************************************)
EXTENDS UtxoSetOps, TLAPS

-----------------------------------------------------------------------------
(* Bags that hold each of their elements once.                             *)

\* Taking a subset out of a set, as bags.
LEMMA BagOfDifference ==
    ASSUME NEW S, NEW T \in SUBSET S
    PROVE  SetToBag(S) (-) SetToBag(T) = SetToBag(S \ T)
<1> DEFINE B == [e \in S |-> IF e \in T THEN 0 ELSE 1]
<1>1. SetToBag(S) (-) SetToBag(T) = [e \in {d \in S : B[d] > 0} |-> B[e]]
  <2>1. [e \in DOMAIN SetToBag(S) |->
             IF e \in DOMAIN SetToBag(T) THEN SetToBag(S)[e] - SetToBag(T)[e]
                                         ELSE SetToBag(S)[e]] = B
    BY DEF SetToBag
  <2> QED  BY <2>1 DEF (-)
<1>2. {d \in S : B[d] > 0} = S \ T
  OBVIOUS
<1> QED  BY <1>1, <1>2 DEF SetToBag

\* Adding a disjoint set, as bags.
LEMMA BagOfUnion ==
    ASSUME NEW S, NEW T, S \cap T = {}
    PROVE  SetToBag(S) (+) SetToBag(T) = SetToBag(S \cup T)
BY DEF SetToBag, (+)

-----------------------------------------------------------------------------
(* The outputs of a transaction.                                            *)

\* A created outpoint is the transaction's, at the position of an output.
LEMMA CreatedFacts ==
    ASSUME NEW t \in TxId, NEW o \in Created(t)
    PROVE  /\ o \in OutPoint
           /\ o.txid = t
           /\ o.vout + 1 \in DOMAIN Tx[t].outputs
           /\ Tx[t].outputs[o.vout + 1] \in TxOut
<1>1. Tx[t].outputs \in Seq(TxOut)
  BY TxAssumption
<1>2. PICK i \in DOMAIN Tx[t].outputs : o = [txid |-> t, vout |-> i - 1]
  BY DEF Created
<1>3. i \in Nat \ {0} /\ DOMAIN Tx[t].outputs = 1 .. Len(Tx[t].outputs)
  BY <1>1, <1>2
<1>4. o.vout + 1 = i /\ o.vout \in Nat
  BY <1>2, <1>3
<1>5. Tx[t].outputs[i] \in TxOut
  BY <1>1, <1>2
<1> QED  BY <1>2, <1>3, <1>4, <1>5 DEF OutPoint

\* An output of a duplicated transaction is never indexed.
LEMMA DuplicateNotIndexed ==
    ASSUME NEW t \in DuplicateTxIds, NEW a \in Address
    PROVE  /\ CreatedOf(t, a) = {}
           /\ \A o \in Created(t) : Tx[t].outputs[o.vout + 1].address # a
<1>1. t \in TxId
  BY DuplicateAssumption
<1>2. ASSUME NEW o \in Created(t)
      PROVE  Tx[t].outputs[o.vout + 1].address = NoAddress
  BY <1>1, <1>2, CreatedFacts, DuplicateAssumption
<1> QED  BY <1>2, TxAssumption DEF CreatedOf

-----------------------------------------------------------------------------
(* A set whose parts agree.  That the index is consistent is not kept by    *)
(* insert_tx on its own: a duplicated transaction overwrites an entry, and  *)
(* only Authentic says that the entry it overwrites had no address either.  *)

IsSet(s) ==
    s = [utxos |-> s.utxos, address_to_outpoints |-> s.address_to_outpoints,
         strict |-> s.strict]

\* Every entry carries the output its transaction has at that position.
Authentic(utxos) ==
    \A o \in DOMAIN utxos :
        /\ o.vout + 1 \in DOMAIN Tx[o.txid].outputs
        /\ utxos[o].txout = Tx[o.txid].outputs[o.vout + 1]

Consistent(s) == s.address_to_outpoints = IndexOf(s.utxos)

SetOK(s) ==
    /\ IsSet(s)
    /\ DOMAIN s.utxos \subseteq OutPoint
    /\ Authentic(s.utxos)
    /\ Consistent(s)

LEMMA NewOK ==
    ASSUME NEW strict
    PROVE  /\ SetOK(New(strict))
           /\ New(strict).strict = strict
           /\ DOMAIN New(strict).utxos = {}
<1>1. DOMAIN New(strict).utxos = {} /\ New(strict).strict = strict
  BY DEF New
<1>2. IsSet(New(strict))
  BY DEF IsSet, New
<1>3. Consistent(New(strict))
  <2>1. \A a \in Address : OutpointsOf(New(strict).utxos, a) = {}
    BY <1>1 DEF OutpointsOf
  <2> QED  BY <2>1 DEF New, Consistent, IndexOf, EmptyBag
<1> QED  BY <1>1, <1>2, <1>3 DEF SetOK, Authentic

-----------------------------------------------------------------------------
(* One accepted transaction.                                                *)

\* The entries of s and of r, the set after transaction t was inserted.
EntriesAfter(s, t, height, r) ==
    /\ DOMAIN r.utxos = (DOMAIN s.utxos \ Spent(s, t)) \cup Created(t)
    /\ \A o \in Created(t) :
         /\ r.utxos[o] = [txout |-> Tx[t].outputs[o.vout + 1], height |-> height]
         /\ r.utxos[o].txout = Tx[t].outputs[o.vout + 1]
    /\ \A o \in DOMAIN s.utxos \ Spent(s, t) :
         o \notin Created(t) => r.utxos[o] = s.utxos[o]

LEMMA InsertEntries ==
    ASSUME NEW s, NEW t \in TxId, NEW height
    PROVE  EntriesAfter(s, t, height, InsertTx(s, t, height))
<1> DEFINE r == InsertTx(s, t, height)
           D == (DOMAIN s.utxos \ Spent(s, t)) \cup Created(t)
           R(o) == [txout |-> Tx[t].outputs[o.vout + 1], height |-> height]
<1>1. r.utxos = [o \in D |-> IF o \in Created(t) THEN R(o) ELSE s.utxos[o]]
  BY DEF InsertTx
<1>2. \A o : R(o).txout = Tx[t].outputs[o.vout + 1]
  OBVIOUS
<1> HIDE DEF r, R
<1>3. \A o \in Created(t) : r.utxos[o] = R(o)
  BY <1>1
<1>4. \A o \in D \ Created(t) : r.utxos[o] = s.utxos[o]
  BY <1>1
<1>5. \A o \in Created(t) : R(o) = [txout |-> Tx[t].outputs[o.vout + 1], height |-> height]
  BY DEF R
<1>6. EntriesAfter(s, t, height, r)
  BY <1>1, <1>2, <1>3, <1>4, <1>5 DEF EntriesAfter
<1> QED  BY <1>6 DEF r

LEMMA InsertIsSet ==
    ASSUME NEW s, NEW t, NEW height
    PROVE  /\ IsSet(InsertTx(s, t, height))
           /\ InsertTx(s, t, height).strict = s.strict
<1> DEFINE u == [o \in (DOMAIN s.utxos \ Spent(s, t)) \cup Created(t) |->
                   IF o \in Created(t)
                   THEN [txout |-> Tx[t].outputs[o.vout + 1], height |-> height]
                   ELSE s.utxos[o]]
           x == [a \in Address |->
                   (s.address_to_outpoints[a] (-) SetToBag(SpentOf(s, t, a)))
                     (+) SetToBag(CreatedOf(t, a))]
<1>1. InsertTx(s, t, height) = [utxos |-> u, address_to_outpoints |-> x, strict |-> s.strict]
  BY DEF InsertTx
<1> HIDE DEF u, x
<1> QED  BY <1>1 DEF IsSet

LEMMA InsertAuthentic ==
    ASSUME NEW s, Authentic(s.utxos), NEW t \in TxId, NEW height
    PROVE  Authentic(InsertTx(s, t, height).utxos)
<1> DEFINE r == InsertTx(s, t, height)
<1>0. EntriesAfter(s, t, height, r)
  BY InsertEntries
<1> HIDE DEF r
<1>1. ASSUME NEW o \in DOMAIN r.utxos
      PROVE  /\ o.vout + 1 \in DOMAIN Tx[o.txid].outputs
             /\ r.utxos[o].txout = Tx[o.txid].outputs[o.vout + 1]
  <2>1. CASE o \in Created(t)
    BY <2>1, <1>0, CreatedFacts DEF EntriesAfter
  <2>2. CASE o \notin Created(t)
    BY <2>2, <1>0, <1>1 DEF Authentic, EntriesAfter
  <2> QED  BY <2>1, <2>2
<1>2. Authentic(r.utxos)
  BY <1>1 DEF Authentic
<1> QED  BY <1>2 DEF r

\* The heart of the proof: an accepted transaction changes the index of each
\* address exactly as it changes the entries that pay to it.
LEMMA InsertConsistent ==
    ASSUME NEW s, Authentic(s.utxos), Consistent(s),
           NEW t \in TxId, ~ AlreadyInserted(s, t), NEW height
    PROVE  Consistent(InsertTx(s, t, height))
<1> DEFINE r == InsertTx(s, t, height)
           Old(a) == OutpointsOf(s.utxos, a)
<1>0. EntriesAfter(s, t, height, r)
  BY InsertEntries
<1>1. r.address_to_outpoints
        = [a \in Address |-> (s.address_to_outpoints[a] (-) SetToBag(SpentOf(s, t, a)))
                               (+) SetToBag(CreatedOf(t, a))]
  BY DEF InsertTx
<1> HIDE DEF r
<1>2. ASSUME NEW a \in Address
      PROVE  r.address_to_outpoints[a] = SetToBag(OutpointsOf(r.utxos, a))
  <2>1. s.address_to_outpoints[a] = SetToBag(Old(a))
    BY DEF Consistent, IndexOf
  <2>2. SpentOf(s, t, a) \subseteq Old(a)
    BY DEF SpentOf, Spent, OutpointsOf
  <2>3. s.address_to_outpoints[a] (-) SetToBag(SpentOf(s, t, a))
          = SetToBag(Old(a) \ SpentOf(s, t, a))
    BY <2>1, <2>2, BagOfDifference
  <2>4. (Old(a) \ SpentOf(s, t, a)) \cap CreatedOf(t, a) = {}
    <3>1. CASE t \in DuplicateTxIds
      BY <3>1, DuplicateNotIndexed
    <3>2. CASE t \notin DuplicateTxIds
      <4>1. Created(t) \cap (DOMAIN s.utxos \ Spent(s, t)) = {}
        BY <3>2 DEF AlreadyInserted
      <4> QED  BY <4>1 DEF OutpointsOf, SpentOf, CreatedOf
    <3> QED  BY <3>1, <3>2
  <2>5. (Old(a) \ SpentOf(s, t, a)) \cup CreatedOf(t, a) = OutpointsOf(r.utxos, a)
    <3>1. ASSUME NEW o \in OutpointsOf(r.utxos, a)
          PROVE  o \in (Old(a) \ SpentOf(s, t, a)) \cup CreatedOf(t, a)
      BY <3>1, <1>0 DEF OutpointsOf, SpentOf, CreatedOf, EntriesAfter
    <3>2. ASSUME NEW o \in CreatedOf(t, a)
          PROVE  o \in OutpointsOf(r.utxos, a)
      BY <3>2, <1>0 DEF OutpointsOf, CreatedOf, EntriesAfter
    <3>3. ASSUME NEW o \in Old(a) \ SpentOf(s, t, a)
          PROVE  o \in OutpointsOf(r.utxos, a)
      <4>1. o \in DOMAIN s.utxos \ Spent(s, t) /\ s.utxos[o].txout.address = a
        BY <3>3 DEF OutpointsOf, SpentOf
      <4>2. o \notin Created(t)
        <5>1. ASSUME o \in Created(t) PROVE FALSE
          <6>1. t \in DuplicateTxIds
            BY <4>1, <5>1 DEF AlreadyInserted
          <6>2. o.txid = t /\ s.utxos[o].txout = Tx[t].outputs[o.vout + 1]
            BY <4>1, <5>1, CreatedFacts DEF Authentic
          <6> QED  BY <4>1, <5>1, <6>1, <6>2, DuplicateNotIndexed
        <5> QED  BY <5>1
      <4> QED  BY <4>1, <4>2, <1>0 DEF OutpointsOf, EntriesAfter
    <3> QED  BY <3>1, <3>2, <3>3
  <2> QED  BY <1>1, <2>3, <2>4, <2>5, BagOfUnion
<1>3. Consistent(r)
  BY <1>1, <1>2 DEF Consistent, IndexOf
<1> QED  BY <1>3 DEF r

LEMMA InsertOK ==
    ASSUME NEW s, SetOK(s), NEW t \in TxId, ~ AlreadyInserted(s, t), NEW height
    PROVE  SetOK(InsertTx(s, t, height))
<1> DEFINE r == InsertTx(s, t, height)
<1>1. IsSet(r) /\ Authentic(r.utxos) /\ Consistent(r)
  BY InsertIsSet, InsertAuthentic, InsertConsistent DEF SetOK
<1>2. DOMAIN r.utxos \subseteq OutPoint
  BY InsertEntries, CreatedFacts DEF SetOK, EntriesAfter
<1> QED  BY <1>1, <1>2 DEF SetOK

-----------------------------------------------------------------------------
(* What a consistent index rules out.                                       *)

\* With a consistent index, an outpoint about to be removed is in its list.
LEMMA ConsistentNotBroken ==
    ASSUME NEW s, Consistent(s), NEW t \in TxId
    PROVE  ~ IndexBroken(s, t)
<1> SUFFICES ASSUME NEW a \in Address, NEW o \in SpentOf(s, t, a)
             PROVE  BagIn(o, s.address_to_outpoints[a])
  BY DEF IndexBroken
<1>1. o \in OutpointsOf(s.utxos, a)
  BY DEF SpentOf, Spent, OutpointsOf
<1>2. s.address_to_outpoints[a] = SetToBag(OutpointsOf(s.utxos, a))
  BY DEF Consistent, IndexOf
<1> QED  BY <1>1, <1>2 DEF BagIn, BagToSet, SetToBag

\* With a consistent index, saving and loading changes nothing.
LEMMA ConsistentReload ==
    ASSUME NEW s, IsSet(s), Consistent(s)
    PROVE  FromProto(ToProto(s)) = s
BY DEF FromProto, ToProto, SetOf, Consistent, IsSet

\* With a consistent index, get_utxos finds every outpoint it looks up.
LEMMA ConsistentAnswers ==
    ASSUME NEW s, Consistent(s), NEW a \in Address
    PROVE  ~ GetUtxosFails(s, a)
<1> SUFFICES ASSUME NEW o \in BagToSet(s.address_to_outpoints[a])
             PROVE  /\ o \in DOMAIN s.utxos
                    /\ ~ (s.address_to_outpoints[a][o] > 1)
  BY DEF GetUtxosFails
<1>1. s.address_to_outpoints[a] = SetToBag(OutpointsOf(s.utxos, a))
  BY DEF Consistent, IndexOf
<1>2. o \in OutpointsOf(s.utxos, a) /\ s.address_to_outpoints[a][o] = 1
  BY <1>1 DEF BagToSet, SetToBag
<1> QED  BY <1>2 DEF OutpointsOf

\* With a consistent index, get_utxos returns the entries of its address.
LEMMA AnswerIsOfAddress ==
    ASSUME NEW s, Consistent(s), NEW a \in Address
    PROVE  /\ DOMAIN GetUtxos(s, a).utxos = OutpointsOf(s.utxos, a)
           /\ \A o \in OutpointsOf(s.utxos, a) : GetUtxos(s, a).utxos[o] = s.utxos[o]
<1>1. BagToSet(s.address_to_outpoints[a]) = OutpointsOf(s.utxos, a)
  BY DEF Consistent, IndexOf, BagToSet, SetToBag
<1>2. GetUtxos(s, a).utxos = [o \in OutpointsOf(s.utxos, a) |-> s.utxos[o]]
  BY <1>1 DEF GetUtxos, SetOf
<1> QED  BY <1>2
=============================================================================
