-------------------------- MODULE StoreProperties --------------------------
(***************************************************************************)
(* What the store should guarantee, stated against the tree the headers of *)
(* the delivered blocks span and the ledger that replaying a chain from    *)
(* genesis gives.                                                          *)
(***************************************************************************)
EXTENDS Store, LedgerState

-----------------------------------------------------------------------------
(* The ledger of a chain of blocks.                                        *)

\* What the stable part of the state stands for.
StableLedger ==
    INSTANCE Ledger WITH chain <- stable,
                         unspent <- {<<u[1], u[2]>> : u \in IntoSet(state.utxos)}

OfAddress(outputs, a) == {u \in outputs : u[2].address = a}

\* The confirmations of the block that holds transaction t in the chain the
\* queries see.
ConfirmationsOf(t) ==
    LET chain == stable \o Chain(state)
    IN  Len(chain) - Min({i \in DOMAIN chain : t \in Range(TxData[chain[i]])}) + 1

\* No chain has a transaction twice, but for the two duplicates: what the UTXO
\* set relies on when it refuses an output it holds already (BIP 30).
ASSUME TxsOnceAssumption ==
    \A b \in Block : \A c \in Past[b], i \in DOMAIN TxData[b] : \A j \in DOMAIN TxData[c] :
        TxData[b][i] = TxData[c][j] /\ TxData[b][i] \notin DuplicateTxIds => b = c /\ i = j

-----------------------------------------------------------------------------
TypeOK ==
    /\ state.height \in Nat
    /\ state.latest_stable_block_hash \in Block
    /\ DOMAIN state.utxos.utxos \subseteq OutPoint
    /\ state.utxos.address_to_outpoints = IndexOf(state.utxos.utxos)
    /\ state.utxos.strict = TRUE
    /\ GetBlocks(state.unstable_blocks) \subseteq Block
    /\ trapped \in BOOLEAN
    /\ stable \in Seq(Block)
    /\ delivered \subseteq Block
    /\ repeated \in BOOLEAN

Anchor == state.latest_stable_block_hash
Trees == state.unstable_blocks

\* The state and what it has been through describe the same chain: the hash
\* is the last stable block, the height counts the stable blocks, and each
\* stable block is the successor of the one before, whatever blocks came, in
\* whatever order, and whatever insert_block did before it panicked.
FieldsAgree ==
    /\ Anchor = Last(stable)
    /\ state.height = Len(stable)
    /\ \A i \in 2 .. Len(stable) : Prev[stable[i]] = stable[i - 1]

\* No block of a valid chain makes insert_block panic, and no query does:
\* neither the assertion on the popped block nor the checks of the UTXO sets
\* ever fail.
NeverTraps ==
    /\ ~ trapped
    /\ \A a \in Address, m \in 0 .. MainChainHeight(state) + 1 : ~ QueryPanics(state, a, m)

\* insert_block panics only for a stable block that spends what the ledger of
\* the stable chain does not have: a block that comes early, twice or beside
\* the chain never does it, and no query panics either.
TrapsOnlyInvalid ==
    /\ \A b \in Block \ {Genesis} :
         InsertPanics(state, b) =>
           /\ Prev[Popped(state, b)] = Anchor
           /\ ~ L!Spendable({<<u[1], u[2]>> : u \in IntoSet(state.utxos)},
                            TxData[Popped(state, b)])
    /\ \A a \in Address, m \in 0 .. MainChainHeight(state) + 1 : ~ QueryPanics(state, a, m)

\* Each child in the forest is the successor of its parent.
ForestLinked ==
    \A i \in DOMAIN Trees :
        \A p \in DOMAIN Trees[i] \ {<< >>} : Prev[Trees[i][p]] = Trees[i][Front(p)]

\* As long as no block comes twice, no delivered block is lost: it is stable,
\* or it is kept, or it lost against a stable block at the same place of the
\* chain.  (A block that comes twice can end up in two trees, and what was put
\* on one of them goes when the other becomes stable.)
NothingLost ==
    ~ repeated =>
        \A b \in delivered :
            \/ b \in Range(stable)
            \/ b \in GetBlocks(Trees)
            \/ \E rival \in Past[b] \ Range(stable) : Prev[rival] \in Range(Front(stable))

\* The store implements the ledger: its stable chain only grows at its end,
\* and its UTXOs are exactly the unspent outputs of that chain.
ImplementsLedger == StableLedger!Spec

\* Each block of the trees is at one place only.
Once(trees) ==
    \A i, j \in DOMAIN trees : \A p \in DOMAIN trees[i], q \in DOMAIN trees[j] :
        trees[i][p] = trees[j][q] => i = j /\ p = q

\* When blocks arrive as successors of known blocks, the forest is the tree
\* their headers span on the last stable block: nothing beside it, no block
\* twice, and every delivered block on the anchor is there.
ForestComplete ==
    /\ \A i \in DOMAIN Trees : IsAttached(Trees[i], Anchor)
    /\ GetBlocks(Trees) = Above(Anchor, delivered) \ {Anchor}
    /\ Once(Trees)

\* The rule for stability: a block that becomes stable is Delta deep, and
\* Delta deeper than every other block on its parent.  Depth counts all the
\* blocks delivered, wherever the forest may have put them.
StableRule ==
    [][\A n \in DOMAIN stable' \ DOMAIN stable :
          LET b == stable'[n]
          IN  /\ DepthIn(b, delivered') >= Delta
              /\ \A rival \in delivered' \ {b} :
                   Prev[rival] = Prev[b] =>
                     DepthIn(b, delivered') - DepthIn(rival, delivered') >= Delta]_vars

\* A block becoming stable moves it from the unstable to the stable part of
\* the chain the queries see, and changes nothing else of that chain.
StabilisingKeepsChain ==
    [][stable' # stable =>
          \E b \in Block :
              stable \o CurrentChain(Pushed(state, b), Anchor) = stable' \o Chain(state')]_vars

\* get_utxos and get_balance return what replaying the chain from genesis
\* returns, for every address and for every prefix of the chain the
\* confirmations can ask for, although they only apply the unstable blocks to
\* the part of one address.  The confirmations get_utxos tells of an output
\* are never too few, and one too many at most.
QueriesMatchReplay ==
    \A a \in Address, m \in 0 .. Len(Chain(state)) + 1 :
        LET expected == OfAddress(Replay(stable \o Confirmed(state, m)), a)
            response == GetUtxosResponse(state, a, m)
        IN  /\ {<<r.outpoint, r.value>> : r \in response}
                  = {<<u[1], u[2].value>> : u \in expected}
            /\ \A r \in response :
                  r.confirmations - ConfirmationsOf(r.outpoint.txid) \in {0, 1}
            /\ Balance(state, a, m) = MapThenSumSet(LAMBDA u : u[2].value, expected)

\* Transactions with fewer confirmations than asked for are not considered.
MinConfirmations ==
    \A a \in Address, m \in 0 .. MainChainHeight(state) + 1 :
        \A u \in AddressUtxos(state, a, m) : ConfirmationsOf(u[1].txid) >= m
=============================================================================
