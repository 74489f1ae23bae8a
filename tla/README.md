# A formal model of the Bitcoin canister

The repository holds a Bitcoin canister for the Internet Computer (a canister
that is fed Bitcoin blocks and answers questions about UTXOs), the process that
feeds it, and example canisters that hold and wrap bitcoin. This directory is a
TLA+ development of it: modules translated from the source, TLC runs that check
them on small instances, and proofs that TLAPS checks for every instance.

## 1. The system

| part | source | state | operations |
|---|---|---|---|
| UTXO set | `canister/src/utxoset.rs` | a map from outpoints to outputs and heights; an index from addresses to outpoints; `strict` | `insert_tx`, `get_utxos`, `into_set`, `to_proto`, `from_proto` |
| Block forest | `canister/src/blockforest.rs` | a list of trees of unstable blocks; `delta` | `push`, `pop`, `get_current_chain`, `get_blocks` |
| State | `canister/src/store.rs` | height and hash of the last stable block, the UTXO set, the forest | `insert_block`, `get_utxos`, `get_balance`, `main_chain_height`, `to_proto`, `from_proto` |
| Bitcoin canister | `canister/src/main.rs` | the State; a queue of outgoing transactions | `send_transaction`, `get_successors_request`, `get_successors_response`, `has_outgoing_transaction`, `get_outgoing_transaction`, `get_utxos`, `get_balance` |
| Adapter shim | `canister/src/adapter-shim.rs` | where its loop is, and what it holds between two awaits | asks the canister what it has, the adapter what comes next, gives the answer to the canister, carries transactions back |
| Synchronisation demo | `canister/src/sync_demo.rs` | the State behind a read-write lock, state files | a task that fetches and inserts; a main loop that queries and saves |
| Transaction builder | `examples/common/src/` | none | `build_transaction`, `sign_transaction` |
| Rust wallet | `examples/rust/src/main.rs` | the set of spent outpoints | `send`, `balance`, `get_utxos` |
| Motoko account | `examples/motoko/src/Account.mo`, `Main.mo`, `Utils.mo` | the set of spent outpoints | the same, with calls to the builder canister |
| Wrapped bitcoin | `examples/motoko/src/BTConICP.mo` | balances, invoices, used accounts, total supply | `mint`, `send`, `create_or_view_current_deposit_invoice`, `close_invoice`, `unwrap_btc`, ... |

How they interact. The shim is a loop of awaits: it *queries* the canister for
the hashes it has, asks the adapter for their successors, sends the answer to
the canister as an *update call* and waits for it, queries whether there is a
transaction to send, takes it out with a second update call and hands it to the
adapter. The canister executes one message at a time; a panic in it is a trap,
which undoes the message. Inside a message `insert_block` pushes the block to
the forest, pops a stable block if there is one, moves the anchor to it and
applies its transactions to the UTXO set. A query applies the unstable blocks
of the current chain to the part of the UTXO set of one address. Wallets are
canisters that call the Bitcoin canister and await its answers, so calls of
several clients interleave at every await. The wrapped bitcoin canister holds an
account for each deposit; a client closes the invoice, gets tokens for what the
account holds, and the account later pays those who unwrap. The demo is a
process without a replica: a task and the main thread share a State, a panic
undoes nothing, and what survives the process is a file.

What is hard to get right and to test (PROJECT.json lists each hazard with its
line):

* two structures kept in step by hand: the map and the index of the UTXO set;
* the forest under blocks that come early, late, twice, or in competing chains;
* the arithmetic of depths, heights and confirmations at its boundaries;
* a query that works on a part of the UTXO set and must agree with the whole;
* data read in one await and used in a later one, by the shim and by wallets;
* a shim that ends while a call it submitted is still to be executed;
* an update that fails in its middle, with a trap to undo it or without one;
* messages of a canister to itself, and a trap between two awaits of a loop;
* a file that is emptied and then written.

What makes each part correct:

* UTXO set: the index lists exactly the entries of the map; it never panics
  because of its own state; reloading changes nothing.
* Forest and State: the stable chain only grows, its UTXOs are the unspent
  outputs of that chain (an abstract ledger), the stability rule holds, no block
  is lost, queries agree with replaying the chain from genesis.
* Canister and shim: blocks are delivered in an order the forest can use and
  not twice; transactions leave in the order they came, none twice; in the end
  the canister has every block and the queue is empty.
* Wallets: no output is spent by two transactions, in the Motoko account but for
  calls that overlap between filter and mark; what a transaction pays, its fee and
  its change add up to what it spends.
* Synchronisation demo: an answer is still good when it is inserted; nobody sees
  or saves a half-inserted block; the State catches up.
* Wrapped bitcoin: no account pays twice, and none is open for deposits while
  it pays unless a client puts it into the list; the supply is the sum of the balances and is backed by the used accounts,
  except after the things the properties name.

## 2. Modules

| module | models | extends / instantiates |
|---|---|---|
| `UtxoSetOps` | the UTXO set as a data type: `insert_tx` and its three panics, `get_utxos`, `into_set`, conversion | |
| `UtxoSet` | the strict UTXO set as a state machine | `UtxoSetOps` |
| `UtxoSetOpsProofs` | lemmas about the operators of `UtxoSetOps` | `UtxoSetOps` |
| `UtxoSetProofs` | theorems about `UtxoSet` | `UtxoSet`, `UtxoSetOpsProofs` |
| `BlockForest` | the forest as a data type: trees, `push`, `pop`, the current chain | |
| `StoreOps` | `State`: `insert_block`, the queries, saving and loading | `BlockForest`, `UtxoSetOps` |
| `Store` | `State` as a state machine, fed in any order or in the adapter's order | `StoreOps` |
| `Ledger` | the abstract specification: a chain that grows, and its unspent outputs | |
| `HeaderTree` | the tree the block headers span; used only to state properties | `StoreOps` |
| `LedgerState` | the outputs a chain leaves (`Replay`), and when a State is the ledger of a chain; used only to state properties | `HeaderTree`, `Ledger` |
| `StoreProperties` | what the store guarantees | `Store`, `LedgerState` |
| `StoreOpsProofs` | lemmas about trees, forest, `insert_block`, folds and replays; store, shim and demo share them | `LedgerState`, `UtxoSetOpsProofs` |
| `StoreProofs` | theorems about `Store` | `StoreProperties`, `StoreOpsProofs` |
| `Adapter` | what the adapter may answer, as shim and demo use it | `StoreOps` |
| `BitcoinSync` | canister, shim, and what the shim needs of network and replica | `Adapter` |
| `BitcoinSyncProperties`, `BitcoinSyncProofs` | what they achieve together; theorems about it | `BitcoinSync`, `LedgerState`, `StoreOpsProofs` |
| `SyncDemo` | the demo: task, main thread, lock, state files, restarts | `Adapter` |
| `SyncDemoProperties`, `SyncDemoProofs` | what they achieve together; theorems about it | `SyncDemo`, `LedgerState`, `StoreOpsProofs` |
| `BuildTransaction` | `build_transaction` of the examples, in u64, and the indices the builder canister adds | |
| `Wallet` | what both wallets share, and the Bitcoin canister as they see it | `BuildTransaction` |
| `RustWallet`, `MotokoAccount` | the two implementations of `send` | `Wallet` |
| `WalletProofs` | theorems about both wallets, from lemmas about the steps they share | `RustWallet`, `MotokoAccount` |
| `WrappedBitcoin` | the wrapped bitcoin canister | |
| `WrappedBitcoinProperties`, `WrappedBitcoinProofs` | what its books should guarantee; theorems about it | `WrappedBitcoin` |
| `MC*` | instances for TLC | the module they are named after |

Operators marked `Fault:` in the modules are what the definition after them
would be with a plausible bug. No specification uses them; each is there to
show that some property notices the bug (PROJECT.json, `mutants`).

### State and actions against the code

*UTXO set.* `utxos` is the map from outpoints to output and height.
`address_to_outpoints` maps an address to a **bag** of outpoints: in the code it
is a `Vec` that is pushed to and removed from by search, whose order nothing
looks at but which may list an outpoint twice. An address without entries has
the empty bag; the code has no list for it. `InsertFailure` names the panic
`insert_tx` ends with, in the order of the code: a list of the index that lacks
an outpoint to be removed, a missing input in a strict set, an outpoint that
exists already and is not one of the two historical duplicates. A script that is
no address is paid to `NoAddress`, which is not indexed. `ToProto` drops the
index and `FromProto` builds it again, as the conversion does.

*Block forest.* A tree is a function from **paths** to blocks: the root is at
the empty path and the children of the block at path `p` are at `p \o <<1>>`,
`p \o <<2>>`, ...  This keeps the order of children, which decides what `find_mut`
and `blockchains` come to first, and blocks that occur more than once, and it
turns the recursion of the code into quantification over paths. `Push` searches
the trees in order for the predecessor of the block and for the first tree that
waits for it; `PopTrees` takes the roots on the anchor, ranks them by depth, and
replaces the popped tree by its subtrees.

*State.* `insert_block` is one operator, `InsertBlock`, over the four fields;
`InsertPanics` says when it panics (the assertion on the popped block, or the
UTXO set). `Store` has one action for a block that makes none stable
(`KeepUnstable`), one for a block that does (`Stabilise`), one for a panic
(`Trap`, which leaves the state as it was, since a trap discards the message),
and `SaveAndLoad`. `stable`, `delivered` and `repeated` (a block
came twice) are history variables. The queries
`AddressUtxos`, `Balance` and `MainChainHeight` change nothing and are operators
that properties evaluate in every state.

*Canister and shim.* `pc` is the await at which the shim's loop is. A query and
its answer are one step. An update call is submitted in one step, and executed
in a later one, which also resumes the shim. What the shim keeps between awaits
(`request`, `call`, `raw_tx`) is in variables of their own. `Crash` kills it at
any await; the call it had submitted joins `orphans` and is executed at some
later time by `ExecuteOrphan`. When the response traps, the shim's `unwrap` ends
it (`ResponseTrapped`). `NewBlock` is the Bitcoin network, `SendTransaction` a
client. Errors of the adapter are `GetSuccessorsError` (the loop goes on) and
`SendError` (the transaction is dropped).

*Wallets.* `calls[c]` is the call `c` of `send`: the await it is at and its local
variables. Everything between two awaits is one step: in the Rust wallet
filtering, building, marking and signing are `BuildAndSend`; in the Motoko
account filtering is one (`Filter`), marking another (`Built`), and signing a
third (`Signed`), because building and signing are calls of another canister. The
await of its own `btc_address` reads nothing and is part of `Send`.
`GetUtxos` is the execution of the call in the Bitcoin canister, so the answer
is out of date when it is used. A Rust `trap` undoes only what was done since
the last await, and in every place where `send` traps that is nothing. The
Bitcoin canister hands out UTXOs in the order of a hash map: `Spend` and
`Insufficient` take any order.

*Synchronisation demo.* `fetch` is where the task is and `main` where the main
thread is; the two together are the lock, which the task holds for writing at
`"insert"` and the main thread for reading at the points of `Reads`. The task's
own read of the hashes is one step: no one else ever writes, so nothing it reads
can change under it. Each block is inserted in a step of its own, so the process
may be killed between two. When `insert_block` panics, `HalfInserted` is what it
leaves (the forest popped, and either nothing else or the anchor moved and the
transactions up to the failing one applied); the task is gone and the lock
poisoned, and the next command panics in `ReadPoisoned`. `save` is two steps,
`CreateFile` and `WriteFile`, with the process killed before, between or after
them. An incomplete file decodes to no State (its last field, the forest, is
missing or cut), and `main` panics on it before anything has happened, so
`StartFrom` only loads complete ones. `Connect` may fail, and the main thread
never learns of it.

*Wrapped bitcoin.* `calls[c]` is an open call with its local variables, and a
step runs from one await to the next: `CreateInvoice` and `InvoiceCreated`;
`CloseInvoice`, `GetBalance` (the actor's own method, which looks the invoice up
a second time) and `InvoiceClosed`; `Unwrap`, then one `TransferWhole` per used
account that pays with all it has, and a `TransferLast`. What the actor calls
without `await` (`mint` and `invoice_to_used_accounts` in `close_invoice`,
`sort_used_accounts` after it and at the end of `unwrap_btc`) is a message to
itself: `inbox` holds them in order and `ExecuteMessage` executes the first. A
trap undoes what was done since the last await, so `TransferFails` ends the call
and keeps what came before: it stands for an account that cannot be reached, for
an amount below the fee, and for a supply smaller than what is burned. A trap
before the first await undoes the whole call, which is no step. Accounts are
numbered in the order they are created. What an account answers when asked for
its balance is any value, and `recorded` and `paid` are history: what was put
into `used_accounts` for each account, and what it was told to pay.
`deviations` is history too; its members are the things the bookkeeping of the
code does not survive, each set in the one step where it happens. What clients do
directly is `Mint`, `PushAccount` and `SortAccounts`: the code asks nothing about
the account in `invoice_to_used_accounts`, so it is any account, an open invoice or
one already in the list included, and `given` remembers which ones were named.

| deviation | what happened |
|---|---|
| `direct` | `mint` or `invoice_to_used_accounts`, both public, was called by a client |
| `unbacked` | `close_invoice` began without an invoice and read the balance of one created meanwhile |
| `failed` | a transfer of an unwrap failed, or the code after it trapped |
| `self` | `send` to oneself, which adds the value |
| `stale` | `unwrap_btc` wrote a balance that had changed since it was read |
| `short` | `unwrap_btc` ran out of used accounts and debited the whole amount |

## 3. Runs

| run | instance | what it shows |
|---|---|---|
| `utxo_set` | five transactions (two coinbases, a payment with change, one that joins two outputs, a duplicate coinbase), two addresses, heights 1-3 | the index and the map never drift apart, the answers for the addresses partition the set, reloading is the identity |
| `store_in_order` | twelve blocks in three competing chains, delta 2, blocks as successors of known ones | the forest is the tree of the headers; no block panics; the stability rule; stabilising keeps the chain; queries equal a replay from genesis |
| `store_any_order` | seven blocks in three branches, one of them spending an output twice, delta 1, in any order, repeated and orphaned | the store implements `Ledger` and its fields agree; only the invalid block makes it panic, and the panic undoes the whole message; the forest holds only true parent-child pairs; no block is lost unless one came twice; queries equal a replay |
| `sync` | five blocks in two branches, batches of up to 2, two payments, an adapter that may fail, fair scheduling | the answer is still fresh when it is executed; no block is delivered twice; only an error loses a payment; the canister catches up and the queue drains |
| `sync_crash` | 4 blocks in a fork, one of them invalid, one crash | a late call, a second delivery and a trap leave the state a ledger; no invalid block becomes stable; payments keep their order |
| `rust_wallet` | three calls, three deposits, three amounts | no output is spent twice; marks are exact; what is paid above the fees is dust |
| `motoko_account` | three calls, two of them open at once, two deposits, two amounts | marks are exact; what a call has built is not spent by one that filters later |
| `sync_demo` | a chain of three and a rival of two blocks, the rival invalid; two files, two starts, batches of up to 2, fair scheduling | the answer is still fresh under the write lock; no half-inserted block is read or can be loaded; the State catches up while process and task live |
| `wrapped` | two clients, two open calls, two accounts, six calls in all | no account is drained twice, none pays while it is open unless a client put it into the list, the list stays sorted, the supply is backed and is the sum of the balances, but for the deviations |

Three runs look for a violation, and find it: `confirmations`,
`sync_redelivery` and `motoko_concurrent`; see section 6.

### Properties worth explaining

* `ImplementsLedger`: `Ledger` is instantiated with the history `stable` and with
  the set of pairs of outpoint and output in the UTXO set; its specification is
  checked as a property, so each step of the store is a step of the ledger or
  leaves chain and outputs alone. `Ledger` computes the outputs of a block with
  the whole block in hand (`After`), the store one transaction at a time with
  its index.
* `QueriesMatchReplay`: the code takes the part of the set of one address and
  applies unstable blocks of all addresses to it, in a set that lets missing
  inputs pass. The property compares the answer with replaying the chain from
  genesis, for every address and every `min_confirmations`, and the
  confirmations `get_utxos` adds with the place of the transaction in the chain:
  they are never too few, and one too many for stable blocks (section 6).
* `TrapsOnlyInvalid`: in each state and for each block that might come next,
  `insert_block` panics only if the block it would make stable spends what the
  ledger of the stable chain does not have. `NeverTraps` says for valid blocks
  that nothing panics at all.
* `StableRule` and `StabilisingKeepsChain` are action properties: they compare
  the stable chain before and after the step with the headers delivered so far.
* `AnswerStillFresh`: the request is read from the canister three awaits before
  the answer to it is executed. The property holds because nothing but the shim
  changes the state, and only as long as there is one shim and no call left
  behind by another; `sync_redelivery` shows what happens otherwise.
* `CatchesUp` is of the form `<>[]`: only finitely many blocks exist, so in the
  end none is missing. Blocks on branches the stable chain has passed by are not
  asked for any more and do not count.
* `MarksExact` is the invariant behind `NoDoubleSpend`: the set of spent
  outpoints is the inputs of all the transactions built.
* `NoLateDoubleSpend` is what the Motoko account keeps of `NoDoubleSpend` when its
  calls overlap, as those of `unwrap_btc` and `send_from_invoice` may. For two
  calls it says: if one has built when the other has yet to filter, they never
  spend the same output. The run `motoko_concurrent` shows the case left out,
  both between filter and mark.
* `UsedNotOpen` exempts an account only if a client named that same account to
  `invoice_to_used_accounts`. Naming one account does not put another out of step.
* `AnswerStillFresh` of the demo needs no assumption on what else happens: a
  State that is loaded comes with a new task, and the main thread only reads.
* `NoHalfInsertSeen` looks at every State a command can read and every file that
  can be loaded. It is the poisoning of the lock that makes it hold: the mutant
  that ignores the poison breaks it.
* `CatchesUp` of the demo has two ways out, a process that is down and a task
  that is dead, because nothing in the code starts either again. The task dies
  without a word if there is no adapter when it starts, and if a block is
  invalid.
* `SupplyBacked` and `SupplyIsBalances` hold in every state in which none of the
  deviations they name has happened, with the messages and calls that are under
  way accounted for. The list is exact: with any one of the exemptions left out,
  TLC finds a counterexample. In the code each of them silently ends the
  agreement of the books; nothing restores it.

### Bounds, and why they are enough

* Blocks: the shapes that matter are a tie, a fork whose longer branch wins, a
  fork inside a branch, a block on a branch that has lost, and a pop that leaves
  several subtrees; the chains `a`, `b` and `c` of `MCStore` contain each of them
  on both sides of the anchor. Delta is 1 or 2 (6 in the code): the rule only
  compares depths with it, and with 2 there is a depth below, at and above it.
* Transactions: a payment that is in two branches, an output that an unstable
  block creates and a later one spends, an output two branches spend
  differently, a script without an address, one duplicated coinbase.
* `MaxBatch` 2 lets a response hold a parent and its child, or blocks of two
  branches. `MaxCrashes` 1 suffices to leave a call behind and restart; each
  further crash adds one call more of the same kind. Payments are sent once.
* Wallets: the Rust wallet has three deposits and all three calls open, the Motoko
  account two and two: a third call can begin when one has ended. 64 stands for 2^64 and a unit for 5000 satoshis, so fees and the dust
  threshold are 2 units each, no sum in the runs reaches 64, and the sums that
  are one short of the fees or of the threshold occur. Three calls allow one
  that is confirmed, one that is lost again and one under way. An amount of 2
  is refused by the Rust wallet.
* The demo: two starts let a file be written and loaded again; two files let one
  be emptied while the other is whole; the invalid block comes first of its
  branch, so the panic leaves a branch above it.
* Wrapped bitcoin: two clients and two open calls for the interleavings; two
  accounts, so that an unwrap takes one whole and part of another; amounts below,
  at and above what an account holds, and a remainder below the fee. Six calls
  reach every deviation and every action. A client puts an account into the list
  only while it has fewer than `MaxUsed` 2 entries, which leaves room for one that
  is there twice. `Call` and `Client` are symmetric.
* `CHECK_DEADLOCK FALSE` is said where all calls come to an end: the wallets,
  the wrapped bitcoin, and the demo when its starts are used up. The store and
  the canister never stop.

### Fairness

`sync` assumes that the shim's loop goes on from the await it is at
(`WF_pc(MovesOn)`): the process runs, the replica answers queries and executes
the calls it was sent, the adapter answers or fails. It further assumes that an
adapter that is asked again and again answers sometimes (`SF_pc(Answered)`);
weak fairness would not do, since each failure leads through the rest of the
loop before it is asked again. Both are about the control point alone, which is
equivalent to fairness of the actions, as only a step of the shim changes `pc`.
Nothing is assumed of clients and of the network, and nothing of crashes; there
are none in this run. (Safety properties do not depend on the fairness.) Transactions can leave the queue by an error of the
adapter: `QueueDrains` does not say that they were sent.

`sync_demo` assumes that the task runs and that the main thread ends a command it
has begun (`WF`), and two things strongly: an adapter asked again and again
answers sometimes, and a lock that is free again and again is given to the task
that waits for it for writing (`SF_fetch(Acquired)`): the main thread is the only
reader and waits for its user between two commands, so there is no second reader
to keep the task out while the first lets go of the lock. Nothing is assumed of the user, the network or the process: it may be
killed, and commands may never come.

## 4. Proofs

`UtxoSetProofs` proves, for any set of transactions, addresses and heights, from
the assumptions named in `UtxoSetOps` and `UtxoSet` (the transactions are
well-formed, and the outputs of the historical duplicates pay to no address):

* `TypeCorrect`, `EntriesAlwaysAuthentic`, `IndexAlwaysConsistent`, `IndexNeverFails`,
  `GetUtxosAlwaysAnswers`, `AnswersAlwaysPartition`, `ReloadIsIdentity`.

The inductive invariant is `TypeOK /\ EntriesAuthentic /\ IndexConsistent /\
NoIndexFailure`. `IndexConsistent` alone is not inductive: a duplicated
transaction overwrites an entry, and its outpoint would stay in the index if the
old entry had an address; `EntriesAuthentic` says the old entry is the output
of the same transaction, which has none. The heart is `InsertIndex`: for each
address, the bag after removing what is spent and adding what is created is the
bag of the entries after it (`BagOfDifference`, `BagOfUnion`). That queries
answer and that reloading is the identity follow from the invariant.

`StoreOpsProofs` holds what the proofs about store, shim and demo share, for any
forest and any state: sequences and folds; the paths of a tree, and what `Push`,
`PopTrees`, the depth and the chains of a tree are made of; the runs of
`ApplyBlock`, and the ledger (`Replay`). Its invariant of a state is `StateOK`:
the fields have their types, the index lists the entries of the map, and every
tree of the forest is one (`TreeOK`: the paths are closed downwards and without
gaps, and each child is the successor of its parent). What is proved of store,
canister and demo takes `NewAssumption` for granted: `State::new`, which inserts the
genesis block, does not panic; if it did there would be no State.

`StoreProofs` proves eleven theorems about `Store`, for all blocks, transactions and
addresses and any `Delta`. Of `SpecAnyOrder`, where blocks come early, late,
repeated, on no known block, invalid or panicking, with reloads in between:

* `ChainFieldsAgree`, `StoreTypeOK`, `ForestAlwaysLinked`, from `StoreInv`
  (`StateOK` and the agreement of the fields with the history). Nothing is needed
  of the order of blocks: the assertion in `insert_block` compares whatever the
  forest pops with the anchor.
* `StoreImplementsLedger`, the refinement: `Init` maps to the ledger's, a step
  that makes a block stable to the step that adds it (`ApplyBlock`, a transaction
  at a time and with the index, makes of the set what `After` makes of the pairs),
  every other step to a stutter.
* `TrapsAlwaysInvalid` and `QueriesAlwaysMatch`, from `QueryInv`, which adds to
  `StoreInv` that the UTXOs are the replay of the stable chain and that each entry
  has the height of its block or of the one before (`Placed`). The part of an
  address is a subset of the set, and applying a block to it removes and adds
  exactly what it removes and adds of that address in the whole; so the answer is
  the part of the replay. Both need `TxsOnceAssumption` (no chain has a
  transaction twice but the two historical duplicates, BIP 30), without which the
  set would refuse an output it holds.
* `NothingEverTraps`: if every block spends only what the chain before it leaves
  (`AllSpendable`), nothing panics. The blocks of `store_in_order` are such
  blocks; those of `store_any_order` are not, so that there
  `TrapsOnlyInvalid` says something about a panic that happens.
* `NothingEverLost`. Here a proof attempt showed that the property as it was first
  stated is false when blocks come twice. With Delta 2, genesis, a
  block `p` on it, `r` and `q` on `p`, `x1 x2 x3` on `q` and `y1` on `q`: if `q`
  is delivered a second time it may stand in two trees, `y1` is put on one copy,
  and is dropped when the other one becomes stable. `NothingLost` therefore
  says `~ repeated =>`, with `repeated` a history variable; its invariant is that
  each block of the forest is then at one place (`Once`) and is delivered.

Of `SpecInOrder`, where blocks come as successors of known ones, as the adapter
sends them:

* `ForestAlwaysComplete`: the forest is the tree of the headers on the anchor.
  `Spans` is the invariant, with `Grown` (every delivered block has its
  predecessor delivered): `Push` puts a new block on the only place its
  predecessor has, and `PopTrees` keeps what is beyond the new anchor.
* `StableByTheRule`: since the forest is the tree of the headers, the depth of a
  tree is the depth of its root among the headers, and what `PopTrees` compares is
  what the rule compares.
* `QueriesSeeTheSameChain` (`StabilisingKeepsChain`): the tree that becomes
  stable is strictly deeper than the others, so all the longest chains begin with
  its root, and what they have in common is the root and then what those of its
  subtrees have in common. With `Delta = 0` a tie could make a block stable; the
  invariant then needs that every block becomes stable at once and the forest is
  always empty (`KeepInv`).

`BitcoinSyncProofs` proves for any blocks, payments and bounds, with a shim that may
be killed at any await and calls that are executed after it:

* `LostOnlyByError`, an action property, and `AlwaysInOrder`. Both rest on
  `ShimHolds`, what the shim holds at each await: it has a transaction only while
  it sends it, and the call it waits for is the one that await is about.
  `sent \o raw_tx \o outgoing` is a line: steps move its
  members forward or drop one, and clients join at its end (`Line`).
  `OutgoingInOrder` is stated by positions: two elements of the line are in the
  order in which clients had them accepted.
* `SyncTypeOK`, `StateAlwaysLedger`, `StableAlwaysSpendable`, from `SyncInv`: the
  state is `Anchored`, the ledger of a spendable chain. `get_successors_response`
  is a fold over the blocks of the answer, and every prefix of it keeps
  `Anchored`, with a panic among the blocks or without one.
* `UnstableStaysUnstable` and `AnswersStayFresh`, under `crashes = 0`, from
  `FreshInv`: without a killed shim there are no orphans, and what the shim has
  read is what the canister still holds. With a killed shim both fail, which is
  the finding of the run `sync_redelivery`.

`SyncDemoProofs` proves for all blocks, files and bounds `AnswersStayFresh`,
`ReadsExclude` and `NoHalfInsertEverSeen`. The invariant `RequestInv` says that
while the task asks and waits, its request is what the State holds now, and that
the answer is fresh with respect to the request (`SuccessorsFresh`, from the
adapter alone); `Exclusion` says that a command that reads excludes an insert and
a poisoned lock. `DemoInv` adds that a State behind a lock that is not poisoned is
the ledger of its chain, and so is each one that can be loaded (`Whole`): the
file is written from a State that was read under the lock.

`WalletProofs` proves for both wallets and any number of calls, amounts and deposits:

* `NeverDoubleSpends`, `RustMarksExact` and `AccountMarksExact`; and
  `AccountNoLateDoubleSpend`, none of which bounds the calls open at once. There is one
  lemma per kind of step, which keeps `Marks`: `MarksExact` and that a call has no
  transaction before its UTXOs have come, and never more than one. A step that
  builds (`SpendMarks`) adds one transaction whose inputs are among the UTXOs it
  was offered. `UnmarkedIsSafe` draws the conclusion: if what is offered is not
  marked at that moment, no output is spent twice. In the Rust wallet filter
  and build are one step, so the premise is the filter itself. In the account it
  would have to survive an await and does not, as `motoko_concurrent` shows. What
  survives is relative to another call: `Late(c, d)` says that `c` has not filtered,
  or has nothing on offer that `d` spends, or has built apart from it. It holds from
  the moment `d` has built while `c` has yet to filter. A step of `c` keeps it, the
  filter because the inputs of `d` are marked by then; so does a step of `d`, which
  does not build again (`BuiltOnce`); and others touch neither.
* `RustFeesPaid` and `AccountFeesPaid`, with any number of calls open at once. They
  say something of u64 arithmetic: the sum of the inputs is taken modulo 2^64, and
  would be wrong if a wallet's outputs were worth more. `MoneyFits` assumes that all
  the deposits there are fit a word (there will be 21 * 10^14 satoshis at most).
  From it follows, step by step of the block chain, that what the wallet has never
  exceeds it: `Balanced` says that the outputs the Bitcoin canister shows and what
  was paid away with confirmed transactions are together what was paid in at
  most, through deposits, confirmations and reorganisations. So the list a call
  builds from fits, the total the loop adds up is the sum of the inputs
  (`TotalIsSum`, `InputsAreSpent`), and fees and change come out
  (`TransactionPays`). `DustThreshold > 0` is needed: with 0 even an exact payment
  would get a change output.

`WrappedBitcoinProofs` proves for any finite sets of clients and calls, any number of
accounts, any values and any interleaving:

* `WrappedTypes`, `UsedNeverOpen` and `AlwaysSorted`. `UsedNotOpen` is not
  inductive: a call that is about to close an account holds it in a local variable
  while the invoice may be deleted and created anew. `Apart` (open invoices are
  neither in the list nor in a message, but for those in `given`), `OneEach` (no account is the invoice of
  two clients), `OwnInvoice` (the account a call is about to close is nobody
  else's invoice) and `Numbered` (a new account is a new one, but for those in `given`) together are.
  `InOrder` needs the calls that will send a sort and the messages that will
  cause one; taking the first account off a sorted list, or a part from it while a
  sort is due, keeps it.
* `NeverDrainsTwice`, `AlwaysBacked` and `BalancesAlwaysAddUp`, from `BInv`: the
  three sums are invariant together with what open calls may hold (`Sound`: what
  is left to pay is not negative, a last payment is what is left). The lemmas
  about sums say what a sum becomes when an element is added, taken away or
  changed; sorting permutes the list and keeps them. The exemptions of the
  properties are not needed as assumptions: `deviations` only grows, so what
  held before a step was not exempted either.

The prover has no induction over data of its own. What is needed of folds and
recursive functions (`Total`, `Replay`, the sums) is proved from the well-founded
order of the naturals that the library gives: `NatSetInduction` and
`SubsetInduction` state induction for a set instead of a predicate, and
`FoldExists` that a function with a recursive definition on subsets exists.

| invariant of a run | theorem |
|---|---|
| all of `utxo_set` | `UtxoSetProofs` |
| all of `store_in_order` and `store_any_order` | `StoreProofs` |
| `NoneLostButByError`, `AnswerStillFresh`, `UnstableNotStable`, `StableIsSpendable`, `OutgoingInOrder`, `StateIsLedger` | `BitcoinSyncProofs` |
| `AnswerStillFresh`, `NoHalfInsertSeen` of the demo | `SyncDemoProofs` |
| `NoDoubleSpend`, `NoLateDoubleSpend`, `MarksExact`, `FeesPaid` | `WalletProofs` |
| all of `wrapped` | `WrappedBitcoinProofs` |

What stays with TLC: the liveness properties `CatchesUp` (of the shim and of the
demo) and `QueueDrains`, as the prover does not handle fairness and `ENABLED`, and the
violations of section 6, which are existence claims about an instance.

## 5. What is not modelled

* Conversion of blocks and transactions (`block.rs`) and the Candid types copy
  fields. A block is an atom with a predecessor and transactions, and the forest
  reloads as it was.
* Addresses and scripts: what is kept is whether a script is an address, and
  which.
* Malformed addresses and transactions: the canister answers with an error
  before it has touched anything.
* Signatures, keys and serialisation. A transaction the wallet builds is its
  inputs and outputs.
* `u32` heights and confirmations: they are far below their width; the u64
  amounts of the wallet, which do wrap, have their width.
* Bitcoin, the adapter and the replica are not in the repository and are
  modelled from how the code uses them. The adapter returns successors of the
  blocks it is asked about, in an order in which each comes after its parent.
  The replica executes a call some time after it is submitted, once.
* `HalfInserted` leaves out one detail: when a transaction fails on a missing
  input, the inputs before it are already out of the set. Nobody can look at it.
* The commands of the demo print what the operators of `StoreOps` say.
* `send_from_invoice`, `send_btc`, the getters and the text the wrapped bitcoin
  canister returns change nothing in it. What an account holds is up to its
  Bitcoin canister: whether two deposits and a payment add up there is not the
  actor's to know, so an account's balance is any value each time it is asked.
* The conversion of a random key to WIF (`tests/*.mo`) is an algorithm on bytes
  that keeps no state and is not modelled; nor is the test builder. The front
  end, vendored packages and generated bindings hold no logic of the system.

## 6. Findings

| run | finding |
|---|---|
| `confirmations` | `insert_block` records the transactions of a stable block at the height of the block below it. `get_utxos` counts one confirmation too many for them. |
| `sync_redelivery` | A response executed twice puts a stable block back among the unstable ones, together with the tree above it, which is never attached again: the canister asks for none of those blocks again. |
| `motoko_concurrent` | The Motoko account filters and marks on different sides of an await. Two calls at once spend the same output. |

What the models follow and no run claims:

* `get_current_chain` returns what all the longest chains have in common; the
  comment above it (`blockforest.rs` 97-99) asks for a tip that has no other
  block at its height, shorter branches included.
* `BlockForest::push` attaches only one of the trees that wait for a new block
  (`blockforest.rs` 70-79). The others stay apart and do not count as rivals, so
  with blocks that arrive before their parents, which the adapter does not send,
  a block can become stable against the rule at the head of the file.
  `StableRule` is therefore checked for blocks in the adapter's order.
* `build_transaction` fails only when the UTXOs do not cover the amount. When
  they cover the amount and not the fees, the subtraction on line 69 wraps;
  `FeesPaid` says what holds otherwise.
* `confirmations` in the answer of `get_utxos` are computed from the recorded
  height, and for outputs of stable blocks are one too many, for the reason
  given under `confirmations` above.
* Two overlapping calls of `close_invoice` record and mint the same balance
  twice, and one that overlaps a new deposit deletes the new invoice. The books
  still agree with each other.

## 7. Reading order

`UtxoSetOps`, `UtxoSet`; `BlockForest`, `StoreOps`, `Store`; `Ledger` and
`StoreProperties`; `BitcoinSync` and its properties; `Wallet` and the two
wallets; `SyncDemo`; `WrappedBitcoin`. Every module starts with what it models.

## 8. Plan

Done: every component of section 1 that keeps state is modelled, every safety
property a run checks is a theorem, the ledger is refined, and liveness is
checked.

Left:

1. The sums and inductions of `StoreOpsProofs`, `WalletProofs` and
   `WrappedBitcoinProofs` overlap (`NatSetInduction`, sums over a set); one
   library of lemmas could serve all three.
2. The shim and `StabilisingKeepsChain`: what a client sees of the chain while
   answers are executed, which joins `FreshInv` and `OrderInv`.
3. The conversion of a key to WIF (section 5) could be stated as functions and
   checked against the definition of Base58 over short byte strings.
