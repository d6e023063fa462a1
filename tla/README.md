# Formal models of ducatus-core

TLA+ models of the parts of this repository that keep money-related state:
the wallet service (BWS) and the chain indexer (bitcore-node). The modules are
checked with TLC on small instances, and the most important theorems about
them are proved with TLAPS for every value of the constants.

Paths are relative to the repository; `bws/` stands for
`src/packages/ducatus-bitcore-wallet-service/src/lib/` and `node/` for
`src/packages/bitcore-node/src/`.

## 1. Inventory

The system has two servers and a client side. **bitcore-node** follows one or
more coin networks and indexes blocks, transactions and coins (outputs) in
MongoDB. **BWS** coordinates the copayers of multisignature wallets: it stores
wallets, addresses and transaction proposals in its own MongoDB and asks
bitcore-node's HTTP API for balances and outputs. The **client library** holds
the keys and signs. Both servers run as several processes over one database;
inside a process every `await` or callback is a point where another request
may run.

| Component | State it keeps | Operations | Interacts with | What is hard, what makes it correct |
|---|---|---|---|---|
| BWS proposals (`bws/server.ts`, `bws/model/txproposal.ts`) | collection `txs` | createTx, publishTx, signTx, rejectTx, broadcastTx, removePendingTx, getPendingTxs | storage, wallet lock, explorer, monitor | Only three of the seven take the lock; all write whole documents. A status must follow from the votes, only quorum-signed transactions leave, an output is reserved by one proposal at a time. |
| BWS wallet lock (`bws/lock.ts`) | collection `locks`, retry timers | acquire, release, runLocked, clearExpiredLock | storage | Expiry, crashes, deletes by key. One task at a time; a lock left behind is freed; waiting callers are answered. |
| BWS storage (`bws/storage.ts`) | all BWS collections | one method per query or write | every BWS part | `storeTx` and most others are unconditional upserts. |
| BWS coin selection (`bws/chain/btc`) | none | selectTxInputs, checkTx, getWalletSendMaxInfo, checkTxUTXOs | explorer, proposals | Usable outputs come from three reads made at different times. A selection pays in full, spends nothing for no use, and is found if there is one: eight thresholds meet in one loop. |
| BWS blockchain monitor (`bws/blockchainmonitor.ts`) | notifications, proposals, confirmation subscriptions | third-party broadcasts, incoming payments, new blocks | explorer sockets, storage | Races with broadcastTx; notifies once. |
| BWS wallets, copayers and addresses (`bws/server.ts`, `bws/model/wallet.ts`, `addressmanager.ts`) | collections `wallets`, `addresses`, `copayers_lookup` | createWallet, joinWallet, addAccess, removeWallet, createAddress, scan, syncWallet | lock, explorer | All of them replace the whole wallet, some without the lock, and the copayers are stored twice. An address is handed out once and always stored; the address gap; at most n copayers join, each one wallet; look-ups and wallet agree. |
| BWS account-based coins (`bws/chain/eth`, `ducx`, `xrp`) | nonces and gas inside proposals | the same as proposals | explorer | A nonce is read without reserving it. |
| BWS notifications (`pushnotificationsservice.ts`, `emailservice.ts`, `messagebroker.ts`) | collections `notifications`, `email_queue` | dispatch, send | external services | Every server process sees every message; a lock per mail. |
| BWS fiat rates, HTTP interface, explorer client | prices; none; none | periodic fetch; routing; calls | outside services | stateless or independent |
| bitcore-node block sync (`node/modules/bitcoin/p2p.ts`, `node/models/block.ts`) | collection `blocks`, invCache, headers and blocks in flight | sync, getHeaders, addBlock, handleReorg, processBlock | peers, transactions and coins | Six writes per block and four per rollback, none of them a transaction; late answers; crashes. The processed blocks are one chain, the data is theirs, and the worker catches up. |
| bitcore-node transactions and coins (`node/models/transaction.ts`, `coin.ts`, `node/services/pruning.ts`) | collections `transactions`, `coins`, invCache | batchImport of a block or of mempool transactions, pruneMempool, the pruning service | block sync, wallets | Mempool and block imports spend the same coins concurrently, pruning runs in another process. What is mined stands, what is pending has its inputs, the two collections agree. |
| bitcore-node chain state provider (`providers/chain-state/internal`) | none | getLocatorHashes, queries, wallet routes | blocks, coins | locators with fewer than two blocks |
| bitcore-node verification (`VerificationPeer.ts`) | none | validateDataForBlock | blocks, coins | is the code's own definition of a consistent database |
| bitcore-node syncing-node election (`node/services/p2p.ts`, `models/state.ts`) | document `state.syncingNode`, heartbeats remembered, queued registrations | refresh, nominate, resign, start, stop | block sync | Registrations are delayed for minutes and carry old heartbeats. One writer; nobody is cut off while he renews; somebody syncs in the end. |
| bitcore-node wallets (`walletAddress.ts`) | collections `wallets`, `walletaddresses`, tags on coins | updateCoins | coin import | Both tag, each from what it has read: whoever comes first, the wallet has its coins and transactions. |
| bitcore-node events, cache | capped collections; cached values | tail, getGlobalOrRefresh | API processes | cursors that end, expiry |
| bitcore-node Ethereum, DucatusX (`node/modules/ethereum`, `ducatusx`) | collections `blocks`, `transactions`, invCache | sync by height, addBlock, handleReorg, announced transactions | one RPC node | A rollback deletes the parent too and imports on; headers are ignored while a synchronisation runs; transactions are imported unawaited beside blocks. The worker has the node's chain when it rests, a nonce is used once, every synchronisation ends. |
| bitcore-node Ripple | blocks and transactions of this chain | polling by ledger index | RPC node | asks an external service |
| Client library, bitcoin libraries, P2P and RPC libraries, wallet-core, CLI, Insight | local or none | | | pure functions, adapters, user interface |

`PROJECT.json` lists the same components with their status, and under
`hazards` the places where the code is hard to test, each with the properties
that cover it.

## 2. Plan

Done so far, in this order because money is lost first through two proposals
that spend one output, then through a wrong index:

1. `TxProposals`: the proposals of one wallet, every call, crash and race;
   proofs `TxProposalsProofs` (types, votes, quorum, ties, outputs, decisions).
2. `WalletMutex` and `WalletLock`: the abstract mutex and the lock that
   implements it; proofs `WalletLockProofs` with the refinement.
3. `ChainStore` and `BlockSync`: what the block store promises, and the
   synchronisation that implements it; instances in `MCBlockSync`, proofs
   `BlockSyncProofs` with the refinement.
4. `WalletAddresses`: createAddress, change addresses, scan and the wallet's
   registration; instances in `MCWalletAddresses`, proofs `WalletAddressesProofs`.
5. `UtxoSelection`: the selection of `chain/btc` against a reference over all
   small wallets; instances in `MCUtxoSelection`, proofs at the end of
   `TxProposalsProofs`: that module is about a proposal and about how its outputs
   were selected.
6. `WalletJoin`: createWallet, joinWallet, addAccess and removeWallet with the
   look-ups; instances in `MCWalletJoin`, proofs `WalletJoinProofs`.
7. `CoinStore`: block imports, mempool imports, pruning and rollbacks beside
   each other, over one store of coins and transactions; instances in
   `MCCoinStore`, proofs `CoinStoreProofs`.
8. `WalletImport`: updateCoins, which EXTENDS `CoinStore` and runs against its
   imports; instances in `MCWalletImport`, proofs at the end of `CoinStoreProofs`,
   whose invariant they build on.
9. `SyncingNode`: the election of the process that runs `BlockSync`; proofs
   `SyncingNodeProofs`.
10. `EthSync`: the worker of `node/modules/ethereum` and `ducatusx`, which asks for
    blocks by height; instances in `MCEthSync`, proofs `EthSyncProofs`.

How they compose: `WalletLock` implements `WalletMutex` for reliable callers, and
`TxProposals`, `WalletAddresses` and `WalletJoin` take the lock to work like that
until a crash leaves it behind. From then on a late `clearExpiredLock` may delete
the lock of its next owner, which those three modules have too.
`BlockSync` implements `ChainStore` for a single writer, which is what
`SyncingNode` shows; `CoinStore` takes its blocks in the order `ChainStore`
allows and adds what runs beside them; `WalletImport` composes it with the API
processes. `TxProposals` starts from the set of outputs `UtxoSelection` returns.

Next, modelling: the tasks that outlive their lock; the events that other
processes tail.

Proofs: every invariant and every action property that a run checks is proved, the
refinements too. Liveness is not (section 5).

## 3. The models

### TxProposals

One complete m-of-n wallet of a UTXO coin. `stored[t]` is the document that
`fetchTx` finds, `twins[t]` further documents with the same id (the monitor
inserts them, see 6), `lock` the wallet's lock, `clearing` whether a
`clearExpiredLock` has found it expired and is still to delete it, `net` the
transactions the coin network has accepted and `seen` those the explorer has
indexed, which lags. `past` are the broadcast documents that
`fetchBroadcastedTxs` returns no more. `req[r]` is a request in progress: what it
has read and what it waits for. Two histories are what properties except:
`overwritten`, that a write has replaced a document it had not seen, and `robbed`,
that a late delete has taken the lock from a request that held it.

An action runs from one wait of the code to the next:

| Code | Actions |
|---|---|
| `createTx` | StartCreate, then StoreGiven when the caller names the inputs, or ReadUtxos, ReadPending, SettleThirdParty\*, ReadBroadcasted, StoreNew |
| `publishTx` | StartPublish, then the same reads (checkTxUTXOs), StorePublished |
| `signTx` / `rejectTx` | StartSign, StoreSigned / StartReject, StoreRejected |
| `broadcastTx` | StartBroadcast, NodeAccepts or NodeRefuses, FoundInChain, StoreBroadcasted |
| `removePendingTx` | StartRemove, Delete |
| `getPendingTxs` | StartList, ReadPending, SettleThirdParty\*, AnswerList |
| error exits of all of them | RequestFails |
| `_handleThirdPartyBroadcasts` | MonitorSettles |
| process death, `clearExpiredLock` | Crash, FindExpiredLock, DeleteExpiredLock |
| time, the explorer | Age, FallsBehind, ExplorerIndexes |

Abstractions. Any non-empty set of usable outputs stands for the coin
selection, dust and fees are left out. A creation that is refused, or that is
a dry run, ends without a write (RequestFails). A raw transaction is identified by the
proposal and the copayers whose signatures it carries. A task ends before its
lock expires, so only the lock of a dead process is ever found expired; its
delete comes any time later and is by key. The selection looks at the
broadcasts of the last 24 hours, 100 at most (`bws/server.ts:1584-1589`,
`bws/storage.ts:495-525`): a broadcast may leave these at any moment
(`FallsBehind`), and is taken not to return when the limit would let it in again. The
monitor's look-up and its insert are one step. After an error of one look-up
`getPendingTxs` answers at once while its other look-ups still run: the model
ends the request there. `publishTx` verifies the creator's signature, which is
taken to be good.

### WalletMutex, WalletLock

`WalletMutex` is the promise: one holder. `WalletLock` is `lock.ts` with
`acquireLock`, `releaseLock` and `clearExpiredLock` of `storage.ts`. Nothing in
the lock document says who owns it, so both deletions are by key. `age` is the
age of the document, `timeLeft[c]` the argument that `acquire` hands to its
own retry, `finds` and `deletes` the calls of `clearExpiredLock` that nobody
waits for, before and after their `findOne`; `held` and `waited` are clocks of
the tasks and of the callers. Time passes in ticks of one retry step (50 ms).
`Patient` callers pass no `waitTime`. `Unreliable` ones may die with the lock,
lose the answer of their insert, or get a database error.

The guard of `Tick` is an assumption: a task ends within `LOCK_EXE_TIME`. The
code does not enforce it (`common/defaults.ts:268` says "max lock time 50s"
over a value of 40 s, and two explorer calls may take longer); past it, the
lock is given to somebody else and the slow task's release deletes that lock.

### ChainStore, BlockSync

`ChainStore` is the promise to readers of the database: the processed blocks
are one chain from the block after genesis, which grows by one block at its
tip or is cut back. `BlockSync` is the worker of `modules/bitcoin/p2p.ts`, with
one action per database write:

| Code | Actions |
|---|---|
| `start`, `sync`, `getHeaders` | Start, AskHeaders, AskAgain (its 1 s timer), ReceiveHeaders |
| `peerblock` handler | ReceiveBlock |
| `handleReorg` | NoReorg, or Reorg, then UndoBlocks, UndoTxs, UndoCoins in any order (Promise.all), then Unspend |
| `processBlock` | WriteBlock, LinkPrevious, MintCoins, SpendCoins, StoreTxs, MarkProcessed |
| process death, a rejected read or write | Crash, StepFails |
| peers | PeerAdvances; Answer is what a peer answers to a locator |

`late` and `torn` are history variables: the worker has taken an answer to an
earlier question; a rollback was interrupted.

Abstractions. The worker is the only writer (`SyncingNode`).
Each peer's messages come in order and are lost only with the connection.
Locators are all processed blocks, not the last 30; the cache of received
hashes is not bounded. A new block is announced and downloaded in one message.
Mempool and coinbase transactions are left out, and so is the chain of parent
forks (`parentChain`). An error of a stream inside `batchImport` is not caught
and ends the process, so it is a Crash there and a StepFails elsewhere.

### WalletAddresses

One complete wallet of a UTXO coin. `wallet` is its document, of which the
model keeps the next index of each branch, `beRegistered` and whether
`scanStatus` is `error`; `stored[b]` are the addresses of branch `b` in
collection `addresses`, `active[b]` those the explorer has seen paid, `lock` the
wallet's lock. `req[r].doc` is the wallet in the memory of a request, which
`storeWallet` writes back whole; `req[r].seen` are the indices it was made from.

| Code | Actions |
|---|---|
| `createAddress` | StartAddress, ReadLatest, FindActivity or RefuseGap (`_canCreateAddress`, no lock); Derive or RefuseScanFailed, Insert, WriteWallet, the actions of `syncWallet`, AnswerAddress |
| change address of `createTx` | StartChange, Derive or RefuseScanFailed, Insert, WriteWallet, `syncWallet`, EndSync |
| `syncWallet` | Register, Resync |
| `getBalance`, `getTxHistory` | StartSync (reads without the lock), `syncWallet`, EndSync |
| `startScan`, `scan` | StartScan, Deregister, ReadForScan (no lock), LockScan, StoreRunning; for each step and branch ScanBranch, Insert, WriteWallet, Register, NextBranch; ReadStatus, StoreStatus |
| errors | RequestFails, ScanFails |
| process death, `clearExpiredLock` (`clearing` between its two steps), payments | Crash, FindExpiredLock, DeleteExpiredLock, Pay |

`given` and `repeated` are histories of what createAddress has answered,
`overwritten` of a write that replaced indices its request had not seen, `cut`
of an insert that stopped at a duplicate.

Abstractions. An address is its branch and index. The addresses are sorted by
index instead of `createdOn`. A scan starts with steps of 1000 or 1, each next
one a tenth; `FirstSteps` and `Factor` scale that down, and `ScanEnd` is where
the loop over every step-th address ends. The scan of copayer branches in BIP45
wallets is
left out. The cached `hasActivity`, the registration flags of single addresses
and the wallet check's cache are left out: what they decide is a choice. The 404
branch of `getUtxosForCurrentWallet` registers the wallet as `getBalance` does
and is not repeated. Tasks end before their lock expires, except a scan, which
asks the explorer once for each address; then others take the lock and the scan
releases theirs.

### UtxoSelection

One request, from the wallet's outputs to the answer; nothing else runs, the
state is the request's. `utxos` are the outputs with value, confirmations and
whether they are locked by a proposal or excluded by the caller.

| Code | Definitions |
|---|---|
| `totalizeUtxos` and the checks behind it | CheckFunds |
| `sanitizeUtxos`, the groups of 6, 1 and 0 confirmations | Candidates, ExploreGroup, EndGroups |
| `select` inside `selectTxInputs` | Select, SelectSmall, UseBig, FeeOf |
| `checkTx`, and the limit on fees in `getBitcoreTx` | Refusal, CheckTx |
| `getWalletSendMaxInfo` | SendMax |

The loop over the small inputs is stated by where it ends: `Ends` is the first
input with which it gives up or has reached the amount. The reference, `CanPay`
and the maximum in `SendsMost`, quantifies over all subsets. Fees are counted in
fractions of a satoshi, since the code compares them before it rounds.
Outputs of the same value are ordered by number, where the code leaves them as the
explorer lists them: they are worth the same. A change is worth an output from
`MIN_OUTPUT_AMOUNT` on, which is what `checkDust` accepts; the loop over the small
inputs even folds one of exactly that value into the fee. That value may carry the
fee over `MAX_TX_FEE`, which `getBitcoreTx` then refuses to build. What
`getWalletSendMaxInfo` offers is not built, so `SendsMost` does not say that its fee
is below that limit.
Left out: inputs the caller names, the limit on a fee the caller names, and
sizes that depend on the address type.

### WalletJoin

`wallets[w]` is the document with its copayers and their request keys,
`lookups` the collection `copayers_lookup`, `req[r]` a request with the wallet it
has in memory; `clearing` holds the wallets whose lock a `clearExpiredLock` has found
expired and is still to delete.

| Code | Actions |
|---|---|
| `createWallet` | StartCreate, StoreWallet |
| `joinWallet`, `_addCopayerToWallet` | StartJoin, FetchToJoin (under the lock), LookUpToJoin, then the store |
| `addAccess` | StartAccess (finds the look-up, no lock), FetchToAdd or RefuseAccess, then the store |
| `storeWalletAndUpdateCopayersLookup` | DeleteLookups, InsertLookups, StoreWallet |
| `removeWallet` | StartRemove, LockToRemove, RemovePart for each collection, in any order |
| errors, process death, `clearExpiredLock` | RequestFails, Crash, FindExpiredLock, DeleteExpiredLock |

The rest are histories. `granted` are the keys that an addAccess has answered
which was alone at work on its wallet; `beside` are the requests under way that
were not. The others are what properties except:

- `shared`: wallets that an addAccess has been at work on together with another
  request;
- `interrupted`: wallets whose writing stopped between its three writes;
- `recreated`: wallets created twice, written after their removal, or created while
  an addAccess to one of the same id was under way;
- `robbed`: wallets whose lock a late delete has taken from the request that held it;
- `missed`: copayer and wallet of a join whose look-up could not tell
  (`InDoubt`). It found no look-up, but the copayer was in another wallet, or about
  to be: by another join that had looked him up and not yet inserted his look-up,
  since the joins of two wallets hold two locks (`bws/server.ts:857-881`); while
  somebody had deleted the look-ups of that wallet in order to rewrite them; or that wallet
  was `shared` or `interrupted`.

Abstractions. A copayer is its extended public key. Refusals for other reasons
(client version, coin or network, signatures, `dryRun`) are RequestFails. A task
ends before its lock expires.

### CoinStore

The collections `coins` and `transactions` of one chain, after the initial
synchronisation. `job[j]` is a running import (of a block, or of mempool
transactions, one for each relay), the rollback, or the pruning service; it
holds what has been read. One bulk write is one action.

| Code | Actions |
|---|---|
| `peerblock`, `peertx` | BlockArrives, TxArrives |
| `batchImport` | Mint, FindRivals, Spend, WriteTxs, with the tags of `tagMintBatch` and `streamTxOps` |
| `pruneMempool`, `findAllRelatedOutputs` | FindRivals, Relate, Mark (two parallel updates) |
| `services/pruning.ts` | PruneTx, Relate, Mark |
| `handleReorg` | Reorg, UndoMined for each collection, UndoSpends |
| process death | NodeCrashes, PrunerCrashes |

Two variables are histories, and section 6 lists what they stand for.
`disturbed` are transactions on which two jobs have worked at once so that an
update hits what has changed since it was looked up (`Overtaken`), or that are
announced while a rollback has still to delete them (`RollingBack`), and those
whose import or update a crash has cut off. `deprived` are transactions that have
been imported without getting all they spend (`Losers`): an input was not stored,
was spent by the chain or belonged to a conflicting transaction, which takes no
second job, or was being invalidated, or was about to be spent by an import that
had looked for rivals already (`Crossed`); and those one of whose inputs a rollback
has deleted since. A pending transaction that another import finds and invalidates
is not among them: that it is marked, with all that depends on it, is what
`PendingHoldsInputs` claims. A block that mines a transaction, or its import
afresh, takes it out of both. The properties except these transactions, not the
states, so they still speak of everything else; `CollectionsAgree` and
`ConfirmedStands` only those in `disturbed`.

Abstractions. Blocks come in a valid order (`ChainStore`); their coinbase is left
out. An output has at most one document, which the code intends but no unique
index enforces (`node/models/coin.ts:38`). A batch is one bulk write, so
instances are smaller than `MAX_BATCH_SIZE`. Fork chains with a parent are left
out. The pruning service's limit of 50 descendants ends the process before it
writes: a PrunerCrashes.

### WalletImport

`CoinStore` with requests that add addresses to a wallet. `addresses[x]` is the
document in `walletaddresses`: none, added, processed.

| Code | Actions |
|---|---|
| `FilterExistingAddressesStream` | Request |
| `AddNewAddressesStream` | AddAddresses |
| `UpdateCoinsStream`, `UpdatedTxidsStream`, `TxUpdaterStream` | TagCoins, ReadTxids, TagTx |
| `MarkProcessedStream` | MarkProcessed |
| process death of the API | ApiCrashes |

`lagging` are transactions whose import ran when one of their addresses was
added, and those that spend a coin left without its tag by such an import
(`Heirs`), until a block imports them with no relay at them any more
(`Resolved`); `dropped` are addresses that an insert left out (section 6). There
is one wallet, and the addresses of a request are one batch.

### SyncingNode

`beat` is the heartbeat stored in `state`; `seen[w]`, `leading[w]` and
`syncing[w]` are what worker `w` remembers of it and has made of it; `sent[w]`
and `queue[w]` its registrations, under way and queued. `same` in them says
whether the heartbeat they were made from is still the stored one: every write
of the heartbeat clears it in all others, which is what the filter of
`selfNominateSyncingNode` compares.

| Code | Actions |
|---|---|
| `refreshSyncingNode` | Refresh |
| `registerSyncingNode`, `selfNominateSyncingNode` | Renew, TakeOver |
| `sync` once started | StartBlock, EndBlock |
| `stop`, `unregisterSyncingNode`, `selfResignSyncingNode` | Stop, Resign, Exit |
| process death, restart, a process that gets nothing done | Crash, Start, Stall, Wake |
| the clock | Tick |

Abstractions. A tick is the pause of a worker's loop (500 ms), and the five
minutes are `Lease` ticks. A worker that does not stall makes its rounds, and
has its calls answered, within a tick (`OnTime`).

### EthSync

The worker of one account-based chain; the code is the same in
`modules/ethereum` and `modules/ducatusx`. `head` is the node's best block,
`blocks[b]` and `txs[t]` the documents, `sync` where `sync()` is and what it has
read, `relay[t]` the import of an announced transaction, `header` a block header
under way to the worker.

| Code | Actions |
|---|---|
| `sync` | Begin, GetBlock, NextHeight, End |
| `addBlock`, `validateLocatorHashes`, `handleReorg` | ValidateLocators, CheckReorg, then Undo for each collection (Promise.all) |
| `processBlock`, `batchImport` | WriteBlock, LinkPrevious, Import (upserts beside `pruneMempool`, which sends its updates and does not wait for them), MarkProcessed |
| an update of `pruneMempool` (`w: 0`) | Prune, PruneLost |
| `newBlockHeaders` | HearHeader |
| `pendingTransactions`, `processTransaction` | Announce, GetTransaction, InsertTx |
| an error of the node or the database, process death | SyncFails, Crash |
| the node | NodeAdvances |

`sent` holds the transactions for which an update of `pruneMempool` is under
way. `astray`, `torn`, `early`, `missed`, `raced` and `lost` are histories of what the
properties except (section 6).

Abstractions. `start()` does not take part in the election, so two processes
may both write; the model has one. All processed blocks are compared, not
the last 100. The node follows the heaviest branch, which may be the shorter
one. A transaction is its sender and nonce (`Slot`); internal
transactions, wallets and the cache of balances are left out, and so is waiting
for a parent chain below its fork. The wait of two seconds behind an error is
no step.

## 4. Runs

| Run | Checks | Instance | Shows |
|---|---|---|---|
| `proposals_race` | InputsReserved, FreshSelection | 1-of-1, two proposals, one output, three requests | Concurrent creations, publications, removals, broadcasts and crashes never let two live proposals hold one output, and what a selection takes for free is free when it writes, until an unlocked write overwrites a document it has not seen or a late delete takes the lock from its owner; broadcasts that the service no longer looks back at are left to the explorer. |
| `proposals_votes` | VotesDecide, NeverTied, NetworkQuorum, DecisionsStand | 2-of-2, one proposal, two requests | Votes and decisions, with lost updates, twins and third-party settlements. |
| `lock_reliable` | MutualExclusion, LockIsKept, WaitsLongEnough, IsMutex | three reliable callers, one without waitTime | The lock is a mutex, and nobody is turned away early. |
| `lock_orphan` | Answered, LockFreed | two callers, one unreliable and without waitTime | Liveness with crashes and lost answers. |
| `wallet_addresses` | GivenOnce, NoneSkipped, GapBounded | two requests, gap 1, scan gap 2, two main addresses and one change address | An address is answered once and stored before it is counted; concurrent requests exceed the gap by one each; with crashes, scans that outlive their lock and late deletes of it. |
| `sync` | ProcessedChain, StoreMatchesChain, IsChainStore, CatchesUp | chain of four blocks, a fork with two, one crash or failed write, one repeated question | The synchronisation implements the store and catches up. |
| `coins` | ConfirmedStands, PendingHoldsInputs, CollectionsAgree | a chain of two blocks; `a` and `b` spend one output, `c` spends what `a` mints; two relays | Blocks, mempool transactions that double-spend, pruning, a rollback and a crash, any two at a time: whoever loses an input to a later import is invalidated with all that depends on it. |
| `wallet_import` | WalletComplete | `f` pays two addresses, `a` spends the one and pays the other, `b` spends what `a` spends, none of them in the chain yet; two requests at a time, two calls, crashes or rollbacks, and the pruner | Whoever comes first, updateCoins or an import, the wallet has what is its own, after a crash and repeated calls too; of two transactions that displaced one another, the one that holds the coin is the wallet's. |
| `syncing_node` | RenewedInTime, OneWriter, TakenWhenStale, SyncGoesOn | two workers; one crash, one stop, one stall | The election. |
| `wallet_join` | RegisteredOnce, LookupsMatch, KeysKept, CopayersStay | a wallet of two and one of one copayer, two copayers, two requests, two keys to add | Creation, joins, new keys and removal at the same time, crashes between any two writes, late deletes of a lock: a copayer gets into two wallets only by a look-up that could not tell, look-ups and wallet agree, a granted key survives whatever runs together later, and nobody drops out. |
| `utxo_selection` | PaysInFull, NoneSuperfluous, PaysIfItCan, BestConfirmed, SendsMost | every wallet of up to five outputs of seven values, and of up to three outputs of sixteen kinds, three amounts | The selection against all subsets. |
| `eth_sync` | FollowsNode, TxsFollowBlocks, NonceOnce, SyncEnds | three stored blocks above the first one, two branches that leave them at different heights, one of them heavier at a lesser height than the other; two transactions with one nonce, one of them mined in two branches; one announcement, crash or error; updates that arrive late or never | The worker follows a node that changes its branch at every step, comes down to the first block, finds blocks half-imported and waits where the node is below it. |

Bounds and why they are enough. Two proposals over one output are the smallest
instance with a race. A selection that reads while a broadcast and its
settlement go on takes three requests, two of them outside the lock; the number
of copayers does not matter to an output, so `proposals_race` has a wallet with
one. It stops behind the first overwrite or stolen lock (`NothingSpoiled`): the
properties claim nothing beyond it, and the run with one proposal goes on. Once a lock has
been found expired it has two requests at a time, the robbed one and the one that is
let in, and no forgotten broadcasts (`OneAccident`). The run with one proposal
has no broadcast left out (`NothingForgotten`), since votes do not depend on what
a selection looks at. Two
requests suffice for a lost update, and a 2-of-2 wallet has both quotas,
acceptances after rejections and a proposal that waits for one more signature.
Three callers of the lock are the owner, the one that
takes over and the one that is late; `MaxClears = 2` allows one
`clearExpiredLock` to follow another; `LockTime` 1 or 2 and `WaitTime` 1 or 2
let a lock expire while others wait. The fork of `MCBlockSync` leaves the chain
after its third block, so that a rollback keeps locators; the transaction `t4`
is mined in both branches and `t3` spends what `t5` of the other branch spent.
Answers carry two headers, so a synchronisation takes several questions.
`MaxCrashes = 1` puts the crash between any two writes, and a crash in a
rollback leads to a second rollback. Symmetry is used only in runs that check
invariants and action properties, over requests, relays, copayers and keys
that nothing tells apart.

In `coins` an output that two transactions spend, one of which has another
input and a child, is the smallest graph in which invalidating one leads to a
second, and in which an input stays behind. `FewJobs` lets any two of block
import, two mempool imports and pruning overlap; a third only waits or repeats
one of the two. Behind a rollback the pruner runs alone. Behind a crash jobs come
one after the other, since the question is what the repeated import repairs, and a
pruner that was under way may still finish; only a rollback still meets what a peer
announces again to a process that has forgotten it. `wallet_import` has two
jobs at a time as well, of imports, requests and the pruner, which tags nothing
but leaves half-deleted transactions for a request to find; calls, crashes and
rollbacks are two together (`FewAccidents`): an address is added, and one more
thing happens. The double spend comes where what it spends is mined, while there
is one request and no accident (`FewRivals`). The chain starts empty, so that a
parent can be relayed late, its child follow it and the block come last.

`syncing_node` has `Lease = 4` and `StopWait = 2`, in the order of the code's
five minutes and five seconds; a longer lease only adds ticks in which the same
rounds are made. One stall of any length makes a heartbeat stale under a living
worker; one crash and one stop do so for a dead and a resigning one.

`wallet_join` has `MaxKeys = 1`, so that a third key is one too many; it looks
no further once two things have happened that the properties except, or two
locks are left behind (`FewAccidents`). Each exception therefore occurs in it, and
what comes after it, until the next. A wallet of one copayer is complete at
once, one of two copayers has a state in between, and a copayer can try both.

`utxo_selection` scales sizes and fees down so that five outputs are enough for
every threshold: a transaction may have four inputs, or three with the margin;
values lie below the fee of an input, around the dust limit, around the amounts,
and beyond the factor that makes an output big.

In `eth_sync` the branches `b` and `c` leave the stored chain at its first and
its second block. Their weights let the node change at the same
height, one higher, or below the worker's tip, at any step of the worker, and a
rollback may follow a rollback, down to the first block.
`MaxEvents = 1` puts one crash, error or announcement between any two steps, and an
update of `pruneMempool` may arrive late or be lost besides;
imports of announced transactions meet blocks and rollbacks, each of which touches
what the other reads, and an error leaves a half-imported block where the next
attempt looks for a parent. Without any one of the exceptions of `FollowsNode` the
run fails, so the instance reaches each of them; and so it does without those of
`NonceOnce` but two, a rollback that went astray and a block that took the place
of a half-imported one, which the proof needs and this tree does not reach.

In `wallet_addresses` two requests are a reader and a writer of the wallet; more
of them only lengthen the queue for the lock. With a gap of 1 and two main
addresses the gap can be exceeded. A scan gap of 2 makes a scan step over an
unused address to the one in use behind it (`Used = {1}`), as in a wallet
restored from its keys, and so does the large step of 2 that `FirstSteps`
begins with, which skips that address and inserts it behind the other. `FewScans` keeps to one scan at a time and that one
payment; the run stops behind a lost index or a cut insert (`NothingLost`),
where the properties claim nothing.

Deadlock is not checked: the systems come to rest, by design (nothing left to
request, bounds reached, in step with the peers).

Each module has one type invariant, `TypeOK` (`SelectionTypeOK` in `UtxoSelection`,
whose names differ from those of `TxProposals`). Nine of them are proved
(section 5), those of the other modules hold in the same instances; the runs
spend their time on the properties about hazards.

Every property of a passing run has a mutant in `PROJECT.json`: a definition
next to the original, such as a dropped guard, a missing reset or an
off-by-one, under which the property fails. They are marked `Mutant:` in the
modules.

Fairness. `WalletLock`: timers fire, the database answers, tasks end and
release. Nothing is assumed about who wins a free lock, and nothing makes
anybody call. `BlockSync`: the process is restarted when it is down, and as
long as the worker can proceed it does; the repeated question, crashes and new
blocks are never forced. This is what the process manager, the MongoDB driver
and TCP give. `SyncingNode`: timers fire, calls are answered, a process that stops
ends, and one that stalls wakes up; nobody has to start a worker, import a block
or fail, and `SyncGoesOn` asks for a worker that stays up. `EthSync`: the worker
goes on as long as the node and the database answer; the node need not mine, no
header has to arrive and nothing has to fail. The other modules have
no liveness property: a proposal waits for people, an address for somebody who
asks, and an import for a peer.

## 5. Proofs

`tlapm` checks all theorems from nothing.

| Theorem | States |
|---|---|
| `TxProposalsProofs!TypeCorrect` | `Spec => []TypeOK`, with what each waiting request holds |
| `TxProposalsProofs!VotesDecideAlways` | every stored document counts a copayer once and has the status its votes give |
| `TxProposalsProofs!NetworkQuorumAlways` | a transaction on the network has m different signers |
| `TxProposalsProofs!NeverTiedAlways` | a pending proposal has a copayer who has not voted |
| `TxProposalsProofs!OutputsReserved` | two live proposals never hold one output until a write overwrites what it has not seen or a late delete takes the lock from its owner |
| `TxProposalsProofs!SelectionFresh` | what a selection takes for free is free when it writes, with the same exceptions, and that of broadcasts `fetchBroadcastedTxs` returns no more |
| `TxProposalsProofs!DecisionsStandAlways` | votes and decisions are only taken back by such a write |
| `TxProposalsProofs!SelectionTyped` | `SelectionSpec => []SelectionTypeOK` |
| `TxProposalsProofs!PaysInFullAlways` | a selection pays the amount and the whole fee in a transaction of an allowed size and fee, and its change is worth an output unless the loop gave up too late |
| `TxProposalsProofs!NoneSuperfluousAlways` | a selection pays with none of its inputs left out |
| `TxProposalsProofs!PaysIfItCanAlways` | a request is refused only if no subset of the outputs can pay, but for deviations 19 and 21 |
| `TxProposalsProofs!BestConfirmedAlways` | a less confirmed output is spent only if no better confirmed ones can pay |
| `TxProposalsProofs!SendsMostAlways` | what `getWalletSendMaxInfo` offers has a size that fits into a transaction, and no subset of the outputs that fits sends more |
| `WalletLockProofs!LockTypeCorrect` | `Spec => []TypeOK` |
| `WalletLockProofs!LockExcludes` | without unreliable callers, mutual exclusion |
| `WalletLockProofs!LockIsKeptAlways` | without unreliable callers, no lock is taken away |
| `WalletLockProofs!LockRefinesMutex` | without unreliable callers, `Spec => IsMutex` |
| `WalletLockProofs!LockWaits` | LOCKED is never answered before waitTime, failures or not |
| `WalletAddressesProofs!AddressesTypeCorrect` | `Spec => []TypeOK` |
| `WalletAddressesProofs!GivenOnceAlways` | no address is answered twice until somebody replaces indices he has not read |
| `WalletAddressesProofs!NoneSkippedAlways` | what the wallet counts is stored, unless an insert has stopped at a duplicate |
| `WalletAddressesProofs!GapBoundedAlways` | the gap is exceeded by one for every other request at most, with the same exception |
| `WalletJoinProofs!JoinTypeCorrect` | `Spec => []TypeOK` |
| `WalletJoinProofs!RegisteredOnceAlways` | no copayer is twice in a wallet and no wallet has more than n; who is in two has joined one by a look-up that could not tell (`missed`); recreated and robbed wallets excepted |
| `WalletJoinProofs!LookupsMatchAlways` | when nobody writes a wallet, its look-ups are its copayers with their keys, unless it is `shared`, `interrupted`, `recreated` or `robbed` |
| `WalletJoinProofs!KeysKeptAlways` | a key answered by an addAccess alone at work stays valid until the wallet is removed, whatever runs together later; the look-up itself may be missing while it is rewritten, or after that was interrupted |
| `WalletJoinProofs!CopayersStayAlways` | nobody drops out of a wallet but by its removal, unless it is `recreated` or `robbed` |
| `BlockSyncProofs!SyncTypeCorrect` | `Spec => []TypeOK` |
| `BlockSyncProofs!ProcessedChainAlways` | the processed blocks are one chain until a late answer has been taken |
| `BlockSyncProofs!SyncRefinesChainStore` | `Spec => IsChainStore`: every step grows the chain at its tip, cuts it back or leaves it alone |
| `BlockSyncProofs!StoreMatchesChainAlways` | `Spec => []StoreMatchesChain`: after a synchronisation the coins and transactions are exactly those of the processed chain |
| `SyncingNodeProofs!ElectionTypeCorrect` | `Spec => []TypeOK` |
| `SyncingNodeProofs!RenewedInTimeAlways` | who renews without stalling is never taken for dead |
| `SyncingNodeProofs!OneWriterAlways` | two processes never import blocks, but for one that resigns in a block or has lapsed |
| `SyncingNodeProofs!TakenWhenStaleAlways` | a place is only taken when its heartbeat is stale |
| `CoinStoreProofs!CoinsTypeCorrect` | `Spec => []TypeOK` |
| `CoinStoreProofs!ConfirmedStandsAlways` | what the chain has mined and spent stands in the store, unless an update that was looked up before has hit it |
| `CoinStoreProofs!CollectionsAgreeAlways` | at rest, coins and transactions tell the same, but of transactions two jobs have worked on at once or whose import or update a crash has cut off (`disturbed`) |
| `CoinStoreProofs!PendingHoldsInputsAlways` | at rest, what is shown as pending has all its inputs to itself, with the same exception and that of what was imported without getting all its inputs or lost one to a rollback (`deprived`) |
| `CoinStoreProofs!WalletCompleteAlways` | `WalletSpec => []WalletComplete`: at rest a processed address has all its coins and transactions in the wallet, with the exceptions section 6 lists |
| `CoinStoreProofs!ImportsBesideRequests` | the three properties before it hold beside the requests of the API, too |
| `EthSyncProofs!TypesCorrect` | `Spec => []TypeOK` |
| `EthSyncProofs!FollowsTheNode` | at rest the processed blocks are one chain, but for the tip's parent, and the node's best block is one of them, unless a header was ignored, a rollback went astray or that block is the lower one |
| `EthSyncProofs!TxsFollow` | at rest the transactions are those of the stored blocks, unless a rollback was cut in two |
| `EthSyncProofs!NoncesUsedOnce` | at rest no rival of a mined transaction is pending, or mined in a processed block, once the update of `pruneMempool` is applied; but for what was stored after it, and for updates that are lost |

Assumptions, which TLC evaluates in the runs:

- numbers and sets: `WalletAssumption` (finitely many copayers, `1 <= m <= n`),
  `RequestsAssumption` (finitely many requests, which is what a gap can be
  exceeded by), `GapAssumption`, `StepAssumption` (steps are positive, and each
  is smaller than the last), `BoundAssumption`, `SizeAssumption`,
  `MaxKeysAssumption`, `DataAssumption`;
- times: `LockValuesAssumption` and `LockAssumption` of `WalletLock`, and
  `LeaseAssumption` of `SyncingNode`: a resignation takes less than a lease, as 5 s and
  5 min do;
- `TreeAssumption` of `BlockSync`: every block has a parent or is the first one, and
  a height one above its parent's;
- `BranchAssumption` of `BlockSync`: of every branch the peers have verified that a
  transaction is on it once, that no coin is minted or spent twice and that none is
  spent before it is minted; `processBlock` trusts them and checks none of it. The
  branches of a fork may share and double-spend as they like;
- `BatchAssumption` of `WalletImport`: the requests are lists of addresses;
- `CoinAssumption` of `CoinStore`: a coin is minted by one transaction, the first
  block spends nothing (its coinbase is left out), and the jobs have different names;
- `TreeAssumption` and `NonceAssumption` of `EthSync`: a tree of blocks, in which
  every block is one higher and heavier than its parent, and on whose branches a
  nonce is used once, which is what the node verifies. Nothing is assumed about
  two branches, nor that there are finitely many blocks;
- `UnitAssumption`, `ThresholdAssumption` and `OutputsAssumption` of `UtxoSelection`:
  rates and sizes are positive, the factors natural numbers; one input fits into a
  transaction, an output to be paid is worth `MIN_OUTPUT_AMOUNT` at least (`checkDust`
  refuses others), a big input brings at least twice the amount
  (`UTXO_SELECTION_MAX_SINGLE_UTXO_FACTOR` is 2); a wallet has finitely many outputs
  and their numbers tell them apart. No relation between the thresholds, the rate
  and the amounts is assumed beyond these;
- names: None is no document (`NoneAssumption`, `NameAssumption`), no request is called like a
  lock that nobody has (`LockAssumption` of `WalletJoin`), Nothing is neither an error
  nor a number (`NothingAssumption`).

*Votes.* `VotesDecide` alone is not inductive: a write stores what a request
has read long ago. `VotesInv` adds what each request relies on
(`RequestVotes`): its document was consistent when it was read, the voter is
not in it, and a broadcast starts from an accepted document. This is why lost
updates cost votes but never mix them. The arithmetic is `Quotas`: a pending
document in which everybody has voted would need fewer than m acceptances and
fewer than min(m, n - m + 1) rejections, which together are fewer than n.

*Reservations.* `ReservationInv` says of every request that selects outputs
what its reads have shown so far. Between the second and the third read every
pending proposal is in the list just read (`Covered`), and one that is settled
meanwhile is found by the third read, since what has just been broadcast is not yet
`past`; after it none of the outputs taken for free is held (`Fresh`). No other call can spoil this, because
whatever makes a proposal live runs under the lock (`LockOwner`: a locked
request that is under way owns it, until one is robbed), while the unlocked calls only move a
proposal between pending and broadcast, or overwrite. All of it is claimed while
nothing is overwritten and nobody robbed; the votes and decisions do not need the lock at all. `TwinsBroadcasted` is
what a deletion needs: the document that comes to the front is settled.

*Decisions.* `DecisionInv` adds that a twin has the votes of the document in
front of it (`TwinsAgree`), since a deletion replaces the one by the other. An
unlocked write that has seen the current document appends one action or moves
the status forward; every other unlocked write sets `overwritten`.

*Lock.* `MutualExclusion` needs that the document is the holder's and has not
expired: `ExclInv` says that without failures a lock document exists exactly
while somebody holds, with `age = held`, and that no `clearExpiredLock` is
past its `findOne` (`deletes = 0`). The refinement follows: only `Acquire` and
`Release` change the holder. `WaitInv` ties `timeLeft` to the ticks that have
passed.

*Addresses.* A request holds a whole wallet for a long time, and may write it
however old it is. `HoldsFit` says why that skips no address: in whatever is held
the addresses below each index are stored, but for those it is about to insert
itself, and stored addresses stay. `DerivedFit` ties the address to the index
that follows it, so whoever writes over the index he has seen makes his answer
the only one (`Answers`). For the gap, the invariant has to look ahead: a
request that waits for the activity of addresses may go on because of a payment
that has not been made yet. `GapKept` therefore bounds, for every set `X` of
addresses that might be paid, the unused addresses behind `X` and the requests
that would pass: whoever would pass because of an address in `X` has seen
fewer than Gap addresses behind it (`LatestOnes`). `ListsFit` says that a scan's last
address is in use (`ScanEndsInUse`), so a scan adds nothing at the end.

*Wallets and copayers.* What a join is about to write is the wallet of now with
one more copayer (`JoinsFit`: it owns the lock unless it was robbed, and an
addAccess, which does not, leaves the copayers as they are); what an addAccess
writes has the copayers of now, all of them, since nobody can join a complete
wallet (`AccessFits`). `Together` says that the histories know who has been at work
on one wallet at once: in a wallet that none of them excepts, somebody who is
half-way through his writes is alone there (`HalfDoneExcludes`), so the look-ups
are those of the document, or of what he is about to store (`LookupsFit`).

For `KeysKept` none of this may be assumed, since it holds of shared and robbed
wallets as well. `GrantsFit` says that an answered key is in the wallet and in
whatever anybody is about to write there. It becomes true with the answer, because
that addAccess was alone (`Together`), so that nobody has an older copy and its
look-ups are still there (`AloneFits`), and from then on every copy is made from a wallet that has the key; two addAccess calls that
lose a key lose their own.

`HeldOnce` counts copayers that have been looked up and are about to be written as
well. A join keeps it because, unless its copayer was `InDoubt`, every wallet he
belongs to has a look-up of him (`LookedUp`), and the join would have found it. Two
joins of one copayer that overlap, each with the lock of its own wallet, do get
him into both; that is in `missed`.

*Block store.* `OneChain` is inductive together with what the worker is about to
do: a block that is being imported comes on top (`CurrentFits`), because what is on
the wire leads up the tree from a processed block (`Shape`), until an answer comes
late. `TrueHeights` says that heights are counted right though `processBlock`
reads them from the previous document. The refinement reads the steps off this:
`MarkProcessed` grows the chain, the deletion of blocks cuts it back, nothing else
touches it.

For `StoreMatchesChain` the invariant is `DataInv`. It holds in the middle of every
import and rollback, unlike the property, so it must say what a block that a crash
has left half-imported does to the rest. `Justified` goes from the documents to the
blocks: whatever is stored, a stored block has brought, processed or not. `Complete`
goes back: a processed block has all its mints and transactions, and its spends but
for those that a left-behind block at its height or below has made first
(`HasSpends`; `streamSpendOps` does not overwrite them). That such a block is never
higher is the point: whoever rolls it back rolls the other back too, so the wrong
spend does not outlive the block that hides it. While a rollback runs both speak of
what is below its height (`Stays`), and `UndoneSoFar` says what each of its three
parallel deletes has done. A rollback that is cut off leaves documents that no
block has brought, which is why the property excepts `torn`.

*Election.* A queued registration that would still match is due no sooner than
the heartbeat is stale, and a primary one that matches is its owner's
(`RegistrationsMatch`), so `TakenWhenStale` needs no more. `Renewed` measures the
round of a worker that does not stall, and `SyncingLeads` says that whoever
imports blocks owns a heartbeat that is fresh, or has lapsed.

*Coins.* `SpentFit` says whose a spend with a height is: of a block of the chain,
of the one whose import has begun, or of one that is being rolled back.
`BlockStands` says how far that import has got, and `ChainStands` what it leaves;
both rest on a coin having one minter and a valid block coming behind what it
spends. No mempool import can touch these heights (`toMempoolSafeUpsert`, the
spend filter), and an update that would is in `disturbed` when it hits.

For `CollectionsAgree` the heights are read as a rollback will leave them
(`KeptHeight`, `KeptMint`: what is above the tip counts as gone), so a
transaction of a removed block agrees as soon as the block is taken off the
chain, though its coins and its document are deleted one after the other. The two
updates of `Mark` are the other pair of writes: between them `Settles` says of
the half that is done what the other half will make equal, which differs for
`removeOldMempool`, the only one that looks at the document again. At most one
job is between its halves over a transaction that is not disturbed. What a relay
imports is described by `RelayAt`: its outputs are stored before it is, and
nothing in between changes either. `MinedFit` says that no document has a height
but through a block. This proof has found the last case of deviation 17, which
the instance had been too small to reach.

`PendingHoldsInputs` speaks of what is at rest, so `HoldInv` says it of every
transaction that is `Shown`, or will be once a relay has written it, and is not
`Leaving`: about to be mined, disturbed or deprived (`Impaired`), or hit in its
coins but not yet itself.
The walk through the descendants is `WalkFit`: who holds an output that the look-up
has read is among those found. So when the update hits the coins, everybody who
loses an input goes with them; when it hits them second, `HitFit` says that he has
gone already. A spend that comes between the look-up and the update breaks this,
and puts its transaction in `deprived`. That an import overwrites nobody's spend
but of those it has invalidated is `RivalFit`: from its look-up to its own spends,
whoever holds an input of it is among those it has still to invalidate or is
invalidating; what has left them is marked, and what comes later has `Crossed` it.
`RelayFit` is used again: what a rollback deletes, or an update has half hit, no
relay is about to store.

*Wallets.* A request writes only tags, addresses and where it is, so `NodeInv`, the
invariant of `CoinStore`, holds beside it (`TagsOnly`, `RequestWrites`), and the
proof of `WalletComplete` may use it in the steps of the node. `WalletInv` says of
requests under way what the property says of addresses that are processed. An
address is `Covered` from the update of its coins on, and has `Reached` a
transaction once the request has tagged it or has not found it among the `Txids`. A
stored coin of a covered address has its tag, unless its minter is in `Stale`:
lagging, or in a block whose import has not minted (again) yet (`CoinTags`). A
stored transaction that pays or spends from what has reached it has its tag
(`TxTags`), and so has what an import is about to write (`TaggedFit`), since it has
found every known address its transactions pay (`FoundFit`): an address that becomes
known later makes them `lagging`.

Where a tag is copied from a coin, one of these invariants breaks unless `lagging`
is closed under spending: this is how the proof found that what spends the coin of
a late import stays without its tag (`Heirs`), and that a conflicting transaction
does when a peer announces it again. The instance had been too small for both; it
now reaches the first. The second takes some 38 steps, which a run of that size
does not finish, so that exception rests on the proof and on reading the code.

*Account-based chains.* `Line[b]` is the least set that has `b` and every parent, so
that a property of the whole branch is proved by naming the blocks that have it.
No two processed blocks have one height (`Ranked`), because a block is only marked
when it is higher than all others (`Topped`): the tip is then a processed block.
`Shaped` says what the processed blocks are: nothing, or a block on its whole
branch, or on its branch without its parent. There is never a second hole: what
`validateLocatorHashes` passes is a whole branch (`NothingMismatched`), or else it
deletes from the hole on before `handleReorg` looks at the new block, which takes
away one parent at most. `UpToDate` follows the node's height from the question to
the block that is asked for: while no header has come in between, the block of the
last height is the node's best one.

For the transactions, `TxsGone` and `BlocksGone` say which of the two parallel deletes
has run; `Backed` and `Followed` are the two directions of `TxsFollowBlocks` with these
exceptions. That the import of a block takes no transaction from another processed
one needs `Shaped` and `NonceAssumption`: what is processed beside the block is on
its branch. `Alone` says of every processed block, and of the one whose
`pruneMempool` is done, that its rivals are not pending, as far as its updates are
applied (`Due`); an insert behind the update is raced, which is seen from `Followed` for a block that is marked, and from the
running import for one that is not (`BeingMined`).

The proof corrected the model: `FollowsNode` and `TxsFollowBlocks` had held only
because no instance had a fork at the first block, a block left half-imported below
a fork or a heavier but shorter branch (deviations 22, 27 and 28). The instance has
the last two now, comes down to the first block, and showed that `SyncEnds` has the last exception too.

*Selection.* What a set of outputs is worth is a fold of the community modules. The
prover cannot use the induction theorems of the library, which have an operator as
a parameter; `LeastNat` gets induction from `WFMin`, which has none, and
`SubsetInduction` takes the set of the subsets for which a fact holds where the
library takes the fact. With it, the function the fold chooses exists and is unique
(`SumsExist`, `SumsAgree`), and any output may be taken out of a sum (`ValueAdd`).

That a sorted loop does as well as any subset is `GreatestBest`: no n outputs are
worth more than the greatest n, since whoever takes the smallest could take one he
has left out. The fee depends on the number of inputs only, so the same holds of
what remains after it, and outputs that cost more than they bring can be dropped
(`EconomicPay`). `SelectSound` puts this together for one group: the first n of the
loop that pay cannot do without any of them (`GreatestNeeded`), and if it ends
without them, either a big input pays alone (`BigFound`), or the limit on the size
has ended it before any number of inputs that would have paid (`SmallRefused`). The
wrong sign (deviation 20) refuses nothing, because the true fee leaves even less
(`NetTooLittle`). Over the groups, the invariant `Selection` says that each but the
last was explored in vain, and that what the request holds is the outcome of the
last: also if that group was skipped, for then it has the candidates of the one
before (`MoreCandidates`), and at the end all outputs have been candidates
(`LastGroup`). `SendsMost` follows from the same lemmas, and from rounding leaving
the order of what remains (`RoundOrder`).

The proof corrected the model here, too: a change of exactly `MIN_OUTPUT_AMOUNT` is
left by a big input and is no dust, and `GaveUpTooLate` had looked at the group
without confirmations when it is not explored.

Only model-checked: all liveness (`Answered`, `LockFreed`, `CatchesUp`,
`SyncGoesOn`, `SyncEnds`), which is out of the prover's reach.

## 6. Deviations

What the code does that its properties have to except; each exception is a
history variable or a named condition of a module.

Proposals, lock and addresses:

1. *A late write brings a proposal back.* `signTx`, `rejectTx` and `broadcastTx`
   read and write without the lock, and `storeTx` upserts. A proposal removed in
   between comes back as pending while its outputs have been promised to another
   one (`overwritten` in `TxProposals`).
2. *The monitor's write misses.* `_handleThirdPartyBroadcasts` passes
   `this.walletId`, which a `BlockchainMonitor` never has: a second document is
   inserted and the proposal stays accepted, until `getPendingTxs` settles it
   (`twins`).
3. *A stale clearExpiredLock.* Two callers find the lock of a dead process
   expired; the second delete removes the lock that a third one has acquired
   since (`bws/storage.ts:1637-1652`: a `findOne`, then a delete by key).
   `MutualExclusion` and `LockIsKept` are claimed for reliable callers only. After a
   crash, then, two publishTx may check their outputs at the same time and
   both reserve one, and of two joins of one wallet the second to store drops the
   copayer of the first (`robbed`).
4. *An index put back.* `getBalance` and `getTxHistory` write the wallet they have
   read without the lock when they register it. An index that createAddress has
   moved in between goes back, and after a payment to its address the next call
   answers the same address again (`overwritten` in `WalletAddresses`).
5. A scan that meets a stored address inserts nothing behind it (`insertMany` is
   ordered, `bws/storage.ts:798`), takes the duplicate for success and moves the
   index on (`cut`).

*Forgotten broadcasts*, without a number: a selection knows of the broadcasts of a
day, and of a hundred of them. If the explorer does not have a transaction by then,
its inputs are offered again (`past` in `FreshSelection`).

Wallets and copayers (`WalletJoin`):

6. One copayer may join two wallets, which `test/integration/server.js:1104`
   ("should fail to join two wallets with same xPubKey") rules out for joins one
   after the other. Two joins at once look him up before either has inserted his
   look-up, under the locks of two wallets (`bws/server.ts:869`). And
   addAccess deletes and inserts the wallet's look-ups without the lock: between
   the two, valid copayers are answered NOT_AUTHORIZED and may join elsewhere (both
   `missed`).
7. A crash between the delete and `storeWallet` leaves the copayers without
   look-ups for good, since every later call starts from one (`interrupted`).
8. Two addAccess at once lose one of their own keys (so neither is in `granted`), or
   exceed the limit, which is MAX_KEYS + 1 (the check at `bws/server.ts:965` is `>`);
   their deletes and inserts may leave look-ups that differ from the document
   (`shared`). A look-up without a copayer in the wallet makes addAccess throw.
9. Its upsert revives a wallet that was removed meanwhile, and of two
   createWallet with one id the second replaces the wallet others have joined
   (`recreated`).

Synchronisation (`BlockSync`, `SyncingNode`):

10. *Leftovers of an interrupted block.* A crash in the middle of a block, then a
    competing block of the same height: nothing rolls back the half-imported one,
    and what it spent stays spent (`LeftBehind`). A rollback interrupted between
    its deletes and the last update leaves coins spent by removed transactions
    (`torn`).
11. *Late headers.* One answer slower than a second shifts all later answers by
    one question; the worker then removes and adds blocks for ever (`late`).
12. With a chain of a single block, `getLocatorHashes` asks for everything and
    the worker removes and adds that block for ever; `CatchesUp` excepts it.
13. After a stall of more than five minutes the error 'Syncing Node Renewal
    Failure' is not thrown: `wasSyncingNode` is computed from the remembered
    heartbeat, which is stale by then. The worker goes on synchronising beside
    the one that took over (`lapsed`). `sync()` looks neither at `isSyncingNode`
    nor at `stopping`, so a worker that resigns in the middle of a block may
    overlap with the next one ("leaving" in `OneWriter`).

Coins (`CoinStore`, `disturbed` and `deprived`):

14. The updates of pruneMempool and clearInvalid have no filter on the height. A
    transaction mined since the look-up is marked as conflicting, of which
    `node/types/Coin.ts:41` says that it can no longer confirm.
15. The second input of an invalidated mempool transaction stays pending, and is
    offered to nobody.
16. A mempool import does not look whether it gets what it spends. A transaction
    announced after a block has spent its input, or at the same time, is stored as
    pending with nothing reserved; so is a child announced after its parent has
    conflicted, or before its parent is stored.
17. A rollback deletes coins with their pending spends. When the parent is mined
    again the child is in invCache and not imported again. A restart empties
    invCache, so a transaction of a removed block may be announced in the middle of
    the next rollback: its coins are deleted behind its import (`RollingBack`).
18. A crash between the two parallel updates leaves a transaction marked in one
    collection only; nothing repairs it.

Imports (`WalletImport`): a transaction whose import has asked for wallets
before an address was added, and writes after updateCoins has passed, stays
without the wallet's tag until a block imports it again (`lagging`); so may one
that the pruner deletes by halves while it is being updated (`disturbed`). What
spends the coins of such a transaction in the meantime is tagged by the tags the
coins have, which is not at all; the block that imports the parent tags its
coins, but the child only gets its tag when it is mined itself (`Heirs`). And a
conflicting transaction that a peer announces again to a restarted process
reserves coins but is stored already, so its document keeps the tag it had:
`WalletComplete` says nothing of what conflicting transactions spend. The comment at
`node/models/walletAddress.ts:107` says "Ignore duplicate keys, they may be half
processed", which needs an unordered insert, but `{ ordered: false }` (line 105)
is the second operand of a comma expression and never reaches `bulkWrite`: the
insert stops at the first duplicate, the addresses behind it are not stored, and
the request goes on as if they were (`dropped`).

Selection (`UtxoSelection`, `GaveUpTooLate`):

19. The loop may give up at the very input with which it reached the amount. The
    selection is then used without folding its change, which may be below
    `MIN_OUTPUT_AMOUNT` (`common/defaults.ts:206`), or is refused by `checkTx`
    although a big input would have done.
20. The fee of all inputs is added where it should be subtracted
    (`bws/chain/btc/index.ts:569`); the loop behind catches it, and only the
    error that is answered changes.
21. `checkTx` estimates the size with a margin the selection did not have, and
    `getBitcoreTx` refuses a fee above `MAX_TX_FEE`. What is refused for either
    reason is not tried with the next group, nor with a big input, whose fee may
    be small enough (the last two exceptions of `PaysIfItCan`).

Account-based chains (`EthSync`):

22. `handleReorg` deletes the parent of the new block together with what is above
    it, answers that nothing is to be given up, and the block is imported over
    the hole. Readers miss the parent until the next block, when
    `validateLocatorHashes` notices (`FollowsNode`). If the parent is the first
    block it never comes back, and a worker whose tip is the first block, or who
    has none, imports whatever he is given (`astray`).
23. A header is ignored while `sync()` runs, and the height is asked for again
    only behind the last block: the worker rests behind the node, or on a branch
    that the node has left at the same height, until the next header (`missed`).
24. `pruneMempool` looks once for the rivals of a mined transaction, beside the
    upserts, and not at all during the initial synchronisation. A rival that is
    stored later stays pending (`raced`). It writes with `w: 0`
    (`modules/ethereum/models/transaction.ts:240`): the import goes on before the
    update is applied (`sent`), and nobody sees when it fails (`lost`).
25. A transaction that was mined between its announcement and `getTransaction` is
    stored with the height the node tells, though the block may never be
    imported (`early`).
26. A failure in the middle of a block that the node then drops leaves the block,
    unprocessed, and its transactions; one between the two deletes of a rollback
    leaves the transactions of removed blocks, or blocks without theirs (`torn`).
27. `handleReorg` looks for the new block's parent among all stored blocks, also
    those that a failure has left unprocessed. It then deletes from that one on and
    imports the block over what is below, which may be another branch, until
    the next block's `validateLocatorHashes` (`astray`).
28. A best block below the worker's tip is not looked at: `sync()` asks for heights
    from the tip on, so a branch that is heavier but shorter is followed when it
    has grown (`FollowsNode`). A synchronisation under way asks for the height the
    node had until the branch has it as well (`Awaiting` in `SyncEnds`).

Met while reading, not part of a model: `test/integration/server.js:9746` and
`:9781` speak of a 24 hours delete lock, `common/defaults.ts:9` makes it 600 s.

## 7. Not modelled

The components with status `not_modelled` in `PROJECT.json`, with reasons there.

- *Account-based coins*: a nonce is what the explorer answers when the proposal
  is stored. Nothing reserves it, so a property about two proposals with one
  nonce would be false at once, and the node refuses the second transaction.
- *Events, cache, notifications, fiat rates*: values and messages that nothing
  in the repository relies on to arrive in order, or at all.
- *Cryptography, encodings, wire protocols, HTTP layers, adapters, user
  interfaces*: pure functions or pure I/O. They make up most of the repository
  (five copies of the bitcoin library among them), which is why the mapped lines
  are a small share of all lines.

Left out of modelled components: fork chains with a parent chain, batches above
`MAX_BATCH_SIZE`, tasks that outlive their lock (except scans), inputs and fees
named by the caller, BIP45 copayer branches, and the notifications of the
blockchain monitor.
