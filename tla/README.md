# A verification project for Agenor

Agenor is a full node of a proof of stake currency with masternodes, in C++
(a descendant of PIVX, DASH and Bitcoin Core). This directory holds TLA+ models
of its core, TLC configurations that check them on small instances, and TLAPS
proofs. File names without a directory are files of `src/src/`.

- [The system](#the-system)
- [The modules](#the-modules)
- [The runs](#the-runs)
- [Fairness](#fairness)
- [What is proved](#what-is-proved)
- [Where the code and its comments disagree](#where-the-code-and-its-comments-disagree)
- [What is not modelled](#what-is-not-modelled)
- [Plan](#plan)

Run a configuration with `tlc -workers 2 -config X.cfg M`, and check the proofs
of a module with `tlapm M.tla`, for each `M` whose name ends in `Proofs`.

## The system

A node keeps a tree of blocks and an active chain in it, the unspent coins at
the tip of that chain, and a pool of unconfirmed transactions. Threads for
sockets, messages, RPC, staking and periodic work share this state under one
large mutex, `cs_main`, and a few small ones. On top of the chain there is a
layer of masternodes: nodes with a deposit that vote for payments, budgets and
transaction locks. Its state is in global maps that several threads touch, some
of them without a lock.

| Component | State | Operations | Interacts with | What makes it hard | What makes it correct |
|---|---|---|---|---|---|
| Coin views (`coins.*`, `txdb.*`) | a stack of caches over a database; per entry a coin and the flags DIRTY, FRESH; best block; memory usage | fetch, add, spend, uncache, flush | opened by ConnectBlock and DisconnectBlock, flushed by FlushStateToDisk | laziness: a wrong flag shows only after a later spend and flush; the process may die, a write may fail | the stack behaves as a plain map; the database is always a committed state with its own block |
| Script check queue (`checkqueue.h`) | a stack of checks, three counters, a verdict | Add, Wait, worker loop | ConnectBlock is the master, script threads are the workers | threads, two condition variables | the verdict is that of all checks; no wake-up is lost; the queue is idle between blocks |
| Block tree and active chain (`main.cpp`, `chain.*`) | block index with flags, candidates, blocks waiting for a parent, tip, dirty entries, two databases | accept a block, activate the best chain, invalidate, reconsider, flush, load | moves the coin views; called by message handling, RPC and staking | blocks out of order, failures in the middle of a reorganisation, release of `cs_main` between steps, crash between two writes | the best valid chain is active and never forgotten; what is on disk can be loaded |
| SwiftTX (`swifttx.*`) | requests, rejected requests, votes, locks, locked inputs | request, vote, expire, clean up | consulted by the mempool and CheckBlock; may reprocess blocks | messages in any order, conflicting requests, clean-up by a timer thread | only a quorum of different masternodes completes a lock; locks end; blocks are refused on consensus only |
| Masternode list (`masternode.*`, `masternodeman.*`) | list of masternodes with a status, broadcasts and pings seen, who was asked for what | broadcast, ping, check, remove, rank | payments, budget and SwiftTX take ranks and keys from it | timers against late pings, several maps that must agree, a broadcast that failed is remembered | a dead masternode leaves the list, a live one is always let in again |
| Active masternode (`activemasternode.*`) | status of this node's own masternode | ManageStatus | masternode list | retries | reaches STARTED once its conditions hold |
| Masternode payments (`masternode-payments.*`) | votes and their tally per height, last vote per masternode, `mnpayments.dat` | vote, count, clean up, fill and check a block's payment | CheckBlock, block creation, masternode list | a vote is inserted and counted in two steps, several threads, restart | a tally is the number of votes; a block the node makes passes its own check |
| Masternode sync (`masternode-sync.*`) | stage, attempts, times and counts of items | Process, messages, reset | gates most of the masternode layer | timeouts against late answers | reaches FINISHED, and starts again after a failure |
| Budget (`masternode-budget.*`) | proposals, votes, orphan votes, finalised budgets | add, vote, finalise, clean | payments | orphans, votes out of order | one vote per masternode; a finalised budget has enough votes |
| Sporks (`spork.*`, `sporkdb.*`) | active value per spork, database | message, set, load | switches features on and off everywhere | old values that arrive late, restart | the newest signed value wins |
| Memory pool (`txmempool.*`, AcceptToMemoryPool) | transactions, spent outpoints, links to parents and children, totals per package and of the pool | accept, expire, trim, remove for a block, put back, purge after a reorganisation | chain state, coin views | reorganisations enter transactions below those already there; several indexes must agree | the indexes and totals are exact; every input is available; what is in the pool can be mined |
| Message processing (the message handlers of `main.cpp`) | blocks in flight, headers, peers' states | handlers of messages | chain state, network | stalling peers, timeouts | every announced block is fetched once |
| Address manager (`addrman.*`, `addrdb.*`) | entries, two tables of positions, reference counts, order for random choices, collisions to test, `peers.dat` | add, good, resolve collisions, select, dump, load | connection threads, message processing | five structures that must agree after any sequence; ids that outlive entries | what Check_ tests; a dump restores the tables; no address tried with success makes way for one that was not |
| Network (`net.*`) | connections with reference counts | connect, evict | message processing | threads, counts | no node is deleted while used |
| Scheduler (`scheduler.*`) | a queue of timed calls | schedule, serve, stop | periodic work | condition variable, stop and drain | a call is run once; stop ends the threads |
| HTTP and RPC server, wallet, staking, zerocoin, script, GUI | | | | mostly I/O, arithmetic, cryptography | |

`PROJECT.json` lists the components with their source files and, under
"hazards", the places where this code is hard to test.

## The modules

| Module | Models | Actions and the functions they are |
|---|---|---|
| `CoinsLedger` | what the coin views promise: three plain maps, on disk, at the tip, and in the block being applied | `Create`, `Spend`, `SetBest`, `Commit`, `Discard`, `Persist`, `Crash` |
| `CoinsCache` | a block's view over `pcoinsTip` over the database | `ViewAccess` (GetCoin, HaveCoin, AccessCoin, FetchCoin), `ViewAddCoin`, `ViewSpendCoin`, `ViewGetBestBlock`, `ViewSetBestBlock`, `FlushView` (Flush and CCoinsViewCache::BatchWrite), `DropView`, `TipAccess`, `TipUncache`, `FlushTip` (CCoinsViewDB::BatchWrite), `Crash` |
| `CoinsFlushFailure` | the flush of `pcoinsTip` when the database write fails, and the flush at shutdown | |
| `CheckQueue` | CCheckQueue and CCheckQueueControl | `EnterLoop`, `FinishBatch`, `WakeUp` are the critical sections of Loop; `Add`, `Wait`, `MakeControl`, `SpuriousWake` |
| `ChainState` | the block tree, the candidates and the active chain | `AcceptStored`, `AcceptInvalid`, `AcceptRejected`, `AcceptDuplicate` (ProcessNewBlock and AcceptBlock by outcome), `FindMostWorkChain`, `DisconnectTip`, `ConnectTip`, `ConnectInvalid`, `StepFails`, `StepFlushFails`, `TestLoop` (ActivateBestChain and its step), `BeginInvalidate`, `InvalidateTip`, `InvalidateFails`, `EndInvalidate`, `ReconsiderBlock`, `ReconsiderCheckpoint`, `PeriodicFlush` (and the flush at shutdown), `PeriodicFlushFails`, `CrashAndRestart` (LoadBlockIndexDB) |
| `SwiftTX` | transaction locks | `AcceptRequest`, `RejectRequest` ("ix"), `CountVote`, `DropVote` ("txlvote"), `LocalRequest` (wallet, sendrawtransaction), `Expire`, `CleanTransactionLocksList`, `AcceptTx`, `Block` |
| `MemPool` | the memory pool and what fills and empties it | `AcceptToMemoryPool`, `Expire`, `Trim`, `TrimDone` (LimitMempoolSize), `DisconnectTip`, `ResurrectAccept`, `ResurrectRefuse`, `ResurrectDone` (its loop over the block), `UpdateTransactionsFromBlock`, `TipDisconnected`, `ConnectTip`, `RemoveForBlock`, `RemoveConflicts`, `StepDone`, `StepFails`, `InvalidateDone`, `ReplayDone` (the callers), `RemoveForReorg`, `PurgeOne`, `PurgeDone` |
| `AddrMan` | the address manager and `peers.dat` | `Add`, `MarkGood` (Good_ and MakeTried), `ResolveCollisions`, `SelectTriedCollision`, `GetAddr`, `Restart` (Serialize, Unserialize), `RestartUnreadable` |
| `MasternodePayments` | payment votes and their tally | `MNWinner` (the handler up to CheckSignature), `NewBlock`, `ProcessBlock` (the node's own vote), `InsertWinner`, `AddPayee` (AddWinningMasternode inside and outside its locks), `DisconnectTip`, `Clean`, `Restart`, `Crash` |
| `MasternodeList` | one masternode in the list of one node | `MNBroadcast` (up to CheckAndUpdate), `CheckInputsAndAdd`, `MNPing`, `CheckAndRemove`, `GetMNList`; around the node `StartMasternode`, `StopMasternode`, `SpendCollateral`, `PeerSends`, `LoseBroadcast`, `Tick` |

The theorems about a module `M` are in a module of their own, which extends it:
`CoinsCacheProofs`, `CheckQueueProofs`, `ChainStateProofs`, `SwiftTXProofs`,
`MemPoolProofs`, `AddrManProofs`, `MasternodePaymentsProofs`, `MasternodeListProofs`.

The `MC` modules give the constants their values. Definitions whose comment
begins with "Mutant" are broken variants of the definition below them: putting
one in its place must make TLC find a violation, which shows that the property
depends on that piece of code.

Choices that matter:

- **CoinsCache.** `cachedCoinsUsage` is one number in the code. Every statement
  that changes it adds or subtracts the usage of one coin, so the model keeps a
  share per outpoint; the number is the sum. If every share is exact the sum
  is. A spent coin uses nothing, since `CScript::clear` gives its memory back.
  `ViewAddCoin` is called with `possible_overwrite` false and only where the
  view shows no unspent coin: AddCoins runs after the check for unspent outputs
  of the same id, ApplyTxInUndo restores a spent input.
- **CheckQueue.** A critical section of the mutex is one step. Running the
  checks of a batch outside the mutex has no effect on shared state, so it is
  one step with the report that follows. `fQuit`, which nothing sets, is left
  out. A block has at most `nMaxInputs` checks, far fewer than the unsigned
  counters can hold.
- **ChainState.** A step lasts from one point to the next at which another
  thread or a crash can see the state. `cs_main` is `lock`. The consensus rules
  are constants: `BadContext` for blocks that ContextualCheckBlock refuses,
  `BadConnect` for those ConnectBlock refuses. A system error (a full disk, an
  unreadable undo file) may happen where `Faults` says. `disk` is the block tree
  database and the best block of the coin database: a crash may fall between
  their two batches, and each batch is atomic. `coinsBest` is the best block of
  `pcoinsTip`, which `view.Flush()` moves before ConnectTip and DisconnectTip
  call FlushStateToDisk, and these move the tip only when that succeeds. So an
  error before `view.Flush()` changes nothing (`StepFails`), while a failed flush
  leaves the coins a block away from the tip (`StepFlushFails`, `InvalidateFails`).
  It fails before anything is written, after the block index is, or when
  WriteBatchSync throws: setDirtyBlockIndex is empty by then and the entries stay
  in memory only (`lost`, history). A thread that finds the coins elsewhere than
  at the tip fails an assertion (`CoinsAtTip`): the process ends, which is
  `CrashAndRestart`. It starts again if `Starts` holds of the disk; what else it
  takes, -reindex, is not modelled. That a failed write of the coins loses coins
  is the subject of `CoinsFlushFailure`. `Address` is the address of a
  CBlockIndex, by which CBlockIndexWorkComparator breaks ties after a restart.
  The work of a block's chain is a constant that grows from parent to child.
  `Ancestors` is the least set with the block that has the parent of each of its
  members: the same set as a walk along `pprev`, in a form that proofs can use.
  `gaveUp` is history too; some properties make an exception for what it records.
- **SwiftTX.** A handler is one step. A masternode's rank and signature decide
  between `CountVote` and `DropVote`. The votes of a lock are a vector, in which
  nothing but the seen votes keeps a masternode from being counted twice. Whether a request is accepted depends on
  the mempool, the chain and the locked inputs (`Acceptable`), or on a reason
  outside the model (`RejectRequest` is always possible). A mined block has one
  transaction that matters. `DoConsensusVote` never votes, as in the code
  (see below), so votes are those of other masternodes. Spork 3, which switches
  the filter of CheckBlock on, is on. `hollowReq` are the keys that
  `mapTxLockReq[hash]` creates with an empty transaction. `byConsensus` is
  history: the inputs that a complete lock has locked.
- **MemPool.** One step per iteration of a loop. In some of the loops
  `CTxMemPool::cs` is released in between and readers see the state; for those
  that hold it throughout the steps only add states that nobody sees. The three totals of a package
  change together, so `pkg[t][u]` counts how often transaction u is included in
  those of t. The search of UpdateTransactionsFromBlock with its limit
  (`MaxToVisit`) and the dirty entries it leaves are modelled. A block is
  connected only if each of its transactions is new and spends coins that are
  there (`ConnectBlock`). Ancestors and descendants are least closed sets
  (`Closure`), which is what the searches of the code end with.
- **AddrMan.** A public function holds the lock for its whole body and is one
  step. Time stamps are a free choice wherever they decide a branch
  (IsTerrible, the test of an old tried entry). Bucket hashes are constants,
  chosen so that nearly everything collides. The loops of ResolveCollisions_,
  GetAddr_, Unserialize and its pruning are `Loop`, a recursive function of the
  round. The limit of references in Unserialize needs no test: `peers.dat` is one
  that Serialize wrote, and no entry has too many then (`TablesExact`).
- **MasternodePayments.** A vote goes through three steps, with a lock only
  around the second: `job` says where a thread is. Rank and payment queue are
  oracles, and so is whether AddWinningMasternode finds the block it asks
  GetBlockHash for. `GetBlockValue` counts whole coins, which differs from
  satoshis only after so many halvings that a reward is a fraction of a coin. `uncounted` is history: votes that a shutdown saved between insertion
  and count.
- **MasternodeList.** Time is in ticks of MASTERNODE_PING_SECONDS and every time
  stamp is kept as its age, capped where no test distinguishes greater ages, so
  that the state is finite without a bound on time. Masternodes do not interact
  through these maps, so one is enough. Peers answer a request whether or not the
  masternode still runs, with its last broadcast and last ping (`Served`). `calm` is history: ticks in which every
  message was delivered and no lock was busy.

## The runs

Passing runs:

| Run | Instance | Checks |
|---|---|---|
| `coins` | 2 outpoints, 2 coins, 2 blocks | `TypeOK`, `FlagsSound` (DIRTY and FRESH mean what their comments say), `NeverFreshMisapplied` (BatchWrite never throws), `UsageExact`, `ImplementsLedger` (refinement), `EveryCallTakesEffect` (no addition, spend or flush is lost in the caches) |
| `check_queue` | 2 workers, 3 checks of which 1 fails, batch size 2, any number of blocks | `BookkeepingExact` (nTodo, nIdle, nTotal), `VerdictExact`, `ControlFindsIdle` (the assertion of the control's constructor), `WaitReturns` |
| `chain` | 2 threads, 5 blocks on 3 branches, one contextually invalid, one that does not connect, system errors, flushes that fail, a lost batch, 1 restart, -maxreorg 1 | `TreeExact` (nChainTx and mapBlocksUnlinked, in whatever order data comes), `CandidatesExact` (no better chain is forgotten, no useless candidate), `ActiveChainSound`, `BestChainActive`, `DiskRecoverable`, `ForkLengthBounded` |
| `chain_rpc` | 2 threads, 3 blocks, 2 RPC calls, system errors in invalidateblock | `ChainRepaired` (flags, candidates and active chain), `PruneLeavesCandidate` (an assertion), `ActivationReturns` |
| `swift` | 2 conflicting transactions, 2 outpoints, 2 masternodes, 2 heights | `QuorumIsDistinct`, `ConsensusLocksExpire`, `ConsensusLocksReleased` |
| `mempool` | 9 transactions of the pool, 4 blocks on 2 branches above a base | `LinksExact`, `TotalsExact`, `InputsAvailable`, `PoolIsMinable` |
| `addrman` | 5 services on 4 hosts, 2 sources, 4 positions of the new table, 2 of the tried table | `TablesExact` (Check_), `AssertionsHold`, `CollisionsAreReal`, `DumpRestores`, `EvictedGoHome` |
| `payments` | 2 masternodes (one is the node), 2 payees, a quorum of 2, heights to 4, 2 lives of the process | `TallyExact`, `FilledBlockValid` |
| `mnlist` | one masternode that starts at most twice, removal after 4 ticks | `ServedPingFresh`, `ListSettles` |

Why these bounds are enough to be interesting:

- Coins at different outpoints do not interact except through flushes, which two
  outpoints show; two coins tell an overwrite from a stutter. The proofs cover
  every size.
- Two workers can race each other and the master; three checks with batches of
  at most two leave some in the queue, some in a batch and some not yet added;
  the master begins a new block after every verdict, so states carried over from
  one block to the next are reached.
- Two threads are enough to move the tip between another thread's steps. Two
  branches, one of them with a split, give a reorganisation that fails half way
  and must fall back; a branch one block longer than the limit tests `maxReorg`.
  Two RPC calls are an invalidateblock and a reconsiderblock. In `chain` a crash
  may come at any step.
- A flush that fails asks the node to shut down, so the model lets it fail only
  while a restart is left (`crashes < MaxCrashes`): with `MaxCrashes` 1 there is a
  failed flush, what the node still does after it, and the start that follows.
  `chain` has every way a step's flush can fail (`"flush"`, `"write"`). A batch
  lost by a periodic flush (`"periodic"`) adds nothing new and makes the run too
  long; it and the failed flush of invalidateblock are covered by the theorems.
- A quorum of two votes from two masternodes, each for a right or a wrong
  height, and two transactions that share one input and differ in another.
- The transactions of `mempool` form a diamond, half of which a block of one
  branch mines, a spend of a coinbase with a dependant, a time-locked one, and
  double spends that are in a block of the other branch and in the pool. With
  `MaxToVisit` 1 the limited search gives up and dirty entries occur. The size
  limit is low enough for trimming; a limit so low that it strikes in the middle
  of DisconnectTip is the run `mempool_reorg`.
- In `addrman` two services share a host (one port is known, the other not),
  two or three compete for each tried position, and most pairs for a new one;
  both tried positions can be held by entries with the same home in the new
  table. Four ids per life of the process (`MaxIds`) let every entry be replaced;
  a restart numbers them anew. GetAddr is tried on managers of at most
  `MaxShuffled` = 2 entries, where its swaps reach every order; the theorems are
  for every number. `EvictedGoHome` says when an address tried with success is
  lost: one ResolveCollisions can evict two tried entries with the same home, and
  the second then takes the place of the first. The simpler claim, that such an
  address is never lost, is false for this reason.
- In `payments` the two masternodes can form a quorum for block 4, an old vote
  makes the clean-up remove a tally while a vote for it is on its way, and
  block 3 is paid by the budget. A halving inside the bounds is the run
  `payments_halving`.
- In `mnlist` the ratios of the constants are those of the code in order
  (MASTERNODE_MIN_MNB <= MIN_MNP <= the hour of a ping < expiration < removal),
  with the smallest numbers. The calm time of `ListSettles`
  (`2 * REMOVAL + MIN_MNP + 1`) is tight: with one tick less it is violated, by
  a broadcast that failed once and stays among the seen ones.

In `chain_rpc` the block that is reconsidered is the root of what was
invalidated; reconsidering a relative of it is described below, as is a crash
during invalidateblock. In `addrman` a `peers.dat` that cannot be read fails its
checksum (`MaxRead` 0); one that fails later is described below.

Runs that end in a violation, each of which is a finding of `PROJECT.json`:
`coins_flush_failure`, `mempool_reorg`, `payments_halving`.

## Fairness

- `CheckQueue`: weak fairness of every thread's own step, since threads are
  scheduled and the mutex is not held for ever, and of `Wait`, since ConnectBlock
  ends its loop over transactions. No fairness of `SpuriousWake`, `Add` or
  `MakeControl`.
- `ChainState`: weak fairness of each thread's steps in ActivateBestChain and
  InvalidateBlock. ActivateBestChain takes `cs_main` with TRY_LOCK and a sleep:
  in theory it could miss the lock for ever while others take it in turn, but
  the set of blocks is finite and the others' calls end. No fairness of system
  errors (`StepFails`, `StepFlushFails`), of flushes, of crashes, or of block
  arrival. `InvalidateFails` is
  an alternative of the loop of InvalidateBlock, whose steps as a whole are fair.
- `SwiftTX`: an hour passes for every lock (`Expire`), and ThreadCheckMasternodes
  calls CleanTransactionLocksList every minute. No fairness of any message.
- The other modules have no liveness property under fairness. `ListSettles` is a
  bounded one: what must happen has happened after a stated calm time.

## What is proved

Every theorem holds for all values of the constants that satisfy the ASSUMEs of
its module; `PROJECT.json` lists the theorems with the property each one
states. All of them are safety properties: an invariant that is inductive, and
its consequences. TLC has checked each inductive invariant on the instances of
the runs as well.

**`CoinsCacheProofs`**, for all outpoints, coins, blocks and memory usages.
`CoinsInvariant` is `Spec => []CoinsInv`, the conjunction of `TypeOK`,
`FlagsSound` at both levels, `UsageExact` and `ClosedViewEmpty`; from it follow
the invariants of the run `coins`, its action property
(`CoinsEveryCallTakesEffect`), and that `CoinsCache` implements `CoinsLedger`
(`CoinsImplementLedger`). That BatchWrite never throws is not inductive by
itself. It follows from the meaning of FRESH in the block's view (the parent
shows no unspent coin there), which AddCoin keeps only because an entry that is
not DIRTY equals the parent's, and flushes of the lower cache only because the
same two facts hold between that cache and the database. The refinement uses
the same invariant: where FRESH is right, erasing an entry and writing a spent
one look the same to a reader.

**`CheckQueueProofs`**, for any number of workers and checks, any batch size and
any bad checks: `TypeOK`, `BookkeepingExact`, `VerdictExact`, `ControlFindsIdle`.
The invariant says what each thread holds by where it is (`Positions`), that no
check is in two places and `nTodo` is the number of those in the queue and in
the batches (`TodoExact`), that the other two counters count threads
(`CountersExact`), and that `fAllOk` is the result of exactly the checks that have
been handed in, and a thread whose `fOk` is false, which skips the checks of its
batch, does so after the failure is in `fAllOk` (`ResultExact`).

**`SwiftTXProofs`**, for all transactions, outpoints, masternodes and numbers of
signatures: `TypeOK`, `QuorumIsDistinct`, `ConsensusLocksExpire`. The key is
`VotesOnce`: a vote in a lock is among the seen votes for as long as the lock is
there, so that it is never counted again. The clean-up keeps this since it
forgets only votes of the locks that it removes.

**`MasternodePaymentsProofs`**, for all masternodes, payees and windows and any
number of restarts: `TypeOK`, `TallyExact`, and `FilledBlockValid` in every state
in which the masternode's share does not change with the next block
(`RewardSteady`). The invariant says of every recent height that the tally
counts the votes that are in, but for those that a thread has inserted and has
still to count or gave up, in memory and in the file; that one thread only is
about to count a vote (`OnTheWayOnce`); and that the clean-up has not reached a
height that a reorganisation can bring back (`ReorgBounded`). `RewardSteady` is needed: where it does not hold the node refuses
its own block, which is the run `payments_halving`.

**`ChainStateProofs`**, for every finite tree of blocks and all threads, with
two invariants.

- `TreeInv` needs no condition: system errors, flushes that fail in any of their
  ways and lost batches are included. It gives `TypeOK`, `TreeExact` and
  `DiskRecoverable`. It says when a block is linked, which blocks wait for a
  parent, that the index has the parent of each of its blocks (`IndexClosed`),
  that the tip and the coins are at linked blocks, wherever a failed flush has
  left them (`TipLinked`, `CoinsLinked`), and that no block that cannot be
  connected ever was. Of the disk it says that it is behind memory only by what
  is dirty and that the node can start from it (`DiskBehind`, `DiskRecoverable`),
  from each start until a batch of the block index is lost. After that it is
  false, and so is `DiskRecoverable` without its exception (see below).
- `ChainInv` adds what makes the best chain found and kept: `CandidatesExact`,
  `ActiveChainSound`, `BestChainActive`, `ChainRepaired`, `PruneLeavesCandidate`.
  Besides the flags and their copy on disk it says that a thread in the middle of
  a reorganisation goes towards a candidate that is the best (`GoalKept`,
  `GoalBest`), that the candidates include all that is not worse than some good
  one (`NoneForgotten`), and that the tip is the best unless some thread is going
  to search (`TipBest`). It holds under two conditions on the constants:
  `NoCrashWhileInvalidating` (there is no restart at all, or no block that can be
  invalidated; stronger than that the process does not die inside
  invalidateblock, which is what the code needs)
  and `RootsReconsidered` (only the root of what failed is reconsidered). The
  code needs both: without the first it dies at every start, without the second
  it forgets chains, as described below. Failed flushes and lost batches are
  included; only `ChainRepaired`, for the cause of each failed flag, needs
  `NoBatchLost` as well: a lost batch may leave a child's mark on disk without
  that of the block that failed.
- `ForkInv`, on top of `ChainInv`, gives `ForkLengthBounded` as long as no
  reorganisation is cut short (`Uninterrupted`, a condition on states: no crash,
  no system error, no lost batch, no linked block that failed). AcceptBlock compares a branch
  with the tip of that moment, while ActivateBestChain moves the tip before it
  comes to the block. But a stake block is stored only with all its ancestors
  (`StakeLinked`), so that it competes from the start: the block that is best is
  either the new one, which is near the tip, or the goal that the last step went
  towards (`TopIsNear`). The condition is needed. When ConnectBlock fails halfway
  to a better chain, the tip is on a short one, and the node goes back to the
  branch it was leaving even if that is longer than `maxReorg`; and reconsiderblock
  brings back whatever was marked.

**`MasternodeListProofs`**, for all time limits in the order of the code and any
number of restarts of the masternode: `ServedPingFresh` and `ListSettles`.
Neither is near to inductive. For the first, a copy of the broadcast that is behind the entry has been so
only for as long as the time was calm and at most for the age of the entry's
ping (`StaleRecent`), since the next ping in a calm time refreshes both; this
needs why an entry is pre-enabled or expired (`StatesLast`), that a broadcast
between its two checks is among the seen ones (`PendingSeen`), and that messages
in a calm time are new, or are the last of a masternode that has stopped, from
before the calm (`CalmMessages`, `Recent`). For the second, `SettleInv` bounds the
length of the calm time by what the node holds: an entry that is not enabled, or
whose masternode does not run, is at least that old but for MIN_MNP (`Fading`),
CheckAndRemove leaves none older than REMOVAL (`Examined`), and none enabled that
is older than EXPIRATION (`EnabledYoung`); a masternode that
should be listed and is not is shut out by a seen broadcast at least that old, or
the node has asked for it, or it was removed a short time ago, and the next ping
makes the node ask (`ShutOut`). Since CheckAndRemove forgets a seen broadcast
after 2 * REMOVAL and an answer comes within MIN_MNP, the calm cannot be longer.

**`MemPoolProofs`**, for all transactions, blocks and limits.

- Whatever happens (`IndexInv`): `mapNextTx` names exactly the spenders, links
  are mutual and real, chain and coin view differ by the block on its way, and
  `PoolIsMinable`. The last is about what disconnected blocks take away: until
  removeForReorg has run, a history variable says so, and while it runs what is
  not yet purged is among what it has still to purge.
- As long as an eviction inside DisconnectTip takes everything that spends what
  it evicts (`EvictsFamilies`, a condition on states): `LinksExact`,
  `InputsAvailable`, `PackagesExact` (the first half of `TotalsExact`), `TypeOK`.
  `PoolInv` says that the pool has no transaction of the chain but those
  ConnectTip is about to remove, and that an input is there, or is about to be
  put back, or conflicts with the block that is being connected; and that the
  only missing links are those of what was put back. `PackagesInv` adds that
  what was put back is in an order in which children follow parents, so that
  UpdateTransactionsFromBlock, which goes from last to first, changes the
  descendants of no entry that it has visited; and that an entry it has still to
  visit is not dirty. The heart of the proof is how the set of descendants
  changes when a set is removed, a transaction added, or a link completed, and
  that ancestors by one link map are descendants by the other. Without the
  condition `InputsAvailable` is false, which is the run `mempool_reorg`.
- Whatever happens, `AccountingExact` (the second half of `TotalsExact`, which is
  thus proved as well). A sum over the pool is the size of a disjoint union: of
  the links as a set of pairs, or of each transaction's size as so many units.
  That the recursion of MapThenSumSet computes it is shown by induction over the
  finite subsets, with a least counterexample (`SumIs`). RemoveStaged then gives
  back each link that goes at both of its ends exactly once.

**`AddrManProofs`**, for all services, hosts, sources, tables, hashes and limits:
`TablesExact`, `AssertionsHold`, `CollisionsAreReal`, `DumpRestores`,
`EvictedGoHome`, as long as no read of `peers.dat` fails halfway (`MaxRead` = 0:
what Clear leaves behind then is described below).

- The inductive invariant is `Whole(am)`: the indexes by id, by host and by place
  in vRandom are of the same entries (`RandomIndex`, `HostIndex`); an entry is
  tried, with its position in the tried table, or new, and then every position
  that names it is one of its own and their number is its reference count; no
  entry is without a place (`Loose`), the two counters are exact, ids are below
  `nIdCount`, and the remembered collisions are real. It is more than what
  Check_ tests in that each index is also shown to name nothing but entries.
- Inside a call it does not hold. The lemmas about Create, SwapRandom, Delete,
  ClearNew, LeaveNew, EvictTried and MakeTried say what each needs and leaves:
  `Core` with the set of entries that are at the moment nowhere, and by how much
  the counters are off. MakeTried, for one, takes an entry out of the new table
  (one loose entry), evicts another (two), deletes a third that is in the way,
  and puts both back.
- A loop is proved by induction over its rounds. The library's induction theorems
  take an operator as parameter, which the provers cannot instantiate; `UpTo`
  states the same for a set of numbers, from the fact that a set of naturals that
  is not empty has a least element (`LeastNat`). `During` is what holds between
  two rounds of ResolveCollisions: what is in the tried table and was not there
  before came from the collisions, and what was evicted went home.
- That a dump restores the tables is the longest argument: the numbers that
  Serialize gives to the entries are a bijection (`BeforeIs`, `NthIs`), each loop
  of Unserialize rebuilds one part under these numbers (`ReadNewsIs`,
  `ReadTriedsIs`, `ReadPositionsIs`), the entries find their positions free since
  they were at the same ones, and so nothing is pruned (`PruneNone`). When the
  positions of the file cannot be used, `PruneIs` shows that the manager is whole
  all the same.

Only model-checked:

- Liveness (`WaitReturns`, `ActivationReturns`, `ConsensusLocksReleased`), which
  needs fairness and ENABLED.
- What a read of `peers.dat` that fails halfway leaves behind (`MaxRead` above 0),
  for which the properties of `AddrMan` are false, as described below.
- `ForkLengthBounded` after an interruption, on the one tree of the run `chain`.
  It is not true for all trees: see what is proved of it.

## Where the code and its comments disagree

Shown by a run:

1. **A failed write loses coins** (`coins_flush_failure`). CCoinsViewDB::BatchWrite
   erases the cache while it builds the batch. If the write then fails, the
   flush at shutdown writes the best block without the coins.
2. **A reorganisation with a full pool** (`mempool_reorg`). Every transaction that
   DisconnectTip puts back is followed by TrimToSize (`main.cpp:1119`), but it is
   linked to its descendants in the pool only at the end. If it is the one to be
   evicted, its children stay without their input.
3. **A halving** (`payments_halving`). FillBlockPayee takes the masternode's share
   from the reward of the block before (`masternode-payments.cpp:340`),
   IsTransactionValid from that of the block itself (`:556`). At a halving with a
   quorum the node refuses the blocks it makes, and CreateNewBlock empties the
   memory pool each time (`miner.cpp:465`).

Seen while modelling, with no run of their own (most are counterexamples TLC
gives when an exception is dropped or a bound is changed):

- **Reconsidering a descendant** (`main.cpp:3157`). ReconsiderBlock clears the
  failure of ancestors and does not make them candidates again, against the
  assertion of CheckBlockIndex at `main.cpp:4737`. `ChainRepaired` fails when
  `Reconsiderable` has a block above the invalidated one.
- **A crash inside invalidateblock** (`main.cpp:3110`). The marks reach the disk
  before the last block is disconnected; the assertion of
  PruneBlockIndexCandidates (`main.cpp:2904`) then fails at every start.
  `PruneLeavesCandidate` fails in `chain_rpc` with `MaxCrashes` 1.
- **A lost batch of the block index** (`main.cpp:2577`). FlushStateToDisk empties
  setDirtyBlockIndex (`main.cpp:2573`) before WriteBatchSync, which may throw
  (caught at `main.cpp:2612`). In ConnectTip and DisconnectTip the coins have
  moved by then. The node is asked to shut down, and the flush at shutdown
  (`init.cpp:255`) finds nothing dirty and writes coins whose block is not in the
  index, against "This can only be done if the blocks / block index write was
  also done" (`main.cpp:2592`). The node does not start again without -reindex.
  `DiskRecoverable` fails in `chain` when its exception is dropped.
- **Blocks refused without consensus** (`swifttx.cpp:107`). A rejected request
  locks inputs with no vote, while CheckBlock says "only reject blocks when it's
  based on complete consensus" (`main.cpp:3454`).
- **Conflicting locks that do not cancel out** (`swifttx.cpp:370`, against
  `swifttx.h:48`). Votes that arrive before the request complete a lock whose
  inputs nobody knows.
- **An address manager that is not clean** (`addrman.h:465`). Clear leaves
  mapInfo, mapAddr and m_tried_collisions, although it is called "to ensure
  addrman is left in a clean state" (`addrdb.cpp:211`). `TablesExact` fails in
  `addrman` with `MaxRead` 2.
- **DisconnectBlocks does not purge** (`main.cpp:2799`). It does not call
  removeForReorg as the comment of DisconnectTip asks (`main.cpp:2667`), and
  disconnects one block more than its argument. `PoolIsMinable` makes an
  exception for it (`unpurged`).

- A masternode never votes: the second `return` of DoConsensusVote
  (`swifttx.cpp:270`) is not inside braces with the test above it.
- Inputs locked by a rejected request are never freed: CleanTransactionLocksList
  looks only at transactions in `mapTxLockReq` (`swifttx.cpp:453`).
- Reconsidering one child of an invalidated block leaves its sibling marked as
  BLOCK_FAILED_CHILD with no invalid ancestor (`main.cpp:3157`), against the
  assertion of CheckBlockIndex at `main.cpp:4734`.
- When DisconnectTip fails in InvalidateBlock (`main.cpp:3112`), the invalidated
  block stays in the active chain and invalidateblock reports success. Three
  properties of `ChainState` make an exception for this (`gaveUp`).
- The -maxreorg limit is on the length of the new branch, not on the number of
  blocks that are given up: after a restart, ties are broken by address, and a
  chain may be left for another one of the same length.

## What is not modelled

- In the modelled parts: `pindexBestInvalid` and `pindexBestHeader` (warnings and
  RPC answers), signals to wallets, zerocoin spends, PrioritiseTransaction, the fee estimator
  and the rolling minimum fee of the memory pool, `mapUnknownVotes` (what is relayed),
  interruption of threads at shutdown, GetPriority and the hash salt of the coin
  cache, the encodings of the databases.
- DisconnectBlocks and ReprocessBlocks as steps of the chain: `SwiftTX` has their
  effect on transactions and `MemPool` their effect on the pool, `ChainState`
  does not call them.
- The masternode's rank and the queue for payment (hashes of blocks and
  outpoints), `mncache.dat`, and the node's own masternode; the stages of the
  masternode sync and what depends on them; budget and sporks. `PROJECT.json`
  gives the reason for each component.
- Data races on the maps of `swifttx.cpp`, which have no lock: a handler is one
  step, as if there were one.
- LevelDB, secp256k1, the hash functions, scripts, zerocoin proofs, the stake
  kernel: cryptography, arithmetic on 256-bit numbers or third-party code; their
  verdicts are constants or choices.
- The wallet, the GUI, sockets and HTTP.

## Plan

Done, in this order: coins, check queue, chain state, SwiftTX, memory pool,
address manager, masternode payments, masternode list. The ledger and the chain
come first because everything else relies on them, the masternode layer where it
decides which blocks are refused, and the two indexes (pool and addresses)
because their consistency is the hardest to test.

Proofs are in place for all of them: every invariant and action property of a
run is stated by a theorem. Next, models: sporks and their database; block
download (blocks in flight, stalling); the composition of `ChainState` with
`CoinsLedger` in the place of the coin database, so that "the coins on disk
belong to a block of the index" is one statement.
