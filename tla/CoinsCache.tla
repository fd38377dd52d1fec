----------------------------- MODULE CoinsCache -----------------------------
(***************************************************************************)
(* The stack of coin views of the node (coins.h, coins.cpp, txdb.cpp):     *)
(*                                                                         *)
(*    view   the CCoinsViewCache ConnectTip / DisconnectTip build on the   *)
(*           stack for one block, flushed when the block is good, else     *)
(*           destroyed                                                     *)
(*    tip    pcoinsTip, the long-lived CCoinsViewCache                     *)
(*    db     CCoinsViewDB, the chainstate database                         *)
(*                                                                         *)
(* A cache holds for some outpoints an entry with two flags: DIRTY (may    *)
(* differ from the parent) and FRESH (the parent has no unspent coin       *)
(* here).  All the operations run under cs_main, so each is one step.      *)
(***************************************************************************)
EXTENDS Integers

CONSTANTS
    Outpoints,   \* COutPoint
    Coins,       \* unspent Coin values (output, height, coinbase/coinstake)
    Spent,       \* the null Coin: Coin::IsSpent
    Blocks,      \* block hashes
    NoBlock,     \* the null hash
    NoEntry,     \* cacheCoins has no entry for an outpoint
    CoinUsage    \* [Coins -> Nat]: Coin::DynamicMemoryUsage

CoinOrSpent == Coins \cup {Spent}

DIRTY == "DIRTY"
FRESH == "FRESH"

(* CCoinsCacheEntry; its flags are the set of the bits that are on. *)
Entry == [coin : CoinOrSpent, flags : SUBSET {DIRTY, FRESH}]

ASSUME SpentAssumption   == Spent \notin Coins
ASSUME NoBlockAssumption == NoBlock \notin Blocks
ASSUME NoEntryAssumption == NoEntry \notin Entry
ASSUME UsageAssumption   == CoinUsage \in [Coins -> Nat]

VARIABLES
    db, dbBest,                   \* database: coin per outpoint, DB_BEST_BLOCK
    tip, tipBest, tipUsage,       \* pcoinsTip: cacheCoins, hashBlock, usage
    view, viewBest, viewUsage,    \* the block's view
    open                          \* is there a block's view on the stack?

dbVars   == <<db, dbBest>>
tipVars  == <<tip, tipBest, tipUsage>>
viewVars == <<view, viewBest, viewUsage, open>>
vars     == <<dbVars, tipVars, viewVars>>

-----------------------------------------------------------------------------
(* cachedCoinsUsage is the sum of a share per outpoint; every statement    *)
(* that changes it adds or subtracts the share of one outpoint, so the     *)
(* model keeps the shares.                                                 *)

Usage(coin) == IF coin = Spent THEN 0 ELSE CoinUsage[coin]

EmptyCache == [o \in Outpoints |-> NoEntry]
NoUsage    == [o \in Outpoints |-> 0]

(* The cache after FetchCoin(o), when the base answers `have' with `coin'. *)
Fetched(cache, o, have, coin) ==
    IF cache[o] # NoEntry \/ ~have
    THEN cache
    ELSE [cache EXCEPT ![o] = [coin |-> coin, flags |-> IF coin = Spent THEN {FRESH} ELSE {}]]

(* Mutant: a fetch forgets to account for the coin it caches. *)
FetchUsage_Forgets(usage, cache, o, have, coin) == usage

FetchUsage(usage, cache, o, have, coin) ==
    IF cache[o] # NoEntry \/ ~have
    THEN usage
    ELSE [usage EXCEPT ![o] = @ + Usage(coin)]

(* pcoinsTip after FetchCoin(o): the database knows unspent coins only. *)
TipFetched(o)      == Fetched(tip, o, db[o] # Spent, db[o])
TipFetchedUsage(o) == FetchUsage(tipUsage, tip, o, db[o] # Spent, db[o])

(* FetchCoin(o) of the view asks pcoinsTip only when the view has no entry; *)
(* GetCoin of a cache answers true for every entry it has, spent ones too.  *)
BelowFetched(o)      == IF view[o] # NoEntry THEN tip ELSE TipFetched(o)
BelowFetchedUsage(o) == IF view[o] # NoEntry THEN tipUsage ELSE TipFetchedUsage(o)

ViewFetched(o) ==
    LET below == TipFetched(o)[o]
    IN  Fetched(view, o, below # NoEntry, below.coin)

ViewFetchedUsage(o) ==
    LET below == TipFetched(o)[o]
    IN  FetchUsage(viewUsage, view, o, below # NoEntry, below.coin)

(* Mutant: AddCoin marks every new coin fresh. *)
AddedEntry_AlwaysFresh(entry, coin) == [coin |-> coin, flags |-> {DIRTY, FRESH}]

(* What AddCoin(coin, possible_overwrite = FALSE) makes of an entry: it is *)
(* fresh unless a spent entry still has to be written to the parent.       *)
AddedEntry(entry, coin) ==
    [coin  |-> coin,
     flags |-> IF entry = NoEntry THEN {DIRTY, FRESH}
               ELSE entry.flags \cup {DIRTY} \cup (IF DIRTY \in entry.flags THEN {} ELSE {FRESH})]

(* Mutant: SpendCoin erases the entry whatever its flags. *)
SpentEntry_AlwaysErases(entry) == NoEntry

(* What SpendCoin makes of an entry. *)
SpentEntry(entry) ==
    IF FRESH \in entry.flags
    THEN NoEntry
    ELSE [coin |-> Spent, flags |-> entry.flags \cup {DIRTY}]

(* Mutant: BatchWrite copies the child's FRESH flag onto an existing entry. *)
MergedEntry_CopiesFresh(parent, child) ==
    IF child = NoEntry THEN parent
    ELSE IF DIRTY \notin child.flags THEN parent
    ELSE [coin  |-> child.coin,
          flags |-> child.flags \cup (IF parent = NoEntry THEN {} ELSE parent.flags)]

(* CCoinsViewCache::BatchWrite for one outpoint: the child's entry pushed  *)
(* onto the parent's.                                                      *)
MergedEntry(parent, child) ==
    IF child = NoEntry THEN parent
    ELSE IF DIRTY \notin child.flags THEN parent
    ELSE IF parent = NoEntry
         THEN IF FRESH \in child.flags /\ child.coin = Spent
              THEN NoEntry
              ELSE [coin |-> child.coin, flags |-> {DIRTY} \cup (child.flags \cap {FRESH})]
    ELSE IF FRESH \in parent.flags /\ child.coin = Spent
         THEN NoEntry
         ELSE [coin |-> child.coin, flags |-> parent.flags \cup {DIRTY}]

(* Mutant: BatchWrite does not add the usage of a coin it creates. *)
MergedUsage_MissesCreate(usage, parent, child) ==
    IF child = NoEntry THEN usage
    ELSE IF DIRTY \notin child.flags \/ parent = NoEntry THEN usage
    ELSE usage - Usage(parent.coin) + Usage(child.coin)

(* The usage statements of BatchWrite, branch by branch. *)
MergedUsage(usage, parent, child) ==
    IF child = NoEntry THEN usage
    ELSE IF DIRTY \notin child.flags THEN usage
    ELSE IF parent = NoEntry
         THEN IF FRESH \in child.flags /\ child.coin = Spent
              THEN usage
              ELSE usage + Usage(child.coin)
    ELSE IF FRESH \in parent.flags /\ child.coin = Spent
         THEN usage - Usage(parent.coin)
         ELSE usage - Usage(parent.coin) + Usage(child.coin)

(* Mutant: the database batch writes unspent coins and skips the erases. *)
WrittenCoin_NoErase(old, child) ==
    IF child = NoEntry THEN old
    ELSE IF DIRTY \in child.flags /\ child.coin # Spent THEN child.coin ELSE old

(* CCoinsViewDB::BatchWrite for one outpoint: dirty entries are written,   *)
(* spent ones as an erase.                                                 *)
WrittenCoin(old, child) ==
    IF child = NoEntry THEN old
    ELSE IF DIRTY \in child.flags THEN child.coin ELSE old

(* The throw of BatchWrite: a fresh child over an unspent parent. *)
FreshMisapplied(parent, child) ==
    /\ parent # NoEntry /\ child # NoEntry
    /\ {DIRTY, FRESH} \subseteq child.flags
    /\ parent.coin # Spent

-----------------------------------------------------------------------------
(* What a reader of each level sees, whatever is cached. *)

TipCoin(o)  == IF tip[o] = NoEntry THEN db[o] ELSE tip[o].coin
ViewCoin(o) == IF view[o] = NoEntry THEN TipCoin(o) ELSE view[o].coin

TipBlock  == IF tipBest = NoBlock THEN dbBest ELSE tipBest
ViewBlock == IF viewBest = NoBlock THEN TipBlock ELSE viewBest

-----------------------------------------------------------------------------
Init ==
    /\ db = [o \in Outpoints |-> Spent] /\ dbBest = NoBlock
    /\ tip = EmptyCache /\ tipBest = NoBlock /\ tipUsage = NoUsage
    /\ view = EmptyCache /\ viewBest = NoBlock /\ viewUsage = NoUsage
    /\ open = FALSE

(* CCoinsViewCache view(pcoinsTip) *)
OpenView ==
    /\ ~open
    /\ open' = TRUE
    /\ view' = EmptyCache /\ viewBest' = NoBlock /\ viewUsage' = NoUsage
    /\ UNCHANGED <<dbVars, tipVars>>

(* AccessCoin, HaveCoin and GetCoin of the view: they fill both caches. *)
ViewAccess(o) ==
    /\ open
    /\ tip' = BelowFetched(o) /\ tipUsage' = BelowFetchedUsage(o)
    /\ view' = ViewFetched(o) /\ viewUsage' = ViewFetchedUsage(o)
    /\ UNCHANGED <<dbVars, tipBest, viewBest, open>>

(* GetBestBlock of the view: a null hashBlock is filled from the base. *)
ViewGetBestBlock ==
    /\ open
    /\ viewBest' = ViewBlock
    /\ tipBest' = IF viewBest = NoBlock THEN TipBlock ELSE tipBest
    /\ UNCHANGED <<dbVars, tip, tipUsage, view, viewUsage, open>>

ViewSetBestBlock(b) ==
    /\ open
    /\ viewBest' = b
    /\ UNCHANGED <<dbVars, tipVars, view, viewUsage, open>>

(* AddCoins and ApplyTxInUndo add an output only where no unspent one      *)
(* exists: txids do not repeat (BIP34) and an input being restored was     *)
(* spent.  No lookup below the view is made here.                          *)
ViewAddCoin(o, c) ==
    /\ open
    /\ ViewCoin(o) = Spent
    /\ view' = [view EXCEPT ![o] = AddedEntry(@, c)]
    /\ viewUsage' = [viewUsage EXCEPT ![o] =
                        @ - (IF view[o] = NoEntry THEN 0 ELSE Usage(view[o].coin)) + Usage(c)]
    /\ UNCHANGED <<dbVars, tipVars, viewBest, open>>

ViewSpendCoin(o) ==
    /\ open
    /\ tip' = BelowFetched(o) /\ tipUsage' = BelowFetchedUsage(o)
    /\ LET fetched == ViewFetched(o)
       IN  IF fetched[o] = NoEntry
           THEN UNCHANGED <<view, viewUsage>>
           ELSE /\ view' = [fetched EXCEPT ![o] = SpentEntry(@)]
                /\ viewUsage' = [ViewFetchedUsage(o) EXCEPT ![o] = @ - Usage(fetched[o].coin)]
    /\ UNCHANGED <<dbVars, tipBest, viewBest, open>>

(* view.Flush() into pcoinsTip, then the end of the view's scope.          *)
(* ConnectBlock and DisconnectBlock have set the view's best block.        *)
FlushView ==
    /\ open /\ viewBest # NoBlock
    /\ tip' = [o \in Outpoints |-> MergedEntry(tip[o], view[o])]
    /\ tipUsage' = [o \in Outpoints |-> MergedUsage(tipUsage[o], tip[o], view[o])]
    /\ tipBest' = viewBest
    /\ view' = EmptyCache /\ viewUsage' = NoUsage /\ viewBest' = NoBlock
    /\ open' = FALSE
    /\ UNCHANGED dbVars

(* The block was bad: the view goes out of scope unflushed. *)
DropView ==
    /\ open
    /\ view' = EmptyCache /\ viewUsage' = NoUsage /\ viewBest' = NoBlock
    /\ open' = FALSE
    /\ UNCHANGED <<dbVars, tipVars>>

(* AcceptToMemoryPool and RPCs read pcoinsTip, and uncache what they read. *)
TipAccess(o) ==
    /\ ~open
    /\ tip' = TipFetched(o) /\ tipUsage' = TipFetchedUsage(o)
    /\ UNCHANGED <<dbVars, tipBest, viewVars>>

TipUncache(o) ==
    /\ ~open
    /\ tip[o] # NoEntry /\ tip[o].flags = {}
    /\ tip' = [tip EXCEPT ![o] = NoEntry]
    /\ tipUsage' = [tipUsage EXCEPT ![o] = @ - Usage(tip[o].coin)]
    /\ UNCHANGED <<dbVars, tipBest, viewVars>>

(* pcoinsTip->Flush() of FlushStateToDisk: one atomic batch. *)
FlushTip ==
    /\ ~open
    /\ db' = [o \in Outpoints |-> WrittenCoin(db[o], tip[o])]
    /\ dbBest' = IF tipBest = NoBlock THEN dbBest ELSE tipBest
    /\ tip' = EmptyCache /\ tipUsage' = NoUsage
    /\ UNCHANGED <<tipBest, viewVars>>

(* The process stops and starts again: the caches are gone. *)
Crash ==
    /\ tip' = EmptyCache /\ tipUsage' = NoUsage /\ tipBest' = NoBlock
    /\ view' = EmptyCache /\ viewUsage' = NoUsage /\ viewBest' = NoBlock
    /\ open' = FALSE
    /\ UNCHANGED dbVars

Next ==
    \/ OpenView \/ ViewGetBestBlock \/ FlushView \/ DropView
    \/ \E b \in Blocks : ViewSetBestBlock(b)
    \/ \E o \in Outpoints : \E c \in Coins : ViewAddCoin(o, c)
    \/ \E o \in Outpoints : ViewAccess(o) \/ ViewSpendCoin(o)
    \/ \E o \in Outpoints : TipAccess(o) \/ TipUncache(o)
    \/ FlushTip \/ Crash

Spec == Init /\ [][Next]_vars

-----------------------------------------------------------------------------
Cache == [Outpoints -> Entry \cup {NoEntry}]

(* Type correctness; in particular the shares of cachedCoinsUsage, an      *)
(* unsigned counter in the code, never go below zero.                      *)
TypeOK ==
    /\ db \in [Outpoints -> CoinOrSpent] /\ dbBest \in Blocks \cup {NoBlock}
    /\ tip \in Cache /\ tipBest \in Blocks \cup {NoBlock}
    /\ tipUsage \in [Outpoints -> Nat]
    /\ view \in Cache /\ viewBest \in Blocks \cup {NoBlock}
    /\ viewUsage \in [Outpoints -> Nat]
    /\ open \in BOOLEAN

(* The flags mean what CCoinsCacheEntry::Flags says of them, at both       *)
(* levels: an entry that is not DIRTY equals the parent's version, and the *)
(* parent of a FRESH entry has no unspent coin.                            *)
TipFlagsSound ==
    \A o \in Outpoints : tip[o] # NoEntry =>
        /\ DIRTY \notin tip[o].flags => tip[o].coin = db[o]
        /\ FRESH \in tip[o].flags => db[o] = Spent

ViewFlagsSound ==
    \A o \in Outpoints : view[o] # NoEntry =>
        /\ DIRTY \notin view[o].flags => view[o].coin = TipCoin(o)
        /\ FRESH \in view[o].flags => TipCoin(o) = Spent

FlagsSound == TipFlagsSound /\ ViewFlagsSound

(* The logic_error of BatchWrite ("FRESH flag misapplied ...") is never    *)
(* thrown, however the operations on the stack are ordered.                *)
NeverFreshMisapplied ==
    \A o \in Outpoints : ~FreshMisapplied(tip[o], view[o])

(* cachedCoinsUsage is exact after any sequence of operations: FlushState- *)
(* ToDisk decides from it when the cache must be written.                  *)
Accounted(cache, usage) ==
    \A o \in Outpoints : usage[o] = IF cache[o] = NoEntry THEN 0 ELSE Usage(cache[o].coin)

UsageExact == Accounted(tip, tipUsage) /\ Accounted(view, viewUsage)

(* The stack implements the plain ledger: fetching, caching, uncaching and *)
(* dropping FRESH entries change nothing a reader can see, a block's       *)
(* changes reach the tip together, and the database only ever holds a      *)
(* committed state with the block it belongs to.                           *)
Ledger == INSTANCE CoinsLedger WITH
    disk <- [coins |-> db, best |-> dbBest],
    tip  <- [coins |-> [o \in Outpoints |-> TipCoin(o)], best |-> TipBlock],
    work <- [coins |-> [o \in Outpoints |-> ViewCoin(o)], best |-> ViewBlock]

ImplementsLedger == Ledger!Spec

(* No call is lost in the caches: each one that should change the ledger   *)
(* makes exactly its own step of it (a spend that only erased a cached     *)
(* entry would leave the parent's coin spendable).                         *)
EveryCallTakesEffect ==
    [][ /\ \A o \in Outpoints : ViewSpendCoin(o) => Ledger!Spend(o)
        /\ \A o \in Outpoints : \A c \in Coins : ViewAddCoin(o, c) => Ledger!Create(o, c)
        /\ FlushView => Ledger!Commit
        /\ FlushTip => Ledger!Persist ]_vars
=============================================================================
