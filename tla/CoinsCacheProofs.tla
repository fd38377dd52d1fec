-------------------------- MODULE CoinsCacheProofs --------------------------
(***************************************************************************)
(* Proofs about the coin views, for any sets of outpoints, coins and       *)
(* blocks.  The inductive invariant is the meaning of the two flags: all   *)
(* the other properties follow from it.                                    *)
(***************************************************************************)
EXTENDS CoinsCache, TLAPS

(* Between blocks there is no view: it holds nothing, so that operations   *)
(* on pcoinsTip cannot make its flags wrong.                               *)
ClosedViewEmpty == ~open => view = EmptyCache /\ viewBest = NoBlock

CoinsInv == TypeOK /\ TipFlagsSound /\ ViewFlagsSound /\ UsageExact /\ ClosedViewEmpty

(* A fetch changes neither the type nor the meaning of the flags of a     *)
(* cache, and keeps the usage exact (FetchCoin).                           *)
LEMMA FetchKeepsCache ==
    ASSUME NEW cache \in Cache, NEW usage \in [Outpoints -> Nat],
           Accounted(cache, usage),
           NEW o \in Outpoints, NEW have \in BOOLEAN, NEW coin \in CoinOrSpent
    PROVE  /\ Fetched(cache, o, have, coin) \in Cache
           /\ FetchUsage(usage, cache, o, have, coin) \in [Outpoints -> Nat]
           /\ Accounted(Fetched(cache, o, have, coin), FetchUsage(usage, cache, o, have, coin))
  <1> DEFINE e == [coin |-> coin, flags |-> IF coin = Spent THEN {FRESH} ELSE {}]
  <1>1. e \in Entry /\ e # NoEntry /\ e.coin = coin
    BY NoEntryAssumption DEF Entry
  <1>2. Usage(coin) \in Nat
    BY UsageAssumption, SpentAssumption DEF Usage, CoinOrSpent
  <1>3. CASE cache[o] # NoEntry \/ ~have
    BY <1>3 DEF Fetched, FetchUsage
  <1>4. CASE cache[o] = NoEntry /\ have
    <2>1. Fetched(cache, o, have, coin) = [cache EXCEPT ![o] = e]
      BY <1>4 DEF Fetched
    <2>2. FetchUsage(usage, cache, o, have, coin) = [usage EXCEPT ![o] = @ + Usage(coin)]
      BY <1>4 DEF FetchUsage
    <2>3. usage[o] = 0
      BY <1>4 DEF Accounted
    <2> QED
      BY <2>1, <2>2, <2>3, <1>1, <1>2 DEF Accounted, Cache
  <1> QED BY <1>3, <1>4

(* The coin a reader sees through `cache' on top of `below'. *)
Seen(cache, below, o) == IF cache[o] = NoEntry THEN below[o] ELSE cache[o].coin

(* The meaning of the flags of `cache' on top of `below'. *)
Sound(cache, below) ==
    \A o \in Outpoints : cache[o] # NoEntry =>
        /\ DIRTY \notin cache[o].flags => cache[o].coin = below[o]
        /\ FRESH \in cache[o].flags => below[o] = Spent

(* Fetching from the level below keeps the flags sound and is invisible to *)
(* a reader (FetchCoin).                                                   *)
LEMMA FetchInvisible ==
    ASSUME NEW cache \in Cache, NEW below \in [Outpoints -> CoinOrSpent],
           Sound(cache, below),
           NEW o \in Outpoints, NEW have \in BOOLEAN
    PROVE  /\ Sound(Fetched(cache, o, have, below[o]), below)
           /\ \A p \in Outpoints :
                 Seen(Fetched(cache, o, have, below[o]), below, p) = Seen(cache, below, p)
  <1> DEFINE e == [coin |-> below[o], flags |-> IF below[o] = Spent THEN {FRESH} ELSE {}]
  <1>1. e.coin = below[o] /\ DIRTY \notin e.flags /\ (FRESH \in e.flags => below[o] = Spent)
    BY DEF DIRTY, FRESH
  <1>2. e # NoEntry
    BY NoEntryAssumption DEF Entry, DIRTY, FRESH
  <1>3. CASE cache[o] # NoEntry \/ ~have
    BY <1>3 DEF Fetched
  <1>4. CASE cache[o] = NoEntry /\ have
    <2>1. Fetched(cache, o, have, below[o]) = [cache EXCEPT ![o] = e]
      BY <1>4 DEF Fetched
    <2> HIDE DEF e
    <2> QED
      BY <2>1, <1>1, <1>2, <1>4 DEF Sound, Seen, Cache
  <1> QED BY <1>3, <1>4

(* Adding a coin where the level below shows none keeps the flags sound    *)
(* (AddCoin with possible_overwrite false).                                *)
LEMMA AddedEntrySound ==
    ASSUME NEW entry \in Entry \cup {NoEntry}, NEW coin \in Coins, NEW under \in CoinOrSpent,
           entry = NoEntry => under = Spent,
           entry # NoEntry => /\ entry.coin = Spent
                              /\ DIRTY \notin entry.flags => entry.coin = under
                              /\ FRESH \in entry.flags => under = Spent
    PROVE  /\ AddedEntry(entry, coin) \in Entry
           /\ AddedEntry(entry, coin).coin = coin
           /\ DIRTY \in AddedEntry(entry, coin).flags
           /\ FRESH \in AddedEntry(entry, coin).flags => under = Spent
  <1>1. CASE entry = NoEntry
    BY <1>1 DEF AddedEntry, Entry, CoinOrSpent
  <1>2. CASE entry # NoEntry
    <2>1. entry \in Entry
      BY <1>2
    <2>2. AddedEntry(entry, coin) =
            [coin |-> coin, flags |-> entry.flags \cup {DIRTY} \cup (IF DIRTY \in entry.flags THEN {} ELSE {FRESH})]
      BY <1>2 DEF AddedEntry
    <2> QED BY <2>1, <2>2, <1>2 DEF Entry, CoinOrSpent
  <1> QED BY <1>1, <1>2

(* Spending an entry leaves a reader with no coin and the flags sound      *)
(* (SpendCoin).                                                            *)
LEMMA SpentEntrySound ==
    ASSUME NEW entry \in Entry, NEW under \in CoinOrSpent,
           FRESH \in entry.flags => under = Spent
    PROVE  \/ SpentEntry(entry) = NoEntry /\ under = Spent
           \/ /\ SpentEntry(entry) \in Entry
              /\ SpentEntry(entry).coin = Spent
              /\ DIRTY \in SpentEntry(entry).flags
              /\ FRESH \notin SpentEntry(entry).flags
  BY DEF SpentEntry, Entry, CoinOrSpent, DIRTY, FRESH

(* Pushing a child's entry onto the parent's shows the reader of the       *)
(* parent what the child showed, and keeps the parent's flags sound        *)
(* (CCoinsViewCache::BatchWrite).                                          *)
LEMMA MergedEntrySound ==
    ASSUME NEW parent \in Entry \cup {NoEntry}, NEW child \in Entry \cup {NoEntry},
           NEW under \in CoinOrSpent, NEW mid, 
           mid = IF parent = NoEntry THEN under ELSE parent.coin,
           parent # NoEntry => /\ DIRTY \notin parent.flags => parent.coin = under
                               /\ FRESH \in parent.flags => under = Spent,
           child # NoEntry => /\ DIRTY \notin child.flags => child.coin = mid
                              /\ FRESH \in child.flags => mid = Spent
    PROVE  LET m == MergedEntry(parent, child)
               seen == IF child = NoEntry THEN mid ELSE child.coin
           IN  /\ m \in Entry \cup {NoEntry}
               /\ (IF m = NoEntry THEN under ELSE m.coin) = seen
               /\ m # NoEntry => /\ DIRTY \notin m.flags => m.coin = under
                                 /\ FRESH \in m.flags => under = Spent
  <1> DEFINE m == MergedEntry(parent, child)
  <1>1. CASE child = NoEntry \/ (child # NoEntry /\ DIRTY \notin child.flags)
    <2>1. m = parent
      BY <1>1 DEF MergedEntry
    <2> QED BY <2>1, <1>1
  <1>2. CASE child # NoEntry /\ DIRTY \in child.flags /\ parent = NoEntry
    <2>1. CASE FRESH \in child.flags /\ child.coin = Spent
      BY <1>2, <2>1 DEF MergedEntry
    <2>2. CASE ~(FRESH \in child.flags /\ child.coin = Spent)
      <3> DEFINE e == [coin |-> child.coin, flags |-> {DIRTY} \cup (child.flags \cap {FRESH})]
      <3>1. m = e
        BY <1>2, <2>2 DEF MergedEntry
      <3>2. e \in Entry /\ e # NoEntry
        BY <1>2, NoEntryAssumption DEF Entry
      <3> QED BY <3>1, <3>2, <1>2 DEF DIRTY, FRESH
    <2> QED BY <2>1, <2>2
  <1>3. CASE child # NoEntry /\ DIRTY \in child.flags /\ parent # NoEntry
    <2>1. CASE FRESH \in parent.flags /\ child.coin = Spent
      BY <1>3, <2>1 DEF MergedEntry
    <2>2. CASE ~(FRESH \in parent.flags /\ child.coin = Spent)
      <3> DEFINE e == [coin |-> child.coin, flags |-> parent.flags \cup {DIRTY}]
      <3>1. m = e
        BY <1>3, <2>2 DEF MergedEntry
      <3>2. e \in Entry /\ e # NoEntry
        BY <1>3, NoEntryAssumption DEF Entry
      <3> QED BY <3>1, <3>2, <1>3 DEF DIRTY, FRESH
    <2> QED BY <2>1, <2>2
  <1> QED BY <1>1, <1>2, <1>3

(* The usage statements of BatchWrite keep the parent's share exact. *)
LEMMA MergedUsageExact ==
    ASSUME NEW parent \in Entry \cup {NoEntry}, NEW child \in Entry \cup {NoEntry},
           NEW usage \in Nat,
           usage = IF parent = NoEntry THEN 0 ELSE Usage(parent.coin)
    PROVE  LET m == MergedEntry(parent, child)
           IN  /\ MergedUsage(usage, parent, child) \in Nat
               /\ MergedUsage(usage, parent, child) = IF m = NoEntry THEN 0 ELSE Usage(m.coin)
  <1>1. \A c \in CoinOrSpent : Usage(c) \in Nat
    BY UsageAssumption, SpentAssumption DEF Usage, CoinOrSpent
  <1>2. \A e \in Entry : e # NoEntry /\ e.coin \in CoinOrSpent /\ Usage(e.coin) \in Nat
    BY <1>1, NoEntryAssumption DEF Entry
  <1>3. CASE child = NoEntry \/ (child # NoEntry /\ DIRTY \notin child.flags)
    BY <1>3 DEF MergedEntry, MergedUsage
  <1>4. CASE child # NoEntry /\ DIRTY \in child.flags /\ parent = NoEntry
    <2> DEFINE e == [coin |-> child.coin, flags |-> {DIRTY} \cup (child.flags \cap {FRESH})]
    <2>1. e \in Entry
      BY <1>4 DEF Entry
    <2> QED BY <1>2, <1>4, <2>1 DEF MergedEntry, MergedUsage
  <1>5. CASE child # NoEntry /\ DIRTY \in child.flags /\ parent # NoEntry
    <2> DEFINE e == [coin |-> child.coin, flags |-> parent.flags \cup {DIRTY}]
    <2>1. e \in Entry
      BY <1>5 DEF Entry
    <2>2. Usage(parent.coin) \in Nat /\ Usage(child.coin) \in Nat /\ usage = Usage(parent.coin)
      BY <1>2, <1>5
    <2>3. e # NoEntry
      BY <2>1, <1>2
    <2>4. CASE FRESH \in parent.flags /\ child.coin = Spent
      BY <1>5, <2>2, <2>4 DEF MergedEntry, MergedUsage
    <2>5. CASE ~(FRESH \in parent.flags /\ child.coin = Spent)
      <3>1. MergedEntry(parent, child) = e
        BY <1>5, <2>5 DEF MergedEntry
      <3>2. MergedUsage(usage, parent, child) = usage - Usage(parent.coin) + Usage(child.coin)
        BY <1>5, <2>5 DEF MergedUsage
      <3> QED BY <3>1, <3>2, <2>2, <2>3
    <2> QED BY <2>4, <2>5
  <1> QED BY <1>3, <1>4, <1>5

-----------------------------------------------------------------------------
(* What readers of the two caches see, as maps. *)
TipCoins  == [o \in Outpoints |-> TipCoin(o)]
ViewCoins == [o \in Outpoints |-> ViewCoin(o)]

(* The maps are well typed, and the flag invariants speak of them. *)
LEMMA SeenMaps ==
    ASSUME TypeOK
    PROVE  /\ TipCoins \in [Outpoints -> CoinOrSpent]
           /\ ViewCoins \in [Outpoints -> CoinOrSpent]
           /\ \A o \in Outpoints : TipCoins[o] = Seen(tip, db, o)
           /\ \A o \in Outpoints : ViewCoins[o] = Seen(view, TipCoins, o)
           /\ TipFlagsSound <=> Sound(tip, db)
           /\ ViewFlagsSound <=> Sound(view, TipCoins)
  <1>1. \A o \in Outpoints : TipCoin(o) \in CoinOrSpent
    BY DEF TypeOK, Cache, Entry, TipCoin
  <1>2. \A o \in Outpoints : ViewCoin(o) \in CoinOrSpent
    BY <1>1 DEF TypeOK, Cache, Entry, ViewCoin
  <1> QED
    BY <1>1, <1>2 DEF TipCoins, ViewCoins, Seen, Sound, TipCoin, ViewCoin, TipFlagsSound, ViewFlagsSound

(* A fetch by pcoinsTip keeps everything and is invisible. *)
LEMMA TipFetchSound ==
    ASSUME CoinsInv, NEW o \in Outpoints
    PROVE  /\ TipFetched(o) \in Cache
           /\ TipFetchedUsage(o) \in [Outpoints -> Nat]
           /\ Accounted(TipFetched(o), TipFetchedUsage(o))
           /\ Sound(TipFetched(o), db)
           /\ \A p \in Outpoints : Seen(TipFetched(o), db, p) = TipCoins[p]
           /\ TipFetched(o)[o] # NoEntry => TipFetched(o)[o].coin = TipCoins[o]
           /\ TipFetched(o)[o] = NoEntry => TipCoins[o] = Spent
  <1>1. /\ tip \in Cache /\ tipUsage \in [Outpoints -> Nat] /\ db \in [Outpoints -> CoinOrSpent]
        /\ Accounted(tip, tipUsage) /\ Sound(tip, db)
    BY SeenMaps DEF CoinsInv, TypeOK, UsageExact
  <1>2. (db[o] # Spent) \in BOOLEAN /\ db[o] \in CoinOrSpent
    BY <1>1
  <1>3. /\ TipFetched(o) \in Cache
        /\ TipFetchedUsage(o) \in [Outpoints -> Nat]
        /\ Accounted(TipFetched(o), TipFetchedUsage(o))
    BY <1>1, <1>2, FetchKeepsCache DEF TipFetched, TipFetchedUsage
  <1>4. /\ Sound(TipFetched(o), db)
        /\ \A p \in Outpoints : Seen(TipFetched(o), db, p) = Seen(tip, db, p)
    BY <1>1, <1>2, FetchInvisible DEF TipFetched
  <1>5. \A p \in Outpoints : Seen(TipFetched(o), db, p) = TipCoins[p]
    BY <1>4, SeenMaps DEF CoinsInv
  <1>6. TipFetched(o)[o] # NoEntry => TipFetched(o)[o].coin = TipCoins[o]
    BY <1>5 DEF Seen
  <1>7. TipFetched(o)[o] = NoEntry => TipCoins[o] = Spent
    <2> DEFINE e == [coin |-> db[o], flags |-> IF db[o] = Spent THEN {FRESH} ELSE {}]
    <2>1. e # NoEntry
      BY <1>1, NoEntryAssumption DEF Entry, DIRTY, FRESH
    <2>2. TipFetched(o)[o] = NoEntry => db[o] = Spent
      BY <2>1, <1>1 DEF TipFetched, Fetched, Cache
    <2> QED BY <2>2, <1>5 DEF Seen
  <1> QED BY <1>3, <1>4, <1>5, <1>6, <1>7

(* The same for the level below the view, which is asked only when the     *)
(* view has no entry.                                                      *)
LEMMA BelowFetchSound ==
    ASSUME CoinsInv, NEW o \in Outpoints
    PROVE  /\ BelowFetched(o) \in Cache
           /\ BelowFetchedUsage(o) \in [Outpoints -> Nat]
           /\ Accounted(BelowFetched(o), BelowFetchedUsage(o))
           /\ Sound(BelowFetched(o), db)
           /\ \A p \in Outpoints : Seen(BelowFetched(o), db, p) = TipCoins[p]
  <1>1. CASE view[o] # NoEntry
    <2>1. BelowFetched(o) = tip /\ BelowFetchedUsage(o) = tipUsage
      BY <1>1 DEF BelowFetched, BelowFetchedUsage
    <2> QED BY <2>1, SeenMaps DEF CoinsInv, TypeOK, UsageExact
  <1>2. CASE view[o] = NoEntry
    <2>1. BelowFetched(o) = TipFetched(o) /\ BelowFetchedUsage(o) = TipFetchedUsage(o)
      BY <1>2 DEF BelowFetched, BelowFetchedUsage
    <2> QED BY <2>1, TipFetchSound
  <1> QED BY <1>1, <1>2

(* A fetch by the view keeps everything and is invisible; without an entry *)
(* after it there is no coin.                                              *)
LEMMA ViewFetchSound ==
    ASSUME CoinsInv, NEW o \in Outpoints
    PROVE  /\ ViewFetched(o) \in Cache
           /\ ViewFetchedUsage(o) \in [Outpoints -> Nat]
           /\ Accounted(ViewFetched(o), ViewFetchedUsage(o))
           /\ Sound(ViewFetched(o), TipCoins)
           /\ \A p \in Outpoints : Seen(ViewFetched(o), TipCoins, p) = ViewCoins[p]
           /\ ViewFetched(o)[o] = NoEntry => ViewCoins[o] = Spent /\ ViewFetched(o) = view
  <1> DEFINE below == TipFetched(o)[o]
             have  == below # NoEntry
  <1>1. /\ view \in Cache /\ viewUsage \in [Outpoints -> Nat]
        /\ TipCoins \in [Outpoints -> CoinOrSpent]
        /\ Accounted(view, viewUsage) /\ Sound(view, TipCoins)
    BY SeenMaps DEF CoinsInv, TypeOK, UsageExact
  <1>2. have \in BOOLEAN
    OBVIOUS
  <1>3. ViewFetched(o) = Fetched(view, o, have, TipCoins[o])
    BY TipFetchSound DEF ViewFetched, Fetched
  <1>4. ViewFetchedUsage(o) = FetchUsage(viewUsage, view, o, have, TipCoins[o])
    BY TipFetchSound DEF ViewFetchedUsage, FetchUsage
  <1>5. TipCoins[o] \in CoinOrSpent
    BY <1>1
  <1> HIDE DEF have
  <1>6. /\ ViewFetched(o) \in Cache
        /\ ViewFetchedUsage(o) \in [Outpoints -> Nat]
        /\ Accounted(ViewFetched(o), ViewFetchedUsage(o))
    BY <1>1, <1>2, <1>3, <1>4, <1>5, FetchKeepsCache
  <1>7. /\ Sound(ViewFetched(o), TipCoins)
        /\ \A p \in Outpoints : Seen(ViewFetched(o), TipCoins, p) = Seen(view, TipCoins, p)
    BY <1>1, <1>2, <1>3, FetchInvisible
  <1>8. \A p \in Outpoints : Seen(ViewFetched(o), TipCoins, p) = ViewCoins[p]
    BY <1>7, SeenMaps DEF CoinsInv
  <1>9. ViewFetched(o)[o] = NoEntry => ViewCoins[o] = Spent /\ ViewFetched(o) = view
    <2> DEFINE e == [coin |-> TipCoins[o], flags |-> IF TipCoins[o] = Spent THEN {FRESH} ELSE {}]
    <2>1. e # NoEntry
      BY <1>5, NoEntryAssumption DEF Entry, DIRTY, FRESH
    <2>2. ViewFetched(o)[o] = NoEntry => view[o] = NoEntry /\ ~have
      BY <2>1, <1>1, <1>3 DEF Fetched, Cache
    <2>3. ~have => TipCoins[o] = Spent
      BY TipFetchSound DEF have
    <2>4. ViewFetched(o)[o] = NoEntry => ViewFetched(o) = view
      BY <2>2, <1>3 DEF Fetched
    <2> QED BY <2>2, <2>3, <2>4, <1>8 DEF Seen
  <1> QED BY <1>6, <1>7, <1>8, <1>9

(* The invariant after a step, from facts about the new caches over the    *)
(* same database.                                                          *)
LEMMA StepKeepsInv ==
    ASSUME CoinsInv, dbVars' = dbVars,
           tip' \in Cache, tipUsage' \in [Outpoints -> Nat], tipBest' \in Blocks \cup {NoBlock},
           view' \in Cache, viewUsage' \in [Outpoints -> Nat], viewBest' \in Blocks \cup {NoBlock},
           open' \in BOOLEAN,
           Accounted(tip', tipUsage'), Accounted(view', viewUsage'),
           Sound(tip', db), \A p \in Outpoints : Seen(tip', db, p) = TipCoins[p],
           Sound(view', TipCoins),
           ClosedViewEmpty'
    PROVE  /\ CoinsInv' /\ TipCoins' = TipCoins
           /\ ViewCoins' = [p \in Outpoints |-> Seen(view', TipCoins, p)]
  <1>1. TypeOK'
    BY DEF CoinsInv, TypeOK, dbVars
  <1>2. db' = db
    BY DEF dbVars
  <1>3. /\ TipCoins' \in [Outpoints -> CoinOrSpent]
        /\ \A o \in Outpoints : TipCoins'[o] = Seen(tip', db', o)
        /\ TipFlagsSound' <=> Sound(tip', db')
        /\ ViewFlagsSound' <=> Sound(view', TipCoins')
    <2>1. \A o \in Outpoints : TipCoin(o)' \in CoinOrSpent
      BY <1>1 DEF TypeOK, Cache, Entry, TipCoin
    <2> QED
      BY <2>1 DEF TipCoins, Seen, Sound, TipCoin, TipFlagsSound, ViewFlagsSound
  <1>4. TipCoins' = TipCoins
    BY <1>2, <1>3, SeenMaps DEF CoinsInv
  <1>5. UsageExact'
    BY DEF UsageExact, Accounted
  <1>6. ViewCoins' = [p \in Outpoints |-> Seen(view', TipCoins, p)]
    <2>1. \A p \in Outpoints : TipCoin(p)' = TipCoins[p]
      BY <1>4 DEF TipCoins
    <2> QED BY <2>1 DEF ViewCoins, ViewCoin, Seen
  <1> QED BY <1>1, <1>2, <1>3, <1>4, <1>5, <1>6 DEF CoinsInv

-----------------------------------------------------------------------------
(* One lemma per operation: the invariant is kept, and the operation does  *)
(* to the maps the readers see what the ledger does.                       *)

(* An empty cache is in order and shows the level below. *)
LEMMA EmptyCacheSound ==
    ASSUME NEW below
    PROVE  /\ EmptyCache \in Cache /\ NoUsage \in [Outpoints -> Nat]
           /\ Accounted(EmptyCache, NoUsage) /\ Sound(EmptyCache, below)
           /\ \A o \in Outpoints : Seen(EmptyCache, below, o) = below[o]
  BY DEF EmptyCache, NoUsage, Cache, Accounted, Sound, Seen

(* CCoinsViewCache view(pcoinsTip), and the end of its scope unflushed. *)
LEMMA ViewResetStep ==
    ASSUME CoinsInv, view' = EmptyCache, viewUsage' = NoUsage, viewBest' = NoBlock,
           open' \in BOOLEAN, UNCHANGED <<dbVars, tipVars>>
    PROVE  CoinsInv' /\ TipCoins' = TipCoins /\ ViewCoins' = TipCoins
  <1>1. /\ tip' \in Cache /\ tipUsage' \in [Outpoints -> Nat] /\ tipBest' \in Blocks \cup {NoBlock}
        /\ Accounted(tip', tipUsage') /\ Sound(tip', db)
        /\ \A p \in Outpoints : Seen(tip', db, p) = TipCoins[p]
        /\ TipCoins \in [Outpoints -> CoinOrSpent]
    BY SeenMaps DEF CoinsInv, TypeOK, UsageExact, tipVars
  <1>2. ClosedViewEmpty'
    BY DEF ClosedViewEmpty
  <1>3. dbVars' = dbVars
    OBVIOUS
  <1>4. /\ CoinsInv' /\ TipCoins' = TipCoins
        /\ ViewCoins' = [p \in Outpoints |-> Seen(view', TipCoins, p)]
    BY <1>1, <1>2, <1>3, EmptyCacheSound, StepKeepsInv
  <1> QED BY <1>1, <1>4, EmptyCacheSound

(* AccessCoin, HaveCoin and GetCoin on the view. *)
LEMMA ViewAccessStep ==
    ASSUME CoinsInv, NEW o \in Outpoints, ViewAccess(o)
    PROVE  CoinsInv' /\ TipCoins' = TipCoins /\ ViewCoins' = ViewCoins
  <1>1. /\ tip' = BelowFetched(o) /\ tipUsage' = BelowFetchedUsage(o)
        /\ view' = ViewFetched(o) /\ viewUsage' = ViewFetchedUsage(o)
        /\ dbVars' = dbVars /\ tipBest' \in Blocks \cup {NoBlock} /\ viewBest' \in Blocks \cup {NoBlock}
        /\ open' \in BOOLEAN /\ ClosedViewEmpty'
    BY DEF ViewAccess, CoinsInv, TypeOK, ClosedViewEmpty
  <1>2. /\ CoinsInv' /\ TipCoins' = TipCoins
        /\ ViewCoins' = [p \in Outpoints |-> Seen(view', TipCoins, p)]
    BY <1>1, BelowFetchSound, ViewFetchSound, StepKeepsInv
  <1> QED BY <1>1, <1>2, ViewFetchSound, SeenMaps DEF CoinsInv

(* AddCoin on the view. *)
LEMMA ViewAddCoinStep ==
    ASSUME CoinsInv, NEW o \in Outpoints, NEW c \in Coins, ViewAddCoin(o, c)
    PROVE  CoinsInv' /\ TipCoins' = TipCoins /\ ViewCoins' = [ViewCoins EXCEPT ![o] = c]
  <1> DEFINE e == AddedEntry(view[o], c)
  <1>1. /\ view \in Cache /\ viewUsage \in [Outpoints -> Nat] /\ Sound(view, TipCoins)
        /\ TipCoins \in [Outpoints -> CoinOrSpent] /\ ViewCoins \in [Outpoints -> CoinOrSpent]
        /\ Accounted(view, viewUsage)
        /\ \A p \in Outpoints : ViewCoins[p] = Seen(view, TipCoins, p)
    BY SeenMaps DEF CoinsInv, TypeOK, UsageExact
  <1>2. ViewCoins[o] = Spent
    BY DEF ViewAddCoin, ViewCoins
  <1>3. view[o] \in Entry \cup {NoEntry} /\ TipCoins[o] \in CoinOrSpent
    BY <1>1 DEF Cache
  <1>4. /\ view[o] = NoEntry => TipCoins[o] = Spent
        /\ view[o] # NoEntry => /\ view[o].coin = Spent
                                /\ DIRTY \notin view[o].flags => view[o].coin = TipCoins[o]
                                /\ FRESH \in view[o].flags => TipCoins[o] = Spent
    BY <1>1, <1>2 DEF Seen, Sound
  <1>5. /\ e \in Entry /\ e.coin = c /\ DIRTY \in e.flags
        /\ FRESH \in e.flags => TipCoins[o] = Spent
    BY <1>3, <1>4, AddedEntrySound
  <1>6. e # NoEntry
    BY <1>5, NoEntryAssumption
  <1> HIDE DEF e
  <1>7. view' = [view EXCEPT ![o] = e]
    BY DEF ViewAddCoin, e
  <1>8. /\ viewUsage' \in [Outpoints -> Nat]
        /\ Accounted(view', viewUsage')
    <2>1. Usage(c) \in Nat /\ Usage(Spent) = 0
      BY UsageAssumption, SpentAssumption DEF Usage
    <2>2. viewUsage[o] = 0
      BY <1>1, <1>4, <2>1 DEF Accounted
    <2> DEFINE old == IF view[o] = NoEntry THEN 0 ELSE Usage(view[o].coin)
    <2>3. viewUsage' = [viewUsage EXCEPT ![o] = Usage(c)]
      <3>1. old = 0
        BY <1>4, <2>1
      <3>2. viewUsage' = [viewUsage EXCEPT ![o] = viewUsage[o] - old + Usage(c)]
        BY Zenon DEF ViewAddCoin
      <3> HIDE DEF old
      <3>3. viewUsage[o] - old + Usage(c) = Usage(c)
        BY <2>1, <2>2, <3>1
      <3> QED BY <3>2, <3>3, Zenon
    <2> QED BY <1>1, <1>5, <1>6, <1>7, <2>1, <2>3 DEF Accounted, Cache
  <1>9. view' \in Cache /\ Sound(view', TipCoins)
    BY <1>1, <1>5, <1>6, <1>7 DEF Sound, Cache
  <1>10. /\ tip' \in Cache /\ tipUsage' \in [Outpoints -> Nat] /\ tipBest' \in Blocks \cup {NoBlock}
         /\ Accounted(tip', tipUsage') /\ Sound(tip', db)
         /\ \A p \in Outpoints : Seen(tip', db, p) = TipCoins[p]
    BY SeenMaps DEF CoinsInv, TypeOK, UsageExact, tipVars, ViewAddCoin
  <1>11. /\ dbVars' = dbVars /\ viewBest' \in Blocks \cup {NoBlock} /\ open' \in BOOLEAN
         /\ ClosedViewEmpty'
    BY DEF ViewAddCoin, CoinsInv, TypeOK, ClosedViewEmpty
  <1>12. /\ CoinsInv' /\ TipCoins' = TipCoins
         /\ ViewCoins' = [p \in Outpoints |-> Seen(view', TipCoins, p)]
    BY <1>8, <1>9, <1>10, <1>11, StepKeepsInv
  <1> QED BY <1>1, <1>5, <1>6, <1>7, <1>12 DEF Seen, Cache

(* SpendCoin on the view. *)
LEMMA ViewSpendCoinStep ==
    ASSUME CoinsInv, NEW o \in Outpoints, ViewSpendCoin(o)
    PROVE  CoinsInv' /\ TipCoins' = TipCoins /\ ViewCoins' = [ViewCoins EXCEPT ![o] = Spent]
  <1> DEFINE fetched == ViewFetched(o)
  <1>1. /\ tip' = BelowFetched(o) /\ tipUsage' = BelowFetchedUsage(o)
        /\ dbVars' = dbVars /\ tipBest' \in Blocks \cup {NoBlock} /\ viewBest' \in Blocks \cup {NoBlock}
        /\ open' \in BOOLEAN /\ ClosedViewEmpty'
    BY DEF ViewSpendCoin, CoinsInv, TypeOK, ClosedViewEmpty
  <1>2. TipCoins \in [Outpoints -> CoinOrSpent] /\ ViewCoins \in [Outpoints -> CoinOrSpent]
    BY SeenMaps DEF CoinsInv
  <1>3. CASE fetched[o] = NoEntry
    <2>1. view' = view /\ viewUsage' = viewUsage /\ ViewCoins[o] = Spent
      BY <1>3, ViewFetchSound DEF ViewSpendCoin
    <2>2. /\ view \in Cache /\ viewUsage \in [Outpoints -> Nat] /\ Sound(view, TipCoins)
          /\ Accounted(view, viewUsage)
          /\ \A p \in Outpoints : ViewCoins[p] = Seen(view, TipCoins, p)
      BY SeenMaps DEF CoinsInv, TypeOK, UsageExact
    <2>3. /\ CoinsInv' /\ TipCoins' = TipCoins
          /\ ViewCoins' = [p \in Outpoints |-> Seen(view', TipCoins, p)]
      BY <1>1, <2>1, <2>2, BelowFetchSound, StepKeepsInv
    <2> QED BY <1>2, <2>1, <2>2, <2>3
  <1>4. CASE fetched[o] # NoEntry
    <2> DEFINE e == SpentEntry(fetched[o])
    <2>1. /\ view' = [fetched EXCEPT ![o] = e]
          /\ viewUsage' = [ViewFetchedUsage(o) EXCEPT ![o] = @ - Usage(fetched[o].coin)]
      BY <1>4 DEF ViewSpendCoin
    <2>2. /\ fetched \in Cache /\ ViewFetchedUsage(o) \in [Outpoints -> Nat]
          /\ Accounted(fetched, ViewFetchedUsage(o)) /\ Sound(fetched, TipCoins)
          /\ \A p \in Outpoints : Seen(fetched, TipCoins, p) = ViewCoins[p]
      BY ViewFetchSound
    <2>3. /\ fetched[o] \in Entry /\ TipCoins[o] \in CoinOrSpent
          /\ FRESH \in fetched[o].flags => TipCoins[o] = Spent
      BY <1>2, <1>4, <2>2 DEF Cache, Sound
    <2>4. \/ e = NoEntry /\ TipCoins[o] = Spent
          \/ /\ e \in Entry /\ e # NoEntry /\ e.coin = Spent
             /\ DIRTY \in e.flags /\ FRESH \notin e.flags
      BY <2>3, SpentEntrySound, NoEntryAssumption
    <2> HIDE DEF e, fetched
    <2>5. view' \in Cache /\ Sound(view', TipCoins)
      BY <2>1, <2>2, <2>4 DEF Cache, Sound
    <2>6. viewUsage' \in [Outpoints -> Nat] /\ Accounted(view', viewUsage')
      <3>1. Usage(Spent) = 0
        BY DEF Usage
      <3>2. ViewFetchedUsage(o)[o] = Usage(fetched[o].coin) /\ ViewFetchedUsage(o)[o] \in Nat
        BY <1>4, <2>2 DEF Accounted
      <3> DEFINE u == ViewFetchedUsage(o)
      <3>3. u[o] - Usage(fetched[o].coin) = 0
        BY <3>2
      <3>4. viewUsage' = [u EXCEPT ![o] = u[o] - Usage(fetched[o].coin)]
        BY <2>1
      <3>5. viewUsage' = [u EXCEPT ![o] = 0]
        BY <3>3, <3>4, Zenon
      <3> QED BY <2>1, <2>2, <2>4, <3>1, <3>5 DEF Accounted, Cache
    <2>7. /\ CoinsInv' /\ TipCoins' = TipCoins
          /\ ViewCoins' = [p \in Outpoints |-> Seen(view', TipCoins, p)]
      BY <1>1, <2>5, <2>6, BelowFetchSound, StepKeepsInv
    <2> QED BY <1>2, <2>1, <2>2, <2>4, <2>7 DEF Seen, Cache
  <1> QED BY <1>3, <1>4

(* view.Flush() into pcoinsTip: the tip's reader sees what the view's saw. *)
LEMMA FlushViewStep ==
    ASSUME CoinsInv, FlushView
    PROVE  CoinsInv' /\ TipCoins' = ViewCoins /\ ViewCoins' = ViewCoins
  <1>1. /\ tip \in Cache /\ tipUsage \in [Outpoints -> Nat] /\ view \in Cache
        /\ db \in [Outpoints -> CoinOrSpent] /\ Sound(tip, db) /\ Sound(view, TipCoins)
        /\ Accounted(tip, tipUsage)
        /\ TipCoins \in [Outpoints -> CoinOrSpent] /\ ViewCoins \in [Outpoints -> CoinOrSpent]
        /\ \A p \in Outpoints : TipCoins[p] = Seen(tip, db, p)
        /\ \A p \in Outpoints : ViewCoins[p] = Seen(view, TipCoins, p)
    BY SeenMaps DEF CoinsInv, TypeOK, UsageExact
  <1>2. /\ tip' = [p \in Outpoints |-> MergedEntry(tip[p], view[p])]
        /\ tipUsage' = [p \in Outpoints |-> MergedUsage(tipUsage[p], tip[p], view[p])]
        /\ view' = EmptyCache /\ viewUsage' = NoUsage /\ db' = db /\ dbBest' = dbBest
        /\ viewBest' = NoBlock /\ tipBest' = viewBest /\ open' = FALSE
    BY DEF FlushView, dbVars
  <1>3. \A p \in Outpoints :
           LET m == MergedEntry(tip[p], view[p])
           IN  /\ m \in Entry \cup {NoEntry}
               /\ (IF m = NoEntry THEN db[p] ELSE m.coin) = ViewCoins[p]
               /\ m # NoEntry => /\ DIRTY \notin m.flags => m.coin = db[p]
                                 /\ FRESH \in m.flags => db[p] = Spent
    <2> TAKE p \in Outpoints
    <2>1. /\ tip[p] \in Entry \cup {NoEntry} /\ view[p] \in Entry \cup {NoEntry}
          /\ db[p] \in CoinOrSpent
          /\ TipCoins[p] = IF tip[p] = NoEntry THEN db[p] ELSE tip[p].coin
          /\ ViewCoins[p] = IF view[p] = NoEntry THEN TipCoins[p] ELSE view[p].coin
          /\ tip[p] # NoEntry => /\ DIRTY \notin tip[p].flags => tip[p].coin = db[p]
                                 /\ FRESH \in tip[p].flags => db[p] = Spent
          /\ view[p] # NoEntry => /\ DIRTY \notin view[p].flags => view[p].coin = TipCoins[p]
                                  /\ FRESH \in view[p].flags => TipCoins[p] = Spent
      BY <1>1 DEF Cache, Seen, Sound
    <2> QED BY <2>1, MergedEntrySound
  <1>4. \A p \in Outpoints :
           /\ MergedUsage(tipUsage[p], tip[p], view[p]) \in Nat
           /\ MergedUsage(tipUsage[p], tip[p], view[p]) =
                 IF MergedEntry(tip[p], view[p]) = NoEntry THEN 0
                 ELSE Usage(MergedEntry(tip[p], view[p]).coin)
    <2> TAKE p \in Outpoints
    <2>1. /\ tip[p] \in Entry \cup {NoEntry} /\ view[p] \in Entry \cup {NoEntry}
          /\ tipUsage[p] \in Nat
          /\ tipUsage[p] = IF tip[p] = NoEntry THEN 0 ELSE Usage(tip[p].coin)
      BY <1>1 DEF Cache, Accounted
    <2> QED BY <2>1, MergedUsageExact
  <1>5. tip' \in Cache /\ Sound(tip', db) /\ \A p \in Outpoints : Seen(tip', db, p) = ViewCoins[p]
    BY <1>2, <1>3 DEF Cache, Sound, Seen
  <1>6. tipUsage' \in [Outpoints -> Nat] /\ Accounted(tip', tipUsage')
    BY <1>2, <1>4 DEF Accounted
  <1>7. TypeOK'
    BY <1>2, <1>5, <1>6, EmptyCacheSound DEF TypeOK, CoinsInv
  <1>8. \A p \in Outpoints : TipCoin(p)' = ViewCoins[p] /\ ViewCoin(p)' = ViewCoins[p]
    BY <1>2, <1>5 DEF TipCoin, ViewCoin, Seen, EmptyCache
  <1>9. TipCoins' = ViewCoins /\ ViewCoins' = ViewCoins
    BY <1>1, <1>8 DEF TipCoins, ViewCoins
  <1>10. TipFlagsSound' /\ ViewFlagsSound'
    BY <1>2, <1>5 DEF TipFlagsSound, ViewFlagsSound, Sound, EmptyCache
  <1>11. UsageExact' /\ ClosedViewEmpty'
    BY <1>2, <1>6 DEF UsageExact, ClosedViewEmpty, Accounted, EmptyCache, NoUsage
  <1> QED BY <1>7, <1>9, <1>10, <1>11 DEF CoinsInv

(* Reads of pcoinsTip while no view is open. *)
LEMMA TipAccessStep ==
    ASSUME CoinsInv, NEW o \in Outpoints, TipAccess(o)
    PROVE  CoinsInv' /\ TipCoins' = TipCoins /\ ViewCoins' = ViewCoins
  <1>1. /\ tip' = TipFetched(o) /\ tipUsage' = TipFetchedUsage(o) /\ view' = view
        /\ viewUsage' = viewUsage
        /\ dbVars' = dbVars /\ tipBest' \in Blocks \cup {NoBlock} /\ viewBest' \in Blocks \cup {NoBlock}
        /\ open' \in BOOLEAN /\ ClosedViewEmpty'
    BY DEF TipAccess, CoinsInv, TypeOK, ClosedViewEmpty, viewVars
  <1>2. /\ view' \in Cache /\ viewUsage' \in [Outpoints -> Nat] /\ Accounted(view', viewUsage')
        /\ Sound(view', TipCoins) /\ ViewCoins \in [Outpoints -> CoinOrSpent]
        /\ \A p \in Outpoints : ViewCoins[p] = Seen(view, TipCoins, p)
    BY <1>1, SeenMaps DEF CoinsInv, TypeOK, UsageExact
  <1>3. /\ CoinsInv' /\ TipCoins' = TipCoins
        /\ ViewCoins' = [p \in Outpoints |-> Seen(view', TipCoins, p)]
    BY <1>1, <1>2, TipFetchSound, StepKeepsInv
  <1> QED BY <1>1, <1>2, <1>3

(* Uncache drops an unmodified entry only. *)
LEMMA TipUncacheStep ==
    ASSUME CoinsInv, NEW o \in Outpoints, TipUncache(o)
    PROVE  CoinsInv' /\ TipCoins' = TipCoins /\ ViewCoins' = ViewCoins
  <1>1. /\ tip' = [tip EXCEPT ![o] = NoEntry] /\ tip[o] # NoEntry /\ tip[o].flags = {}
        /\ tipUsage' = [tipUsage EXCEPT ![o] = @ - Usage(tip[o].coin)]
        /\ view' = view /\ viewUsage' = viewUsage
        /\ dbVars' = dbVars /\ tipBest' \in Blocks \cup {NoBlock} /\ viewBest' \in Blocks \cup {NoBlock}
        /\ open' \in BOOLEAN /\ ClosedViewEmpty'
    BY DEF TipUncache, CoinsInv, TypeOK, ClosedViewEmpty, viewVars
  <1>2. /\ view' \in Cache /\ viewUsage' \in [Outpoints -> Nat] /\ Accounted(view', viewUsage')
        /\ Sound(view', TipCoins) /\ ViewCoins \in [Outpoints -> CoinOrSpent]
        /\ \A p \in Outpoints : ViewCoins[p] = Seen(view, TipCoins, p)
        /\ tip \in Cache /\ tipUsage \in [Outpoints -> Nat] /\ Accounted(tip, tipUsage)
        /\ Sound(tip, db) /\ \A p \in Outpoints : TipCoins[p] = Seen(tip, db, p)
    BY <1>1, SeenMaps DEF CoinsInv, TypeOK, UsageExact
  <1>3. tip[o].coin = db[o]
    BY <1>1, <1>2 DEF Sound
  <1>4. tip' \in Cache /\ Sound(tip', db) /\ \A p \in Outpoints : Seen(tip', db, p) = TipCoins[p]
    BY <1>1, <1>2, <1>3 DEF Cache, Sound, Seen
  <1>5. tipUsage' \in [Outpoints -> Nat] /\ Accounted(tip', tipUsage')
    <2>1. tipUsage[o] = Usage(tip[o].coin) /\ tipUsage[o] \in Nat
      BY <1>1, <1>2 DEF Accounted
    <2>2. tipUsage[o] - Usage(tip[o].coin) = 0
      BY <2>1
    <2>3. tipUsage' = [tipUsage EXCEPT ![o] = 0]
      BY <1>1, <2>2, Zenon
    <2> QED BY <1>1, <1>2, <2>3 DEF Accounted, Cache
  <1>6. /\ CoinsInv' /\ TipCoins' = TipCoins
        /\ ViewCoins' = [p \in Outpoints |-> Seen(view', TipCoins, p)]
    BY <1>1, <1>2, <1>4, <1>5, StepKeepsInv
  <1> QED BY <1>1, <1>2, <1>6

(* Empty caches over a database are in order, whatever the database holds. *)
LEMMA EmptyStackStep ==
    ASSUME db' \in [Outpoints -> CoinOrSpent], dbBest' \in Blocks \cup {NoBlock},
           tip' = EmptyCache, tipUsage' = NoUsage, tipBest' \in Blocks \cup {NoBlock},
           view' = EmptyCache, viewUsage' = NoUsage, viewBest' = NoBlock, open' \in BOOLEAN
    PROVE  CoinsInv' /\ TipCoins' = db' /\ ViewCoins' = db'
  <1>1. TypeOK'
    BY EmptyCacheSound DEF TypeOK
  <1>2. TipCoins' = db' /\ ViewCoins' = db'
    BY DEF TipCoins, ViewCoins, TipCoin, ViewCoin, EmptyCache
  <1>3. TipFlagsSound' /\ ViewFlagsSound' /\ UsageExact' /\ ClosedViewEmpty'
    BY DEF TipFlagsSound, ViewFlagsSound, UsageExact, Accounted, ClosedViewEmpty, EmptyCache, NoUsage
  <1> QED BY <1>1, <1>2, <1>3 DEF CoinsInv

(* pcoinsTip->Flush(): the database becomes what the tip's reader sees. *)
LEMMA FlushTipStep ==
    ASSUME CoinsInv, FlushTip
    PROVE  CoinsInv' /\ db' = TipCoins /\ TipCoins' = TipCoins /\ ViewCoins' = ViewCoins
  <1>1. /\ tip \in Cache /\ db \in [Outpoints -> CoinOrSpent] /\ Sound(tip, db)
        /\ TipCoins \in [Outpoints -> CoinOrSpent] /\ ViewCoins \in [Outpoints -> CoinOrSpent]
        /\ \A p \in Outpoints : TipCoins[p] = Seen(tip, db, p)
        /\ \A p \in Outpoints : ViewCoins[p] = Seen(view, TipCoins, p)
    BY SeenMaps DEF CoinsInv, TypeOK
  <1>2. db' = TipCoins
    <2>1. db' = [p \in Outpoints |-> WrittenCoin(db[p], tip[p])]
      BY DEF FlushTip
    <2>2. \A p \in Outpoints : WrittenCoin(db[p], tip[p]) = TipCoins[p]
      BY <1>1 DEF WrittenCoin, Seen, Sound
    <2> QED BY <1>1, <2>1, <2>2
  <1>3. view = EmptyCache /\ viewBest = NoBlock
    BY DEF FlushTip, CoinsInv, ClosedViewEmpty
  <1>4. ViewCoins = TipCoins
    BY <1>1, <1>3, EmptyCacheSound
  <1>5. viewUsage = NoUsage
    BY <1>3 DEF CoinsInv, UsageExact, Accounted, TypeOK, EmptyCache, NoUsage
  <1>6. /\ db' \in [Outpoints -> CoinOrSpent] /\ dbBest' \in Blocks \cup {NoBlock}
        /\ tip' = EmptyCache /\ tipUsage' = NoUsage /\ tipBest' \in Blocks \cup {NoBlock}
        /\ view' = EmptyCache /\ viewUsage' = NoUsage /\ viewBest' = NoBlock /\ open' \in BOOLEAN
    BY <1>1, <1>2, <1>3, <1>5 DEF FlushTip, CoinsInv, TypeOK, viewVars
  <1> QED BY <1>2, <1>4, <1>6, EmptyStackStep

-----------------------------------------------------------------------------
(* The inductive step: every operation keeps the invariant. *)
LEMMA InvInductive ==
    ASSUME CoinsInv, [Next]_vars
    PROVE  CoinsInv'
  <1>1. CASE OpenView
    <2>1. open' \in BOOLEAN
      BY <1>1 DEF OpenView
    <2> QED BY <1>1, <2>1, ViewResetStep DEF OpenView
  <1>2. CASE ViewGetBestBlock
    <2>1. /\ UNCHANGED <<dbVars, tip, tipUsage, view, viewUsage, open>> /\ open
          /\ tipBest' \in Blocks \cup {NoBlock} /\ viewBest' \in Blocks \cup {NoBlock}
      BY <1>2 DEF ViewGetBestBlock, ViewBlock, TipBlock, CoinsInv, TypeOK
    <2> QED BY <2>1 DEF CoinsInv, TypeOK, TipFlagsSound, ViewFlagsSound, UsageExact, Accounted,
                        ClosedViewEmpty, TipCoin, dbVars
  <1>3. CASE FlushView
    BY <1>3, FlushViewStep
  <1>4. CASE DropView
    <2>1. open' \in BOOLEAN
      BY <1>4 DEF DropView
    <2> QED BY <1>4, <2>1, ViewResetStep DEF DropView
  <1>5. ASSUME NEW b \in Blocks, ViewSetBestBlock(b)
        PROVE  CoinsInv'
    <2>1. /\ UNCHANGED <<dbVars, tipVars, view, viewUsage, open>> /\ open
          /\ viewBest' \in Blocks \cup {NoBlock}
      BY <1>5 DEF ViewSetBestBlock
    <2> QED BY <2>1 DEF CoinsInv, TypeOK, TipFlagsSound, ViewFlagsSound, UsageExact, Accounted,
                        ClosedViewEmpty, TipCoin, dbVars, tipVars
  <1>6. ASSUME NEW o \in Outpoints, NEW c \in Coins, ViewAddCoin(o, c)
        PROVE  CoinsInv'
    BY <1>6, ViewAddCoinStep
  <1>7. ASSUME NEW o \in Outpoints, ViewAccess(o)
        PROVE  CoinsInv'
    BY <1>7, ViewAccessStep
  <1>8. ASSUME NEW o \in Outpoints, ViewSpendCoin(o)
        PROVE  CoinsInv'
    BY <1>8, ViewSpendCoinStep
  <1>9. ASSUME NEW o \in Outpoints, TipAccess(o)
        PROVE  CoinsInv'
    BY <1>9, TipAccessStep
  <1>10. ASSUME NEW o \in Outpoints, TipUncache(o)
         PROVE  CoinsInv'
    BY <1>10, TipUncacheStep
  <1>11. CASE FlushTip
    BY <1>11, FlushTipStep
  <1>12. CASE Crash
    <2>1. /\ db' \in [Outpoints -> CoinOrSpent] /\ dbBest' \in Blocks \cup {NoBlock}
          /\ tip' = EmptyCache /\ tipUsage' = NoUsage /\ tipBest' \in Blocks \cup {NoBlock}
          /\ view' = EmptyCache /\ viewUsage' = NoUsage /\ viewBest' = NoBlock /\ open' \in BOOLEAN
      BY <1>12 DEF Crash, CoinsInv, TypeOK, dbVars
    <2> QED BY <2>1, EmptyStackStep
  <1>13. CASE UNCHANGED vars
    BY <1>13 DEF CoinsInv, TypeOK, TipFlagsSound, ViewFlagsSound, UsageExact, Accounted,
                 ClosedViewEmpty, TipCoin, vars, dbVars, tipVars, viewVars
  <1> QED BY <1>1, <1>2, <1>3, <1>4, <1>5, <1>6, <1>7, <1>8, <1>9, <1>10, <1>11, <1>12, <1>13 DEF Next

(* The empty stack over an empty database satisfies the invariant. *)
LEMMA InvInitially ==
    ASSUME Init
    PROVE  CoinsInv
  <1>1. /\ tip = EmptyCache /\ tipUsage = NoUsage /\ view = EmptyCache /\ viewUsage = NoUsage
        /\ viewBest = NoBlock /\ tipBest = NoBlock /\ dbBest = NoBlock /\ open = FALSE
        /\ db \in [Outpoints -> CoinOrSpent]
    BY DEF Init, CoinOrSpent
  <1>2. TypeOK
    BY <1>1, EmptyCacheSound DEF TypeOK
  <1>3. TipFlagsSound /\ ViewFlagsSound
    BY <1>1 DEF TipFlagsSound, ViewFlagsSound, EmptyCache
  <1>4. UsageExact /\ ClosedViewEmpty
    BY <1>1, EmptyCacheSound DEF UsageExact, ClosedViewEmpty
  <1> QED BY <1>2, <1>3, <1>4 DEF CoinsInv

(* The invariant holds in every reachable state of the coin views. *)
THEOREM CoinsInvariant == Spec => []CoinsInv
  BY InvInitially, InvInductive, PTL DEF Spec

(* Type correctness of the coin views; cachedCoinsUsage never underflows. *)
THEOREM CoinsTypeOK == Spec => []TypeOK
  <1>1. CoinsInv => TypeOK
    BY DEF CoinsInv
  <1> QED BY <1>1, CoinsInvariant, PTL

(* The DIRTY and FRESH flags mean what coins.h says at both levels. *)
THEOREM CoinsFlagsSound == Spec => []FlagsSound
  <1>1. CoinsInv => FlagsSound
    BY DEF CoinsInv, FlagsSound
  <1> QED BY <1>1, CoinsInvariant, PTL

(* The logic_error of CCoinsViewCache::BatchWrite is unreachable. *)
THEOREM CoinsNeverFreshMisapplied == Spec => []NeverFreshMisapplied
  <1>1. CoinsInv => NeverFreshMisapplied
    BY DEF CoinsInv, NeverFreshMisapplied, FreshMisapplied, ViewFlagsSound, TipCoin
  <1> QED BY <1>1, CoinsInvariant, PTL

(* cachedCoinsUsage is exact after any sequence of operations. *)
THEOREM CoinsUsageExact == Spec => []UsageExact
  <1>1. CoinsInv => UsageExact
    BY DEF CoinsInv
  <1> QED BY <1>1, CoinsInvariant, PTL

(* The operations that change the ledger, each with its own step. *)

(* SpendCoin on the view spends the coin in the ledger. *)
LEMMA SpendSimulated ==
    ASSUME CoinsInv, NEW o \in Outpoints, ViewSpendCoin(o)
    PROVE  Ledger!Spend(o)
  <1> DEFINE Disk == [coins |-> db, best |-> dbBest]
             Tip  == [coins |-> TipCoins, best |-> TipBlock]
             Work == [coins |-> ViewCoins, best |-> ViewBlock]
  <1>1. TipCoins' = TipCoins /\ ViewCoins' = [ViewCoins EXCEPT ![o] = Spent]
    BY ViewSpendCoinStep
  <1>2. TipBlock' = TipBlock /\ ViewBlock' = ViewBlock /\ Disk' = Disk
    BY DEF ViewSpendCoin, TipBlock, ViewBlock, dbVars
  <1>3. Disk' = Disk /\ Tip' = Tip /\ Work' = [Work EXCEPT !.coins[o] = Spent]
    BY <1>1, <1>2
  <1> QED BY <1>3, Zenon DEF Ledger!Spend, TipCoins, ViewCoins

(* AddCoin on the view creates the coin in the ledger. *)
LEMMA CreateSimulated ==
    ASSUME CoinsInv, NEW o \in Outpoints, NEW c \in Coins, ViewAddCoin(o, c)
    PROVE  Ledger!Create(o, c)
  <1> DEFINE Disk == [coins |-> db, best |-> dbBest]
             Tip  == [coins |-> TipCoins, best |-> TipBlock]
             Work == [coins |-> ViewCoins, best |-> ViewBlock]
  <1>1. TipCoins' = TipCoins /\ ViewCoins' = [ViewCoins EXCEPT ![o] = c]
    BY ViewAddCoinStep
  <1>2. TipBlock' = TipBlock /\ ViewBlock' = ViewBlock /\ Disk' = Disk
    BY DEF ViewAddCoin, TipBlock, ViewBlock, dbVars, tipVars
  <1>3. ViewCoins[o] = Spent
    BY DEF ViewAddCoin, ViewCoins
  <1>4. Disk' = Disk /\ Tip' = Tip /\ Work' = [Work EXCEPT !.coins[o] = c] /\ Work.coins[o] = Spent
    BY <1>1, <1>2, <1>3
  <1> QED BY <1>4, Zenon DEF Ledger!Create, TipCoins, ViewCoins

(* Flushing the view commits the block's changes to the tip. *)
LEMMA CommitSimulated ==
    ASSUME CoinsInv, FlushView
    PROVE  Ledger!Commit
  <1> DEFINE Disk == [coins |-> db, best |-> dbBest]
             Tip  == [coins |-> TipCoins, best |-> TipBlock]
             Work == [coins |-> ViewCoins, best |-> ViewBlock]
  <1>1. TipCoins' = ViewCoins /\ ViewCoins' = ViewCoins
    BY FlushViewStep
  <1>2. TipBlock' = ViewBlock /\ ViewBlock' = ViewBlock /\ Disk' = Disk
    BY DEF FlushView, TipBlock, ViewBlock, dbVars
  <1>3. Tip' = Work /\ Work' = Work /\ Disk' = Disk
    BY <1>1, <1>2
  <1> QED BY <1>3 DEF Ledger!Commit, TipCoins, ViewCoins

(* Flushing pcoinsTip persists the tip with its best block. *)
LEMMA PersistSimulated ==
    ASSUME CoinsInv, FlushTip
    PROVE  Ledger!Persist
  <1>1. db' = TipCoins /\ TipCoins' = TipCoins /\ ViewCoins' = ViewCoins
    BY FlushTipStep
  <1>2. dbBest' = TipBlock /\ TipBlock' = TipBlock /\ ViewBlock' = ViewBlock
    BY DEF FlushTip, TipBlock, ViewBlock, viewVars
  <1> QED BY <1>1, <1>2 DEF Ledger!Persist, TipCoins, ViewCoins

(* Every operation on the stack is a step of the ledger or changes nothing *)
(* a reader of the ledger can see.                                         *)
LEMMA StepSimulated ==
    ASSUME CoinsInv, [Next]_vars
    PROVE  [Ledger!Next]_(Ledger!ledgerVars)
  <1> DEFINE Disk == [coins |-> db, best |-> dbBest]
             Tip  == [coins |-> TipCoins, best |-> TipBlock]
             Work == [coins |-> ViewCoins, best |-> ViewBlock]
  <1>0. /\ Ledger!ledgerVars = <<Disk, Tip, Work>>
        /\ TipCoins \in [Outpoints -> CoinOrSpent] /\ ViewCoins \in [Outpoints -> CoinOrSpent]
    BY SeenMaps DEF Ledger!ledgerVars, TipCoins, ViewCoins, CoinsInv
  <1>a. ASSUME Disk' = Disk, Tip' = Tip, Work' = Work
        PROVE  UNCHANGED Ledger!ledgerVars
    BY <1>0, <1>a DEF Ledger!ledgerVars, TipCoins, ViewCoins
  <1>1. CASE OpenView
    <2>1. open' \in BOOLEAN
      BY <1>1 DEF OpenView
    <2>2. TipCoins' = TipCoins /\ ViewCoins' = TipCoins
      BY <1>1, <2>1, ViewResetStep DEF OpenView
    <2>3. view = EmptyCache /\ viewBest = NoBlock
      BY <1>1 DEF OpenView, CoinsInv, ClosedViewEmpty
    <2>4. ViewCoins = TipCoins
      BY <2>3 DEF ViewCoins, TipCoins, ViewCoin, EmptyCache
    <2>5. Disk' = Disk /\ Tip' = Tip /\ Work' = Work
      BY <1>1, <2>2, <2>3, <2>4 DEF OpenView, TipBlock, ViewBlock, dbVars, tipVars
    <2> QED BY <1>a, <2>5
  <1>2. CASE ViewGetBestBlock
    <2>1. TipCoins' = TipCoins /\ ViewCoins' = ViewCoins
      BY <1>2 DEF ViewGetBestBlock, TipCoins, ViewCoins, TipCoin, ViewCoin, dbVars
    <2>2. TipBlock' = TipBlock /\ ViewBlock' = ViewBlock
      BY <1>2 DEF ViewGetBestBlock, TipBlock, ViewBlock, dbVars
    <2>3. Disk' = Disk /\ Tip' = Tip /\ Work' = Work
      BY <1>2, <2>1, <2>2 DEF ViewGetBestBlock, dbVars
    <2> QED BY <1>a, <2>3
  <1>3. CASE FlushView
    BY <1>3, CommitSimulated DEF Ledger!Next
  <1>4. CASE DropView
    <2>1. open' \in BOOLEAN
      BY <1>4 DEF DropView
    <2>2. TipCoins' = TipCoins /\ ViewCoins' = TipCoins
      BY <1>4, <2>1, ViewResetStep DEF DropView
    <2>3. TipBlock' = TipBlock /\ ViewBlock' = TipBlock /\ Disk' = Disk
      BY <1>4 DEF DropView, TipBlock, ViewBlock, dbVars, tipVars
    <2>4. Ledger!Discard
      BY <2>2, <2>3 DEF Ledger!Discard, TipCoins, ViewCoins
    <2> QED BY <2>4 DEF Ledger!Next
  <1>5. ASSUME NEW b \in Blocks, ViewSetBestBlock(b)
        PROVE  Ledger!Next
    <2>1. TipCoins' = TipCoins /\ ViewCoins' = ViewCoins
      BY <1>5 DEF ViewSetBestBlock, TipCoins, ViewCoins, TipCoin, ViewCoin, dbVars, tipVars
    <2>2. TipBlock' = TipBlock /\ ViewBlock' = b /\ Disk' = Disk
      BY <1>5, NoBlockAssumption DEF ViewSetBestBlock, TipBlock, ViewBlock, dbVars, tipVars
    <2>3. Disk' = Disk /\ Tip' = Tip /\ Work' = [Work EXCEPT !.best = b]
      BY <2>1, <2>2
    <2>4. Ledger!SetBest(b)
      BY <2>3, Zenon DEF Ledger!SetBest, TipCoins, ViewCoins
    <2> QED BY <2>4 DEF Ledger!Next
  <1>6. ASSUME NEW o \in Outpoints, NEW c \in Coins, ViewAddCoin(o, c)
        PROVE  Ledger!Next
    BY <1>6, CreateSimulated DEF Ledger!Next
  <1>7. ASSUME NEW o \in Outpoints, ViewAccess(o)
        PROVE  UNCHANGED Ledger!ledgerVars
    <2>1. TipCoins' = TipCoins /\ ViewCoins' = ViewCoins
      BY <1>7, ViewAccessStep
    <2>2. Disk' = Disk /\ Tip' = Tip /\ Work' = Work
      BY <1>7, <2>1 DEF ViewAccess, TipBlock, ViewBlock, dbVars
    <2> QED BY <1>a, <2>2
  <1>8. ASSUME NEW o \in Outpoints, ViewSpendCoin(o)
        PROVE  Ledger!Next
    BY <1>8, SpendSimulated DEF Ledger!Next
  <1>9. ASSUME NEW o \in Outpoints, TipAccess(o)
        PROVE  UNCHANGED Ledger!ledgerVars
    <2>1. TipCoins' = TipCoins /\ ViewCoins' = ViewCoins
      BY <1>9, TipAccessStep
    <2>2. Disk' = Disk /\ Tip' = Tip /\ Work' = Work
      BY <1>9, <2>1 DEF TipAccess, TipBlock, ViewBlock, dbVars, viewVars
    <2> QED BY <1>a, <2>2
  <1>10. ASSUME NEW o \in Outpoints, TipUncache(o)
         PROVE  UNCHANGED Ledger!ledgerVars
    <2>1. TipCoins' = TipCoins /\ ViewCoins' = ViewCoins
      BY <1>10, TipUncacheStep
    <2>2. Disk' = Disk /\ Tip' = Tip /\ Work' = Work
      BY <1>10, <2>1 DEF TipUncache, TipBlock, ViewBlock, dbVars, viewVars
    <2> QED BY <1>a, <2>2
  <1>11. CASE FlushTip
    BY <1>11, PersistSimulated DEF Ledger!Next
  <1>12. CASE Crash
    <2>1. /\ db' \in [Outpoints -> CoinOrSpent] /\ dbBest' \in Blocks \cup {NoBlock}
          /\ tip' = EmptyCache /\ tipUsage' = NoUsage /\ tipBest' \in Blocks \cup {NoBlock}
          /\ view' = EmptyCache /\ viewUsage' = NoUsage /\ viewBest' = NoBlock /\ open' \in BOOLEAN
      BY <1>12 DEF Crash, CoinsInv, TypeOK, dbVars
    <2>2. TipCoins' = db' /\ ViewCoins' = db' /\ db' = db
      BY <1>12, <2>1, EmptyStackStep DEF Crash, dbVars
    <2>3. TipBlock' = dbBest /\ ViewBlock' = dbBest /\ dbBest' = dbBest
      BY <1>12 DEF Crash, TipBlock, ViewBlock, dbVars
    <2>4. Ledger!Crash
      BY <2>2, <2>3 DEF Ledger!Crash, TipCoins, ViewCoins
    <2> QED BY <2>4 DEF Ledger!Next
  <1>13. CASE UNCHANGED vars
    <2>1. Disk' = Disk /\ Tip' = Tip /\ Work' = Work
      BY <1>13 DEF vars, dbVars, tipVars, viewVars, TipCoins, ViewCoins, TipCoin, ViewCoin,
                   TipBlock, ViewBlock
    <2> QED BY <1>a, <2>1
  <1> QED BY <1>1, <1>2, <1>3, <1>4, <1>5, <1>6, <1>7, <1>8, <1>9, <1>10, <1>11, <1>12, <1>13 DEF Next

(* Each call that should change the ledger takes its own step of it, so    *)
(* no spend, creation, commit or write is lost between the caches.         *)
THEOREM CoinsEveryCallTakesEffect == Spec => EveryCallTakesEffect
  <1> DEFINE Effect ==
        /\ \A o \in Outpoints : ViewSpendCoin(o) => Ledger!Spend(o)
        /\ \A o \in Outpoints : \A c \in Coins : ViewAddCoin(o, c) => Ledger!Create(o, c)
        /\ FlushView => Ledger!Commit
        /\ FlushTip => Ledger!Persist
  <1>1. CoinsInv /\ [Next]_vars => [Effect]_vars
    <2> SUFFICES ASSUME CoinsInv
                 PROVE  Effect
      OBVIOUS
    <2>1. ASSUME NEW o \in Outpoints, ViewSpendCoin(o)
          PROVE  Ledger!Spend(o)
      BY <2>1, SpendSimulated
    <2>2. ASSUME NEW o \in Outpoints, NEW c \in Coins, ViewAddCoin(o, c)
          PROVE  Ledger!Create(o, c)
      BY <2>2, CreateSimulated
    <2>3. FlushView => Ledger!Commit
      BY CommitSimulated
    <2>4. FlushTip => Ledger!Persist
      BY PersistSimulated
    <2> QED BY <2>1, <2>2, <2>3, <2>4
  <1> QED BY <1>1, CoinsInvariant, PTL DEF Spec, EveryCallTakesEffect

(* The coin views implement the plain ledger: caching is invisible, a      *)
(* block's changes reach the tip as a whole, and the database holds only   *)
(* committed states, each with its own best block.                         *)
THEOREM CoinsImplementLedger == Spec => ImplementsLedger
  <1>1. Init => Ledger!Init
    BY DEF Init, Ledger!Init, TipCoin, ViewCoin, TipBlock, ViewBlock, EmptyCache
  <1>2. CoinsInv /\ [Next]_vars => [Ledger!Next]_(Ledger!ledgerVars)
    BY StepSimulated
  <1> QED BY <1>1, <1>2, CoinsInvariant, PTL DEF Spec, ImplementsLedger, Ledger!Spec
=============================================================================
