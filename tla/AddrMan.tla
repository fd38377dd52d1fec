------------------------------ MODULE AddrMan -------------------------------
(***************************************************************************)
(* The address manager (addrman.cpp, addrman.h) and its file peers.dat.    *)
(*                                                                         *)
(* Every public function takes CAddrMan::cs for its whole body, so one     *)
(* call is one step; what is hard is the state that calls leave to each    *)
(* other.  The tables, the indexes and their counters are kept as in the   *)
(* code, in one record am with the members' names.  Hashes that choose     *)
(* buckets are constants.  Clocks and statistics (nTime, nLastTry,         *)
(* nAttempts) only decide which branch is taken, and the branch is chosen  *)
(* freely; of nLastSuccess the model keeps whether it is set.  Attempt_,   *)
(* Connected_ and SetServices_ change nothing else and have no action.     *)
(***************************************************************************)
EXTENDS Integers, Sequences, FiniteSets

CONSTANTS
    Services,           \* CService: an address with a port
    Host,               \* the CNetAddr of a service
    Sources,            \* who tells us about addresses
    Buckets, Positions, \* of the "new" table
    NewBucket,          \* GetNewBucket of a service heard of from a source
    NewPosition,        \* GetBucketPosition of a service in a new bucket
    TriedSlots,
    TriedSlot,          \* GetTriedBucket and GetBucketPosition of a service
    MaxRefs,            \* ADDRMAN_NEW_BUCKETS_PER_ADDRESS
    MaxCollisions,      \* ADDRMAN_SET_TRIED_COLLISION_SIZE
    MaxIds,             \* bound: ids given in one life of the process
    MaxRead,            \* bound: entries read from a peers.dat that turns out to be unreadable
    MaxShuffled         \* bound: entries a manager has when GetAddr is called

NewSlots == Buckets \X Positions
Hosts == {Host[s] : s \in Services}

ASSUME TableAssumption ==
    /\ Host \in [Services -> Hosts]
    /\ NewBucket \in [Services \X Sources -> Buckets]
    /\ NewPosition \in [Services \X Buckets -> Positions]
    /\ TriedSlot \in [Services -> TriedSlots]
ASSUME LimitAssumption ==
    MaxRefs \in Nat \ {0} /\ MaxCollisions \in Nat /\ MaxIds \in Nat /\ MaxRead \in Nat /\ MaxShuffled \in Nat

VARIABLE
    am                  \* the CAddrMan

vars == am

-----------------------------------------------------------------------------
Nobody == -1            \* an empty position in a table

(* What m has become after Step(m, 1), ..., Step(m, n), one after another. *)
Loop(Step(_, _), m, n) ==
    LET after[i \in 0..n] == IF i = 0 THEN m ELSE Step(after[i - 1], i)
    IN  after[n]

Without(f, k) == [x \in DOMAIN f \ {k} |-> f[x]]
With(f, k, v) == [x \in DOMAIN f \cup {k} |-> IF x = k THEN v ELSE f[x]]

Empty ==
    [mapInfo |-> <<>>, mapAddr |-> <<>>, vRandom |-> <<>>, nTried |-> 0, nNew |-> 0,
     vvTried |-> [s \in TriedSlots |-> Nobody], vvNew |-> [s \in NewSlots |-> Nobody],
     m_tried_collisions |-> {}, nIdCount |-> 0,
     asserts |-> TRUE]  \* ghost: no assertion has failed

(* Clear() does not touch mapInfo, mapAddr and m_tried_collisions. *)
Cleared(m) ==
    [Empty EXCEPT !.mapInfo = m.mapInfo, !.mapAddr = m.mapAddr,
                  !.m_tried_collisions = m.m_tried_collisions, !.asserts = m.asserts]

(* A CAddrInfo at position pos of vRandom. *)
Info(svc, src, pos) ==
    [svc |-> svc, source |-> src, nRefCount |-> 0, fInTried |-> FALSE, nRandomPos |-> pos,
     succeeded |-> FALSE]

(* Create, which also makes nIdCount the next id. *)
Create(m, svc, src) ==
    [m EXCEPT !.mapInfo = With(@, m.nIdCount, Info(svc, src, Len(m.vRandom) + 1)),
              !.mapAddr = With(@, Host[svc], m.nIdCount),
              !.vRandom = Append(@, m.nIdCount),
              !.nIdCount = @ + 1]

SwapRandom(m, i, j) ==
    IF i = j THEN m
    ELSE LET idI == m.vRandom[i]  idJ == m.vRandom[j]
         IN  [m EXCEPT !.vRandom[i] = idJ, !.vRandom[j] = idI,
                       !.mapInfo[idI].nRandomPos = j, !.mapInfo[idJ].nRandomPos = i]

Delete(m, id) ==
    LET info == m.mapInfo[id]
        swapped == SwapRandom(m, info.nRandomPos, Len(m.vRandom))
    IN  [swapped EXCEPT !.asserts = @ /\ ~info.fInTried /\ info.nRefCount = 0,
                        !.vRandom = SubSeq(@, 1, Len(@) - 1),
                        !.mapAddr = Without(@, Host[info.svc]),
                        !.mapInfo = Without(@, id),
                        !.nNew = @ - 1]

(* Empties a position of the new table; the entry goes with its last       *)
(* reference.                                                              *)
ClearNew(m, slot) ==
    LET id == m.vvNew[slot]
        cleared == [m EXCEPT !.vvNew[slot] = Nobody,
                             !.mapInfo[id].nRefCount = @ - 1,
                             !.asserts = @ /\ m.mapInfo[id].nRefCount > 0]
    IN  IF id = Nobody THEN m
        ELSE IF cleared.mapInfo[id].nRefCount = 0 THEN Delete(cleared, id)
        ELSE cleared

-----------------------------------------------------------------------------
(* GetNewBucket and GetBucketPosition of svc heard of from src.            *)
SlotFor(svc, src) ==
    LET bucket == NewBucket[<<svc, src>>]
    IN  <<bucket, NewPosition[<<svc, bucket>>]>>

(* The positions of the new table at which an entry for svc can be.        *)
NewSlotsOf(svc) == {<<b, NewPosition[<<svc, b>>]>> : b \in Buckets}

(* Removal of entry id from all new buckets. *)
LeaveNew(m, id) ==
    LET held == {s \in NewSlotsOf(m.mapInfo[id].svc) : m.vvNew[s] = id}
        left == m.mapInfo[id].nRefCount - Cardinality(held)
    IN  [m EXCEPT !.vvNew = [s \in NewSlots |-> IF s \in held THEN Nobody ELSE @[s]],
                  !.mapInfo[id].nRefCount = left,
                  !.nNew = @ - 1,
                  !.asserts = @ /\ left = 0]

(* Mutant: the evicted entry is not given a reference. *)
BackToNew_Unreferenced(m, id, slot) ==
    [m EXCEPT !.vvNew[slot] = id, !.nNew = @ + 1]

(* Mutant: the evicted entry is deleted. *)
BackToNew_Forgets(m, id, slot) ==
    LET info == m.mapInfo[id]
        swapped == SwapRandom(m, info.nRandomPos, Len(m.vRandom))
    IN  [swapped EXCEPT !.vRandom = SubSeq(@, 1, Len(@) - 1),
                        !.mapAddr = Without(@, Host[info.svc]),
                        !.mapInfo = Without(@, id)]

(* An evicted entry is put at a position of the new table that was made    *)
(* free.                                                                   *)
BackToNew(m, id, slot) ==
    [m EXCEPT !.mapInfo[id].nRefCount = 1, !.vvNew[slot] = id, !.nNew = @ + 1,
              !.asserts = @ /\ m.vvNew[slot] = Nobody]

(* The entry at a tried position goes back to the new table, to the bucket *)
(* of its source.                                                          *)
EvictTried(m, slot) ==
    LET old == m.vvTried[slot]
        info == m.mapInfo[old]
        newSlot == SlotFor(info.svc, info.source)
        out == [m EXCEPT !.mapInfo[old].fInTried = FALSE, !.vvTried[slot] = Nobody, !.nTried = @ - 1]
    IN  IF old = Nobody THEN m ELSE BackToNew(ClearNew(out, newSlot), old, newSlot)

(* MakeTried: from the new table to the tried one. *)
MakeTried(m, id) ==
    LET slot == TriedSlot[m.mapInfo[id].svc]
    IN  [EvictTried(LeaveNew(m, id), slot) EXCEPT
            !.vvTried[slot] = id, !.nTried = @ + 1, !.mapInfo[id].fInTried = TRUE]

(* Mutant: an entry that is tried already is moved again. *)
Good_Again(m, svc, testBeforeEvict) ==
    LET id == m.mapAddr[Host[svc]]
        slot == TriedSlot[svc]
    IN  IF Host[svc] \notin DOMAIN m.mapAddr \/ m.mapInfo[id].svc # svc THEN m
        ELSE IF testBeforeEvict /\ m.vvTried[slot] # Nobody
        THEN [m EXCEPT !.m_tried_collisions = @ \cup {id}]
        ELSE MakeTried([m EXCEPT !.mapInfo[id].succeeded = TRUE], id)

(* Good_: a connection to svc has succeeded. *)
Good(m, svc, testBeforeEvict) ==
    LET id == m.mapAddr[Host[svc]]
        seen == [m EXCEPT !.mapInfo[id].succeeded = TRUE]
        inNew == \E s \in NewSlotsOf(svc) : m.vvNew[s] = id
        full == Cardinality(m.m_tried_collisions) >= MaxCollisions
    IN  IF Host[svc] \notin DOMAIN m.mapAddr \/ m.mapInfo[id].svc # svc THEN m
        ELSE IF m.mapInfo[id].fInTried \/ ~inNew THEN seen
        ELSE IF testBeforeEvict /\ m.vvTried[TriedSlot[svc]] # Nobody
        THEN IF full THEN seen ELSE [seen EXCEPT !.m_tried_collisions = @ \cup {id}]
        ELSE MakeTried(seen, id)

-----------------------------------------------------------------------------
(* Add_, once it has found or made entry id: a reference at the position   *)
(* src leads to, if that is free or its entry can go.  terrible is what    *)
(* IsTerrible says of that entry.                                          *)
AddReference(m, id, src, terrible) ==
    LET info == m.mapInfo[id]
        slot == SlotFor(info.svc, src)
        there == m.vvNew[slot]
        insert == \/ there = Nobody
                  \/ terrible
                  \/ m.mapInfo[there].nRefCount > 1 /\ info.nRefCount = 0
    IN  IF there = id THEN m
        ELSE IF insert
        THEN [ClearNew(m, slot) EXCEPT !.mapInfo[id].nRefCount = @ + 1, !.vvNew[slot] = id]
        ELSE IF info.nRefCount = 0 THEN Delete(m, id) ELSE m

(* The decision of Add_ for an address that is known already. *)
MayAddReference(info) == ~info.fInTried /\ info.nRefCount # MaxRefs

Add(svc, src) ==
    \E terrible \in BOOLEAN :
        IF Host[svc] \in DOMAIN am.mapAddr
        THEN LET id == am.mapAddr[Host[svc]]
             IN  /\ MayAddReference(am.mapInfo[id])
                 /\ am' = AddReference(am, id, src, terrible)
        ELSE /\ am.nIdCount < MaxIds
             /\ am' = AddReference([Create(am, svc, src) EXCEPT !.nNew = @ + 1],
                                   am.nIdCount, src, terrible)

MarkGood(svc) == am' = Good(am, svc, TRUE)

(* Mutant: a collision is kept after it has been resolved. *)
Resolved_Kept(m, id) == m

Resolved(m, id) == [m EXCEPT !.m_tried_collisions = @ \ {id}]

(* One round of the loop of ResolveCollisions_, for id.  verdict says what *)
(* is known of the tried entry in id's place: it was reached lately        *)
(* ("good"; so it is when an earlier round has put it there), not reached  *)
(* ("bad"), or still under test ("wait").                                  *)
ResolveCollision(m, id, verdict) ==
    LET slot == TriedSlot[m.mapInfo[id].svc]
    IN  IF id \notin DOMAIN m.mapInfo THEN Resolved(m, id)
        ELSE IF m.vvTried[slot] # Nobody /\ (verdict = "good" \/ m.vvTried[slot] # am.vvTried[slot])
        THEN Resolved(m, id)
        ELSE IF m.vvTried[slot] # Nobody /\ verdict = "wait" THEN m
        ELSE Resolved(Good(m, m.mapInfo[id].svc, FALSE), id)

(* The rounds up to the one for id n - 1, in the order of the ids. *)
Resolution(verdict, n) ==
    Loop(LAMBDA m, i : IF i - 1 \in am.m_tried_collisions
                       THEN ResolveCollision(m, i - 1, verdict[i - 1]) ELSE m, am, n)

(* ResolveCollisions_; the ids left over by a failed read are below        *)
(* MaxRead, all others below nIdCount.                                     *)
ResolveCollisions ==
    \E verdict \in [am.m_tried_collisions -> {"good", "bad", "wait"}] :
        am' = Resolution(verdict, am.nIdCount + MaxRead)

(* SelectTriedCollision_.  Reading mapInfo at an id it does not have makes *)
(* an entry.                                                               *)
SelectTriedCollision ==
    \E id \in am.m_tried_collisions :
        am' = IF id \notin DOMAIN am.mapInfo THEN Resolved(am, id)
              ELSE LET old == am.vvTried[TriedSlot[am.mapInfo[id].svc]]
                   IN  IF old \in DOMAIN am.mapInfo THEN am
                       ELSE [am EXCEPT !.mapInfo = With(@, old, Info("none", "none", -1))]

Shuffled(pick, n) == Loop(LAMBDA m, i : SwapRandom(m, i, pick[i]), am, n)

(* GetAddr_: a swap for every entry it looks at, with one further on. *)
GetAddr ==
    \E n \in 1..Len(am.vRandom) : \E pick \in [1..n -> 1..Len(am.vRandom)] :
        /\ Len(am.vRandom) <= MaxShuffled
        /\ \A i \in 1..n : pick[i] >= i
        /\ am' = Shuffled(pick, n)

-----------------------------------------------------------------------------
(* Serialize: the entries of the new table, those of the tried table, and  *)
(* for each position of the new table the number of its entry.             *)
Before(ids, id) == Cardinality({i \in ids : i < id})
Saved(info) == [svc |-> info.svc, source |-> info.source, succeeded |-> info.succeeded]

(* Entries ids of m in their order in mapInfo. *)
Listed(m, ids) ==
    [n \in 1..Cardinality(ids) |-> Saved(m.mapInfo[CHOOSE id \in ids : Before(ids, id) = n - 1])]

Serialize(m) ==
    LET new == {id \in DOMAIN m.mapInfo : m.mapInfo[id].nRefCount # 0}
        tried == {id \in DOMAIN m.mapInfo : m.mapInfo[id].fInTried}
    IN  [nNew |-> m.nNew, nTried |-> m.nTried,
         new |-> Listed(m, new), tried |-> Listed(m, tried),
         vvNew |-> [s \in NewSlots |-> IF m.vvNew[s] = Nobody THEN Nobody ELSE Before(new, m.vvNew[s])],
         asserts |-> Cardinality(new) <= m.nNew /\ Cardinality(tried) <= m.nTried]

(* Unserialize, entry by entry.  When the file's positions cannot be used, *)
(* as it has another number of buckets, an entry of the new table gets a   *)
(* reference from its own source.                                          *)
ReadNew(m, id, saved, sameBuckets) ==
    LET slot == SlotFor(saved.svc, saved.source)
        fInsert == ~sameBuckets /\ m.vvNew[slot] = Nobody
    IN  [m EXCEPT !.mapInfo = With(@, id, [Info(saved.svc, saved.source, Len(m.vRandom) + 1) EXCEPT
                                               !.succeeded = saved.succeeded,
                                               !.nRefCount = IF fInsert THEN 1 ELSE 0]),
                  !.mapAddr = With(@, Host[saved.svc], id),
                  !.vRandom = Append(@, id),
                  !.vvNew[slot] = IF fInsert THEN id ELSE @]

ReadNews(start, new, n, sameBuckets) ==
    Loop(LAMBDA m, i : ReadNew(m, i - 1, new[i], sameBuckets), start, n)

ReadTried(m, saved) ==
    LET slot == TriedSlot[saved.svc]
    IN  IF m.vvTried[slot] # Nobody THEN [m EXCEPT !.nTried = @ - 1]
        ELSE [m EXCEPT !.mapInfo = With(@, m.nIdCount, [Info(saved.svc, saved.source, Len(m.vRandom) + 1)
                                           EXCEPT !.fInTried = TRUE, !.succeeded = saved.succeeded]),
                       !.mapAddr = With(@, Host[saved.svc], m.nIdCount),
                       !.vRandom = Append(@, m.nIdCount),
                       !.vvTried[slot] = m.nIdCount,
                       !.nIdCount = @ + 1]

ReadTrieds(start, tried, n) == Loop(LAMBDA m, i : ReadTried(m, tried[i]), start, n)

(* Mutant: only the first reference of an entry is taken. *)
ReadPositions_First(m, vvNew) ==
    LET first(s) == \A r \in NewSlots : vvNew[r] = vvNew[s] => s[1] <= r[1]
        taken(id) == {s \in NewSlots : vvNew[s] = id /\ first(s)}
    IN  [m EXCEPT !.vvNew = [s \in NewSlots |-> IF first(s) THEN vvNew[s] ELSE Nobody],
                  !.mapInfo = [id \in DOMAIN @ |-> [@[id] EXCEPT !.nRefCount = Cardinality(taken(id))]]]

(* The references of the new table: the file has the entries of a bucket,  *)
(* their positions are computed.                                           *)
ReadPositions(m, vvNew) ==
    LET inBucket(s) == {vvNew[r] : r \in {r \in NewSlots : r[1] = s[1]}} \ {Nobody}
        found(s) == {n \in inBucket(s) : NewPosition[<<m.mapInfo[n].svc, s[1]>>] = s[2]}
        read == [s \in NewSlots |-> IF found(s) = {} THEN Nobody ELSE CHOOSE n \in found(s) : TRUE]
    IN  [m EXCEPT !.vvNew = read,
                  !.mapInfo = [id \in DOMAIN @ |->
                      [@[id] EXCEPT !.nRefCount = Cardinality({s \in NewSlots : read[s] = id})]]]

IsUnreferenced(m, id) == id \in DOMAIN m.mapInfo /\ ~m.mapInfo[id].fInTried /\ m.mapInfo[id].nRefCount = 0

(* Entries of the new table that got no position are dropped. *)
PruneUnreferenced(start, n) ==
    Loop(LAMBDA m, i : IF IsUnreferenced(m, i - 1) THEN Delete(m, i - 1) ELSE m, start, n)

Unserialize(file, sameBuckets) ==
    LET start == [Empty EXCEPT !.nNew = file.nNew, !.nTried = file.nTried]
        new == ReadNews(start, file.new, Len(file.new), sameBuckets)
        tried == ReadTrieds([new EXCEPT !.nIdCount = file.nNew], file.tried, Len(file.tried))
        read == IF sameBuckets THEN ReadPositions(tried, file.vvNew) ELSE tried
    IN  PruneUnreferenced(read, read.nIdCount)

(* The node stops, with DumpAddresses, and starts again, perhaps as a      *)
(* build with other parameters.  A crash loses what came after the last    *)
(* dump: it leads where a stop right after that dump does.                 *)
Restart ==
    \E sameBuckets \in BOOLEAN :
        LET file == Serialize(am)
        IN  am' = [Unserialize(file, sameBuckets) EXCEPT !.asserts = @ /\ am.asserts /\ file.asserts]

(* Start with a peers.dat that is missing or damaged, or whose reading     *)
(* throws after some entries (n new ones, then k tried ones): Clear, then  *)
(* DumpAddresses.                                                          *)
RestartUnreadable ==
    LET file == Serialize(am)
    IN  \E n \in 0..Len(file.new), k \in 0..Len(file.tried) :
            LET new == ReadNews(Empty, file.new, n, TRUE)
                read == ReadTrieds([new EXCEPT !.nIdCount = n], file.tried, k)
            IN  /\ n + k <= MaxRead
                /\ k > 0 => n = Len(file.new)
                /\ am' = [Cleared(read) EXCEPT !.asserts = Serialize(Cleared(read)).asserts]

-----------------------------------------------------------------------------
Init == am = Empty

Next ==
    \/ \E svc \in Services, src \in Sources : Add(svc, src)
    \/ \E svc \in Services : MarkGood(svc)
    \/ ResolveCollisions \/ SelectTriedCollision \/ GetAddr
    \/ Restart \/ RestartUnreadable

Spec == Init /\ [][Next]_vars

-----------------------------------------------------------------------------
TriedIds(m) == {id \in DOMAIN m.mapInfo : m.mapInfo[id].fInTried}
NewIds(m) == DOMAIN m.mapInfo \ TriedIds(m)
Entries(table) == {table[s] : s \in DOMAIN table}

(* vRandom holds every id once, and every entry knows its place in it, so  *)
(* that Delete removes the right one (Check_ -7 and -14).                  *)
RandomExact ==
    /\ Len(am.vRandom) = Cardinality(DOMAIN am.mapInfo)
    /\ \A id \in DOMAIN am.mapInfo :
          am.mapInfo[id].nRandomPos \in DOMAIN am.vRandom /\ am.vRandom[am.mapInfo[id].nRandomPos] = id

(* What Check_ tests: an entry is either tried, at its position and        *)
(* nowhere else, or new, with as many references as positions of the new   *)
(* table hold it, at most MaxRefs and at least one; the counters and the   *)
(* index by address agree, and so does the order for random choices.       *)
TablesExact ==
    /\ am.nTried = Cardinality(TriedIds(am)) /\ am.nNew = Cardinality(NewIds(am))
    /\ \A id \in DOMAIN am.mapInfo :
          LET info == am.mapInfo[id]
              refs == {s \in NewSlots : am.vvNew[s] = id}
          IN  /\ info.nRefCount = Cardinality(refs) /\ refs \subseteq NewSlotsOf(info.svc)
              /\ IF info.fInTried
                 THEN info.succeeded /\ refs = {} /\ am.vvTried[TriedSlot[info.svc]] = id
                 ELSE info.nRefCount \in 1..MaxRefs
              /\ Host[info.svc] \in DOMAIN am.mapAddr /\ am.mapAddr[Host[info.svc]] = id
    /\ Entries(am.vvTried) \subseteq TriedIds(am) \cup {Nobody}
    /\ Entries(am.vvNew) \subseteq NewIds(am) \cup {Nobody}
    /\ Cardinality(DOMAIN am.mapAddr) = Cardinality(DOMAIN am.mapInfo)
    /\ RandomExact

(* The assertions of Delete, ClearNew, MakeTried and Serialize hold.       *)
AssertionsHold == am.asserts

(* A collision waits for a tried position that another entry holds, and    *)
(* its own entry is still in the new table: SelectTriedCollision_ finds an *)
(* entry to test (it does not look at mapInfo[-1]), and a resolved         *)
(* collision really moves the new entry.                                   *)
CollisionsAreReal ==
    \A id \in am.m_tried_collisions \cap DOMAIN am.mapInfo :
        ~am.mapInfo[id].fInTried /\ am.vvTried[TriedSlot[am.mapInfo[id].svc]] # Nobody

(* While the process lives, an entry leaves the tried table only for its   *)
(* home in the new one, the position its source leads to.  It is lost only *)
(* when the same call evicts another entry with that home, which is then   *)
(* there: no address tried with success makes way for one that was not.    *)
EvictedGoHome ==
    [][\/ \A id \in TriedIds(am) \ TriedIds(am') :
             am'.vvNew[SlotFor(am.mapInfo[id].svc, am.mapInfo[id].source)] \in TriedIds(am)
       \/ Restart \/ RestartUnreadable]_vars

(* What a position of a table holds. *)
At(m, table, s) == {Saved(m.mapInfo[id]) : id \in {table[s]} \ {Nobody}}

(* What DumpAddresses writes is what a restart reads: the same services at *)
(* the same positions, with the same sources.                              *)
DumpRestores ==
    LET back == Unserialize(Serialize(am), TRUE)
    IN  /\ \A s \in TriedSlots : At(am, am.vvTried, s) = At(back, back.vvTried, s)
        /\ \A s \in NewSlots : At(am, am.vvNew, s) = At(back, back.vvNew, s)
        /\ back.nNew = am.nNew /\ back.nTried = am.nTried
=============================================================================
