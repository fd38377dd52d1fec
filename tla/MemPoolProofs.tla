--------------------------- MODULE MemPoolProofs ----------------------------
(***************************************************************************)
(* Theorems about MemPool, for all transactions, blocks and limits.        *)
(*                                                                         *)
(* The indexes of the pool and what may be mined are right whatever        *)
(* happens.  The links and the inputs are right as long as no transaction  *)
(* is evicted while DisconnectTip puts others back: the code does lose     *)
(* them then.                                                              *)
(***************************************************************************)
EXTENDS MemPool, TLAPS, FiniteSetTheorems, WellFoundedInduction

Txs0 == Txs \ Generated
Ops == {"reorg", "invalidate", "replay"}

(* What follows a trim or a purge *)
Later == {Idle, Limit(Idle), Purge(Idle)}
PuttingBack(at) == [at : at, op : Ops, i : Nat, hashes : Seq(Txs)]

Job ==
    {Idle} \cup [at : {"expire", "trim", "purge"}, then : Later]
    \cup [at : {"trim"}, then : PuttingBack({"accepted"})]
    \cup [at : {"purging"}, todo : SUBSET Txs, then : Later]
    \cup PuttingBack({"resurrect", "accepted", "update"})
    \cup [at : {"connected", "disconnected"}, op : Ops \cup {"extend"}]
    \cup [at : {"remove", "conflicts"}, op : Ops \cup {"extend"}, i : Nat]

(* A block is being disconnected, or connected. *)
Undoing == Disconnecting.at \in {"resurrect", "accepted", "update"}
Doing == job.at \in {"remove", "conflicts"}

(* The transactions of the chain up to block n *)
Upto(s, n) == Confirmed(SubSeq(s, 1, n))
SelfContained(txs) == \A t \in txs : \A o \in Vin[t] : o[1] \in txs

(* A chain from Base that ConnectBlock has accepted, block by block *)
ValidChain(s) ==
    /\ s \in Seq(Blocks) /\ Len(s) > 0 /\ s[1] = Base
    /\ \A n \in 2 .. Len(s) : ConnectBlock(s[n], SubSeq(s, 1, n - 1))
    /\ \A n \in 1 .. Len(s) : SelfContained(Upto(s, n))

(* The chain and the coin view differ by the block that is on its way. *)
Chains ==
    /\ job \in Job
    /\ ValidChain(chainActive) /\ ValidChain(pcoinsTip)
    /\ Undoing => Len(chainActive) > 1 /\ pcoinsTip = Front(chainActive)
    /\ Doing => Len(pcoinsTip) > 1 /\ chainActive = Front(pcoinsTip)
    /\ ~Undoing /\ ~Doing => chainActive = pcoinsTip
    /\ Disconnecting.at \in {"resurrect", "accepted"} => Disconnecting.i \in 1 .. Len(Vtx[Last(chainActive)])
    /\ Disconnecting.at = "update" => Disconnecting.i \in 0 .. Len(Disconnecting.hashes)
    /\ Doing => job.i \in 1 .. Len(Vtx[Last(pcoinsTip)])

(* mapNextTx names exactly the spenders; links are mutual, between         *)
(* transactions of the pool of which one spends the other.                 *)
SpendersExact ==
    /\ mapTx \subseteq Txs0 /\ mapNextTx \in [Outpoints -> Txs \cup {NoTx}]
    /\ \A o \in Outpoints, t \in Txs : mapNextTx[o] = t <=> t \in mapTx /\ o \in Vin[t]
LinksMutual ==
    /\ parents \in [Txs -> SUBSET mapTx] /\ children \in [Txs -> SUBSET mapTx]
    /\ \A t, u \in Txs : u \in children[t] <=> t \in parents[u]
Spends(u, t) == \E o \in Vin[u] : o[1] = t
LinksReal == \A t, u \in Txs : u \in children[t] => Spends(u, t)

(* What a block may take of a transaction of the pool *)
Minable(t) ==
    /\ FinalFrom[t] <= Len(chainActive) + 1
    /\ \A o \in Vin[t] : o[1] \in Generated =>
          o[1] \in Confirmed(chainActive) /\ ~Immature(chainActive, o, Len(chainActive) + 1)

(* Only blocks that were disconnected, and until what they made invalid is *)
(* purged, keep a transaction from being mined.                            *)
MinableUnlessUndone ==
    /\ Undoing => unpurged
    /\ ~unpurged => \A t \in mapTx : Minable(t)
    /\ job.at = "purging" => \A t \in mapTx \ job.todo : Minable(t)

IndexInv == Chains /\ SpendersExact /\ LinksMutual /\ LinksReal /\ unpurged \in BOOLEAN /\ MinableUnlessUndone

-----------------------------------------------------------------------------
(* What is evicted between the transactions that DisconnectTip puts back   *)
(* goes with everything that spends it.                                    *)
EvictsFamilies ==
    job.at = "trim" /\ job.then.at = "accepted" /\ DynamicMemoryUsage > SizeLimit =>
        \A t \in mapTx : Cheapest(t) =>
            \A u \in CalculateDescendants({t}) : ChildrenOf(u) \subseteq CalculateDescendants({t})

(* The number of transactions of the block that DisconnectTip has handled, *)
(* and those that it has still to put back                                 *)
Handled ==
    CASE Disconnecting.at = "resurrect" -> Disconnecting.i - 1
      [] Disconnecting.at = "accepted" -> Disconnecting.i
      [] OTHER -> Len(Vtx[Last(chainActive)])
ToPutBack == IF Undoing THEN {Vtx[Last(chainActive)][k] : k \in Handled + 1 .. Len(Vtx[Last(chainActive)])} ELSE {}

(* The transactions of the block whose own place in the pool, or whose     *)
(* conflicts, ConnectTip has still to remove                               *)
ToRemove ==
    CASE job.at = "remove" -> {Vtx[Last(pcoinsTip)][k] : k \in job.i .. Len(Vtx[Last(pcoinsTip)])}
      [] job.at = "conflicts" -> {Vtx[Last(pcoinsTip)][k] : k \in job.i + 1 .. Len(Vtx[Last(pcoinsTip)])}
      [] OTHER -> {}
ToConflict == IF Doing THEN {Vtx[Last(pcoinsTip)][k] : k \in job.i .. Len(Vtx[Last(pcoinsTip)])} ELSE {}

(* What was put back comes from the block, in its order. *)
Before == IF Disconnecting.at = "accepted" THEN Disconnecting.i - 1 ELSE Handled
RestoredInBlock ==
    Undoing => /\ ToSet(Disconnecting.hashes) \subseteq {Vtx[Last(chainActive)][k] : k \in 1 .. Before}
               /\ \A j, k \in 1 .. Len(Disconnecting.hashes) :
                      Disconnecting.hashes[j] = Disconnecting.hashes[k] => j = k

(* The pool has no transaction of the chain. *)
PoolIsUnconfirmed ==
    /\ mapTx \cap Confirmed(pcoinsTip) \subseteq ToRemove
    /\ Undoing => mapTx \cap ToSet(Vtx[Last(chainActive)]) \subseteq Restored

(* Every input is available, or will be dealt with before the block is. *)
InputsKnown ==
    \A t \in mapTx : \A o \in Vin[t] :
        Available(o) \/ o[1] \in ToPutBack \/ \E c \in ToConflict : o \in Vin[c]

(* Only the links of what was put back to what stayed are missing. *)
LinksComplete ==
    \A t, u \in mapTx : u \in children[t] <=> Spends(u, t) /\ (t \in NotVisited => u \in Restored)

PoolInv == IndexInv /\ RestoredInBlock /\ PoolIsUnconfirmed /\ InputsKnown /\ LinksComplete

(* The transactions that the totals of t should include.  An entry may be  *)
(* dirty, but not while UpdateTransactionsFromBlock has still to visit it, *)
(* and what was put back is in an order in which children follow parents.  *)
Counted(t) == IF t \in NotVisited THEN CalculateDescendants({t}) \cap Restored ELSE CalculateDescendants({t})
PackagesRight ==
    /\ pkg = [t \in Txs |-> pkg[t]]
    /\ \A t \in Txs \ mapTx : pkg[t] = NoPackage
    /\ \A t \in mapTx : \/ pkg[t] = Counting(NoPackage, Counted(t))
                        \/ t \notin NotVisited /\ pkg[t] = NoPackage
RestoredInOrder ==
    Undoing => \A j, k \in 1 .. Len(Disconnecting.hashes) :
                   Spends(Disconnecting.hashes[j], Disconnecting.hashes[k]) => k < j

PackagesInv == PoolInv /\ RestoredInOrder /\ PackagesRight

-----------------------------------------------------------------------------
(* Outpoints and their transactions *)
LEMMA TxFacts ==
  /\ NoTx \notin Txs
  /\ \A t \in Txs : Vin[t] \subseteq Outpoints /\ Vout[t] \subseteq Outpoints
  /\ \A t \in Txs : \A o \in Vout[t] : o[1] = t
  /\ \A o \in Outpoints : o[1] \in Txs /\ o \in Vout[o[1]]
  BY TxAssumption DEF Outpoints

(* GetMemPoolParents and GetMemPoolChildren find who spends whom. *)
LEMMA ChildrenFacts ==
  ASSUME SpendersExact, NEW t \in Txs
  PROVE  /\ ChildrenOf(t) = {u \in mapTx : Spends(u, t)}
         /\ ParentsOf(t) = {u \in mapTx : Spends(t, u)}
  <1>1. ParentsOf(t) = {u \in mapTx : Spends(t, u)}
    BY DEF ParentsOf, Spends
  <1>2. ASSUME NEW u, u \in ChildrenOf(t)
        PROVE  u \in mapTx /\ Spends(u, t)
    <2>1. PICK o \in Vout[t] : u = mapNextTx[o]
      BY <1>2 DEF ChildrenOf
    <2>2. o \in Outpoints /\ o[1] = t /\ u \in Txs
      BY <1>2, <2>1, TxFacts DEF ChildrenOf, SpendersExact
    <2> QED
      BY <2>1, <2>2 DEF SpendersExact, Spends
  <1>3. ASSUME NEW u \in mapTx, Spends(u, t)
        PROVE  u \in ChildrenOf(t)
    <2>1. PICK o \in Vin[u] : o[1] = t
      BY <1>3 DEF Spends
    <2>2. u \in Txs /\ u # NoTx
      BY TxFacts DEF SpendersExact, Txs0
    <2>3. o \in Outpoints /\ o \in Vout[t] /\ mapNextTx[o] = u
      BY <2>1, <2>2, TxFacts DEF SpendersExact
    <2> QED
      BY <2>2, <2>3 DEF ChildrenOf
  <1> QED
    BY <1>1, <1>2, <1>3

(* The least set that holds S and, with a transaction of m, its successors *)
Reach(m, succ, S) ==
    {u \in Txs : \A C \in SUBSET m : (S \subseteq C /\ \A v \in C : succ[v] \subseteq C) => u \in C}

(* The search through links ends with the least closed set. *)
LEMMA ReachFacts ==
  ASSUME NEW m \in SUBSET Txs, NEW succ, \A t \in m : succ[t] \subseteq m,
         NEW S \in SUBSET m, NEW C, C = Reach(m, succ, S)
  PROVE  /\ S \subseteq C /\ C \subseteq m
         /\ \A t \in C : succ[t] \subseteq C
         /\ \A D \in SUBSET m : S \subseteq D /\ (\A t \in D : succ[t] \subseteq D) => C \subseteq D
  <1>1. \A u : u \in C <=> /\ u \in Txs
                          /\ \A D \in SUBSET m : S \subseteq D /\ (\A t \in D : succ[t] \subseteq D) => u \in D
    BY DEF Reach
  <1>2. C \subseteq m
    BY <1>1
  <1>3. S \subseteq C
    BY <1>1
  <1>4. \A t \in C : succ[t] \subseteq C
    BY <1>1, <1>2
  <1> QED
    BY <1>1, <1>2, <1>3, <1>4

(* The same for the links of the pool *)
LEMMA ClosureFacts ==
  ASSUME mapTx \subseteq Txs, NEW succ, \A t \in mapTx : succ[t] \subseteq mapTx,
         NEW S \in SUBSET mapTx, NEW C, C = Closure(S, succ)
  PROVE  /\ S \subseteq C /\ C \subseteq mapTx
         /\ \A t \in C : succ[t] \subseteq C
         /\ \A D \in SUBSET mapTx : S \subseteq D /\ (\A t \in D : succ[t] \subseteq D) => C \subseteq D
  <1>1. C = Reach(mapTx, succ, S)
    BY DEF Closure, Reach
  <1> QED
    BY <1>1, ReachFacts

(* What the removals take is in the pool, with all linked descendants. *)
LEMMA DescendantsFacts ==
  ASSUME SpendersExact, LinksMutual, NEW S \in SUBSET mapTx, NEW C, C = CalculateDescendants(S)
  PROVE  /\ S \subseteq C /\ C \subseteq mapTx
         /\ \A t \in C : children[t] \subseteq C
         /\ \A D \in SUBSET mapTx : S \subseteq D /\ (\A t \in D : children[t] \subseteq D) => C \subseteq D
  <1>1. mapTx \subseteq Txs /\ \A t \in mapTx : children[t] \subseteq mapTx
    BY DEF SpendersExact, LinksMutual, Txs0
  <1> QED
    BY <1>1, ClosureFacts DEF CalculateDescendants

(* RemoveStaged takes a set out of every index, and nothing else. *)
LEMMA RemoveFacts ==
  ASSUME SpendersExact, LinksMutual, LinksReal, NEW S \in SUBSET mapTx, RemoveStaged(S)
  PROVE  /\ SpendersExact' /\ LinksMutual' /\ LinksReal'
         /\ mapTx' = mapTx \ S
         /\ \A t, u \in mapTx' : u \in children'[t] <=> u \in children[t]
  <1> DEFINE staying == [t \in Txs |-> children[t] \ {r \in S : t \in parents[r]}]
  <1>1. /\ mapTx' = mapTx \ S /\ mapTx \subseteq Txs0 /\ S \subseteq Txs
        /\ mapNextTx' = [o \in Outpoints |-> IF \E r \in S : o \in Vin[r] THEN NoTx ELSE mapNextTx[o]]
        /\ children' = [t \in Txs |-> IF t \in S THEN {} ELSE staying[t]]
        /\ parents' = [t \in Txs |-> IF t \in S THEN {} ELSE parents[t] \ {r \in S : t \in staying[r]}]
    BY DEF RemoveStaged, SpendersExact, Txs0
  <1>2. SpendersExact'
    <2>1. mapNextTx' \in [Outpoints -> Txs \cup {NoTx}]
      BY <1>1 DEF SpendersExact
    <2>2. ASSUME NEW o \in Outpoints, NEW t \in Txs
          PROVE  mapNextTx'[o] = t <=> t \in mapTx' /\ o \in Vin[t]
      <3>1. \A r \in S : o \in Vin[r] => mapNextTx[o] = r
        BY <1>1, <2>2 DEF SpendersExact
      <3>2. mapNextTx[o] = t <=> t \in mapTx /\ o \in Vin[t]
        BY DEF SpendersExact
      <3> QED
        BY <1>1, <3>1, <3>2, TxFacts
    <2> QED
      BY <1>1, <2>1, <2>2 DEF SpendersExact
  <1>3. \A t \in Txs : staying[t] = children[t] \ S
    BY <1>1 DEF LinksMutual
  <1>4. \A t \in Txs : children'[t] = IF t \in S THEN {} ELSE children[t] \ S
    BY <1>1, <1>3
  <1>5. \A t \in Txs : parents'[t] = IF t \in S THEN {} ELSE parents[t] \ S
    <2> HIDE DEF staying
    <2> SUFFICES ASSUME NEW t \in Txs, t \notin S
                 PROVE  parents[t] \ {r \in S : t \in staying[r]} = parents[t] \ S
      BY <1>1
    <2>1. \A r \in S : t \in staying[r] <=> t \in children[r]
      BY <1>1, <1>3
    <2>2. \A r \in S : t \in staying[r] <=> r \in parents[t]
      BY <1>1, <2>1 DEF LinksMutual
    <2> QED
      BY <2>2
  <1>6. LinksMutual'
    <2>1. children' \in [Txs -> SUBSET mapTx']
      <3>1. children' = [t \in Txs |-> children'[t]]
        BY <1>1
      <3>2. \A t \in Txs : children'[t] \subseteq mapTx'
        BY <1>1, <1>4 DEF LinksMutual
      <3> QED
        BY <3>1, <3>2
    <2>2. parents' \in [Txs -> SUBSET mapTx']
      <3>1. parents' = [t \in Txs |-> parents'[t]]
        BY <1>1
      <3>2. \A t \in Txs : parents'[t] \subseteq mapTx'
        BY <1>1, <1>5 DEF LinksMutual
      <3> QED
        BY <3>1, <3>2
    <2>3. ASSUME NEW t \in Txs, NEW u \in Txs
          PROVE  u \in children'[t] <=> t \in parents'[u]
      <3>1. u \in children[t] <=> t \in parents[u]
        BY DEF LinksMutual
      <3>2. u \in children'[t] <=> t \notin S /\ u \notin S /\ u \in children[t]
        BY <1>4
      <3>3. t \in parents'[u] <=> t \notin S /\ u \notin S /\ t \in parents[u]
        BY <1>5
      <3> QED
        BY <3>1, <3>2, <3>3
    <2> QED
      BY <2>1, <2>2, <2>3 DEF LinksMutual
  <1>7. LinksReal'
    BY <1>4 DEF LinksReal, Spends
  <1>8. \A t, u \in mapTx' : u \in children'[t] <=> u \in children[t]
    BY <1>1, <1>4 DEF Txs0
  <1> QED
    BY <1>1, <1>2, <1>6, <1>7, <1>8

(* addUnchecked links a transaction to its parents, and to no children. *)
LEMMA AddFacts ==
  ASSUME SpendersExact, LinksMutual, LinksReal, NEW t \in Txs, t \notin Generated, t \notin mapTx,
         \A o \in Vin[t] : mapNextTx[o] = NoTx, NEW A, addUnchecked(t, A)
  PROVE  /\ SpendersExact' /\ LinksMutual' /\ LinksReal'
         /\ mapTx' = mapTx \cup {t}
         /\ \A x, y \in mapTx : y \in children'[x] <=> y \in children[x]
         /\ \A x \in mapTx : t \in children'[x] <=> Spends(t, x)
         /\ children'[t] = {}
  <1> DEFINE ps == ParentsOf(t)
  <1>1. /\ mapTx' = mapTx \cup {t} /\ mapTx \subseteq Txs0 /\ mapTx' \subseteq Txs0 /\ mapTx \subseteq Txs
        /\ mapNextTx' = [o \in Outpoints |-> IF o \in Vin[t] THEN t ELSE mapNextTx[o]]
        /\ parents' = [parents EXCEPT ![t] = ps]
        /\ children' = [u \in Txs |-> IF u \in ps THEN children[u] \cup {t} ELSE children[u]]
    BY DEF addUnchecked, SpendersExact, Txs0
  <1>2. ps = {u \in mapTx : Spends(t, u)}
    BY ChildrenFacts
  <1> HIDE DEF ps
  <1>3. SpendersExact'
    <2>1. mapNextTx' \in [Outpoints -> Txs \cup {NoTx}]
      BY <1>1 DEF SpendersExact
    <2>2. ASSUME NEW o \in Outpoints, NEW u \in Txs
          PROVE  mapNextTx'[o] = u <=> u \in mapTx' /\ o \in Vin[u]
      <3>1. mapNextTx[o] = u <=> u \in mapTx /\ o \in Vin[u]
        BY DEF SpendersExact
      <3> QED
        BY <1>1, <3>1, TxFacts
    <2> QED
      BY <1>1, <2>1, <2>2 DEF SpendersExact
  <1>4. parents[t] = {} /\ children[t] = {}
    <2>1. \A u \in Txs : t \notin parents[u] /\ t \notin children[u]
      BY DEF LinksMutual
    <2> QED
      BY <1>1, <2>1 DEF LinksMutual
  <1>5. LinksMutual'
    <2>1. parents' \in [Txs -> SUBSET mapTx']
      BY <1>1, <1>2 DEF LinksMutual
    <2>2. children' \in [Txs -> SUBSET mapTx']
      <3>1. \A u \in Txs : children[u] \cup {t} \subseteq mapTx' /\ children[u] \subseteq mapTx'
        BY <1>1 DEF LinksMutual
      <3> QED
        BY <1>1, <3>1
    <2>3. ASSUME NEW x \in Txs, NEW y \in Txs
          PROVE  y \in children'[x] <=> x \in parents'[y]
      <3>1. y \in children[x] <=> x \in parents[y]
        BY DEF LinksMutual
      <3>2. t \notin parents[y] /\ t \notin children[x]
        BY DEF LinksMutual
      <3>3. parents'[y] = IF y = t THEN ps ELSE parents[y]
        BY <1>1 DEF LinksMutual
      <3> QED
        BY <1>1, <3>1, <3>2, <3>3
    <2> QED
      BY <2>1, <2>2, <2>3 DEF LinksMutual
  <1>6. LinksReal'
    <2> SUFFICES ASSUME NEW x \in Txs, NEW y \in Txs, y \in children'[x]
                 PROVE  Spends(y, x)
      BY DEF LinksReal, Spends
    <2>1. y \in children[x] \/ (x \in ps /\ y = t)
      BY <1>1
    <2> QED
      BY <1>2, <2>1 DEF LinksReal
  <1>7. /\ \A x, y \in mapTx : y \in children'[x] <=> y \in children[x]
        /\ \A x \in mapTx : t \in children'[x] <=> Spends(t, x)
        /\ children'[t] = {}
    <2>1. \A x \in mapTx : t \notin children[x]
      BY <1>1 DEF LinksMutual
    <2>2. t \notin ps
      BY <1>2
    <2> QED
      BY <1>1, <1>2, <1>4, <2>1, <2>2
  <1> QED
    BY <1>1, <1>3, <1>5, <1>6, <1>7
-----------------------------------------------------------------------------
(* The shape of a job, by where it is *)
LEMMA JobFacts ==
  ASSUME job \in Job
  PROVE  /\ job.at = "idle" => job = Idle
         /\ job.at \in {"expire", "purge"} => job \in [at : {job.at}, then : Later]
         /\ job.at = "trim" => job \in [at : {"trim"}, then : Later \cup PuttingBack({"accepted"})]
         /\ job.at = "trim" /\ job.then.at # "accepted" => job.then \in Later
         /\ job.at = "trim" /\ job.then.at = "accepted" => job.then \in PuttingBack({"accepted"})
         /\ job.at = "purging" => job \in [at : {"purging"}, todo : SUBSET Txs, then : Later]
         /\ job.at \in {"resurrect", "accepted", "update"} => job \in PuttingBack({job.at})
         /\ job.at \in {"connected", "disconnected"} => job \in [at : {job.at}, op : Ops \cup {"extend"}]
         /\ job.at \in {"remove", "conflicts"} => job \in [at : {job.at}, op : Ops \cup {"extend"}, i : Nat]
  BY DEF Job, Idle, Later, Limit, Purge, PuttingBack

(* Jobs and the transactions they are at *)
LEMMA AtFacts ==
  ASSUME Chains
  PROVE  /\ job.at \in {"resurrect", "accepted"} => Resurrected \in Txs
         /\ job.at \in {"remove", "conflicts"} => Connected \in Txs
         /\ job.at = "update" /\ job.i > 0 => job.hashes[job.i] \in Txs /\ job.hashes[job.i] \in ToSet(job.hashes)
         /\ job.at = "purging" => job.todo \subseteq Txs
  <1>1. job \in Job
    BY DEF Chains
  <1>2. chainActive \in Seq(Blocks) /\ Len(chainActive) > 0 /\ pcoinsTip \in Seq(Blocks) /\ Len(pcoinsTip) > 0
    BY DEF Chains, ValidChain
  <1>3. Last(chainActive) \in Blocks /\ Last(pcoinsTip) \in Blocks
    BY <1>2 DEF Last
  <1>4. Vtx[Last(chainActive)] \in Seq(Txs) /\ Vtx[Last(pcoinsTip)] \in Seq(Txs)
    BY <1>3, BlockAssumption
  <1>5. job.at \in {"resurrect", "accepted"} => Resurrected \in Txs
    BY <1>4 DEF Chains, Disconnecting, Resurrected
  <1>6. job.at \in {"remove", "conflicts"} => Connected \in Txs
    BY <1>4 DEF Chains, Doing, Connected
  <1>7. CASE job.at = "update" /\ job.i > 0
    <2>1. job.hashes \in Seq(Txs) /\ job.i \in Nat
      BY <1>1, <1>7, JobFacts DEF PuttingBack
    <2>2. job.i \in 1 .. Len(job.hashes)
      BY <1>7, <2>1 DEF Chains, Disconnecting
    <2> QED
      BY <1>5, <1>6, <1>7, <2>1, <2>2 DEF ToSet
  <1>8. job.at = "purging" => job.todo \subseteq Txs
    BY <1>1, JobFacts
  <1> QED
    BY <1>5, <1>6, <1>7, <1>8

(* What Removal takes *)
LEMMA RemovalFacts ==
  ASSUME SpendersExact, LinksMutual, NEW t \in Txs, NEW C, C = Removal(t)
  PROVE  /\ C \subseteq mapTx /\ \A u \in C : children[u] \subseteq C
         /\ t \in mapTx => t \in C
         /\ t \notin mapTx => {u \in mapTx : Spends(u, t)} \subseteq C
         /\ \A D \in SUBSET mapTx :
               t \notin mapTx /\ ChildrenOf(t) \subseteq D /\ (\A u \in D : children[u] \subseteq D) => C \subseteq D
  <1>1. ChildrenOf(t) = {u \in mapTx : Spends(u, t)}
    BY ChildrenFacts
  <1>2. CASE t \in mapTx
    <2>1. C = CalculateDescendants({t}) /\ {t} \in SUBSET mapTx
      BY <1>2 DEF Removal
    <2> QED
      BY <1>2, <2>1, DescendantsFacts
  <1>3. CASE t \notin mapTx
    <2>1. C = CalculateDescendants(ChildrenOf(t)) /\ ChildrenOf(t) \in SUBSET mapTx
      BY <1>1, <1>3 DEF Removal
    <2> QED
      BY <1>1, <1>3, <2>1, DescendantsFacts
  <1> QED
    BY <1>2, <1>3

(* The conflicts of the transaction that is connected *)
Conflicts == {mapNextTx[o] : o \in Vin[Connected]} \ {NoTx, Connected}

(* What RemoveConflicts takes *)
LEMMA ConflictFacts ==
  ASSUME SpendersExact, LinksMutual, Connected \in Txs, NEW C, C = CalculateDescendants(Conflicts)
  PROVE  /\ C \subseteq mapTx /\ \A u \in C : children[u] \subseteq C
         /\ \A u \in mapTx \ {Connected} : Vin[u] \cap Vin[Connected] # {} => u \in C
  <1>1. Conflicts \subseteq mapTx
    BY TxFacts DEF SpendersExact, Conflicts
  <1>2. Conflicts \subseteq C /\ C \subseteq mapTx /\ \A u \in C : children[u] \subseteq C
    BY <1>1, DescendantsFacts
  <1>3. ASSUME NEW u \in mapTx, u # Connected, NEW o \in Vin[u], o \in Vin[Connected]
        PROVE  u \in C
    <2>1. u \in Txs /\ u # NoTx /\ o \in Outpoints
      BY <1>3, TxFacts DEF SpendersExact, Txs0
    <2>2. mapNextTx[o] = u
      BY <1>3, <2>1 DEF SpendersExact
    <2> QED
      BY <1>2, <1>3, <2>1, <2>2 DEF Conflicts
  <1> QED
    BY <1>2, <1>3

(* UpdateTransactionsFromBlock adds links to what the pool has that spends *)
(* the transaction.                                                        *)
LEMMA UpdateFacts ==
  ASSUME Chains, SpendersExact, LinksMutual, LinksReal, UpdateTransactionsFromBlock,
         NEW t, t = job.hashes[job.i], t \in mapTx
  PROVE  /\ SpendersExact' /\ LinksMutual' /\ LinksReal' /\ UNCHANGED mapTx
         /\ \A x \in Txs, u \in Txs :
               u \in children'[x] <=> \/ u \in children[x]
                                      \/ x = t /\ u \in mapTx /\ Spends(u, t) /\ u \notin ToSet(job.hashes)
  <1>1. t \in Txs
    BY AtFacts DEF UpdateTransactionsFromBlock
  <1>2. ChildrenOf(t) = {u \in mapTx : Spends(u, t)}
    BY <1>1, ChildrenFacts
  <1> DEFINE kids == NewChildren(t, ToSet(job.hashes))
  <1>3. /\ children' = [children EXCEPT ![t] = @ \cup kids]
        /\ parents' = [u \in Txs |-> IF u \in kids THEN parents[u] \cup {t} ELSE parents[u]]
        /\ UNCHANGED <<mapTx, mapNextTx>>
    BY DEF UpdateTransactionsFromBlock
  <1>4. kids = {u \in mapTx : Spends(u, t) /\ u \notin ToSet(job.hashes)}
    BY <1>2 DEF NewChildren
  <1> HIDE DEF kids
  <1>5. SpendersExact'
    BY <1>3 DEF SpendersExact
  <1>6. \A x \in Txs, u \in Txs : u \in children'[x] <=> u \in children[x] \/ (x = t /\ u \in kids)
    BY <1>1, <1>3 DEF LinksMutual
  <1>7. LinksMutual'
    <2>1. kids \subseteq mapTx
      BY <1>4
    <2>2. children' \in [Txs -> SUBSET mapTx'] /\ parents' \in [Txs -> SUBSET mapTx']
      BY <1>1, <1>3, <2>1 DEF LinksMutual
    <2>3. \A x \in Txs, u \in Txs : u \in children'[x] <=> x \in parents'[u]
      BY <1>1, <1>3, <1>6 DEF LinksMutual
    <2> QED
      BY <2>2, <2>3 DEF LinksMutual
  <1>8. LinksReal'
    BY <1>4, <1>6 DEF LinksReal, Spends
  <1> QED
    BY <1>3, <1>4, <1>5, <1>6, <1>7, <1>8

(* What a step does to the pool *)
PoolSame == UNCHANGED poolVars
PoolLoses ==
    \E S \in SUBSET mapTx :
        RemoveStaged(S) /\ ((\A u \in S : children[u] \subseteq S) \/ (RemoveForBlock /\ S = {Connected} \cap mapTx))
PoolGains == \E t \in Txs : Acceptable(t) /\ addUnchecked(t, AncestorsToBe(t))
PoolLinks == UpdateTransactionsFromBlock /\ job.hashes[job.i] \in mapTx

(* A step leaves the pool alone, takes a set with its descendants out of   *)
(* it, or a transaction that is in a block, adds an acceptable transaction *)
(* or completes the links of one.                                          *)
LEMMA StepKinds ==
  ASSUME Chains, SpendersExact, LinksMutual, Next
  PROVE  PoolSame \/ PoolLoses \/ PoolGains \/ PoolLinks
  <1>1. CASE \E t \in Txs : AcceptToMemoryPool(t)
    BY <1>1 DEF AcceptToMemoryPool, PoolGains
  <1>2. CASE Expire
    <2>1. PICK old \in SUBSET mapTx : RemoveStaged(CalculateDescendants(old))
      BY <1>2 DEF Expire
    <2> QED
      BY <2>1, DescendantsFacts DEF PoolLoses
  <1>3. CASE Trim
    <2>1. PICK t \in mapTx : RemoveStaged(CalculateDescendants({t}))
      BY <1>3 DEF Trim
    <2>2. {t} \in SUBSET mapTx
      OBVIOUS
    <2> QED
      BY <2>1, <2>2, DescendantsFacts DEF PoolLoses
  <1>4. CASE ResurrectAccept
    BY <1>4, AtFacts DEF ResurrectAccept, PoolGains
  <1>5. CASE ResurrectRefuse
    BY <1>5, AtFacts, RemovalFacts DEF ResurrectRefuse, PoolLoses
  <1>6. CASE ResurrectDone
    BY <1>6, AtFacts, RemovalFacts DEF ResurrectDone, PoolLoses, PoolSame
  <1>7. CASE UpdateTransactionsFromBlock
    BY <1>7 DEF UpdateTransactionsFromBlock, PoolSame, PoolLinks
  <1>8. CASE RemoveForBlock
    <2>1. {Connected} \cap mapTx \in SUBSET mapTx
      OBVIOUS
    <2> QED
      BY <1>8, <2>1 DEF RemoveForBlock, PoolLoses
  <1>9. CASE RemoveConflicts
    <2>1. RemoveStaged(CalculateDescendants(Conflicts)) /\ Connected \in Txs
      BY <1>9, AtFacts DEF RemoveConflicts, Conflicts
    <2> QED
      BY <2>1, ConflictFacts DEF PoolLoses
  <1>10. CASE PurgeOne
    <2>1. PICK t \in job.todo : RemoveStaged(Removal(t))
      BY <1>10 DEF PurgeOne
    <2>2. t \in Txs
      BY <1>10, AtFacts DEF PurgeOne
    <2> QED
      BY <2>1, <2>2, RemovalFacts DEF PoolLoses
  <1>11. CASE \/ TrimDone \/ TipDisconnected \/ StepDone \/ StepFails \/ InvalidateDone \/ ReplayDone
              \/ RemoveForReorg \/ PurgeDone
    BY <1>11 DEF TrimDone, TipDisconnected, StepDone, StepFails, InvalidateDone, ReplayDone, RemoveForReorg,
       PurgeDone, PoolSame
  <1>12. CASE (\E op \in {"reorg", "invalidate", "replay"} : DisconnectTip(op)) \/ (\E b \in Blocks : ConnectTip(b))
    BY <1>12 DEF DisconnectTip, ConnectTip, PoolSame
  <1> QED
    BY <1>1, <1>2, <1>3, <1>4, <1>5, <1>6, <1>7, <1>8, <1>9, <1>10, <1>11, <1>12 DEF Next

(* The indexes stay right. *)
LEMMA LinksNext ==
  ASSUME Chains, SpendersExact, LinksMutual, LinksReal, [Next]_vars
  PROVE  SpendersExact' /\ LinksMutual' /\ LinksReal'
  <1>1. CASE PoolSame \/ UNCHANGED vars
    <2>1. UNCHANGED <<mapTx, mapNextTx, parents, children>>
      BY <1>1 DEF PoolSame, poolVars, vars
    <2> QED
      BY <2>1 DEF SpendersExact, LinksMutual, LinksReal, Spends
  <1>2. CASE PoolLoses
    BY <1>2, RemoveFacts DEF PoolLoses
  <1>3. CASE PoolGains
    <2>1. PICK t \in Txs : Acceptable(t) /\ addUnchecked(t, AncestorsToBe(t))
      BY <1>3 DEF PoolGains
    <2>2. t \notin Generated /\ t \notin mapTx /\ \A o \in Vin[t] : mapNextTx[o] = NoTx
      BY <2>1 DEF Acceptable
    <2> QED
      BY <2>1, <2>2, AddFacts
  <1>4. CASE PoolLinks
    BY <1>4, UpdateFacts DEF PoolLinks
  <1> QED
    BY <1>1, <1>2, <1>3, <1>4, StepKinds

-----------------------------------------------------------------------------
(* Blocks and their transactions *)
LEMMA BlockFacts ==
  /\ Base \in Blocks
  /\ \A b \in Blocks : Vtx[b] \in Seq(Txs) /\ Len(Vtx[b]) \in Nat /\ Len(Vtx[b]) > 0
                       /\ \A k \in 1 .. Len(Vtx[b]) : Vtx[b][k] \in Txs
  BY BlockAssumption

(* The transactions of a chain, one by one *)
LEMMA ConfirmedFacts ==
  ASSUME NEW s \in Seq(Blocks)
  PROVE  /\ Confirmed(s) \subseteq Txs
         /\ \A t : t \in Confirmed(s) <=> \E n \in 1 .. Len(s) : t \in ToSet(Vtx[s[n]])
  <1>1. \A t : t \in Confirmed(s) <=> \E n \in 1 .. Len(s) : t \in ToSet(Vtx[s[n]])
    <2>1. DOMAIN s = 1 .. Len(s)
      OBVIOUS
    <2>2. ToSet(s) = {s[n] : n \in 1 .. Len(s)}
      BY <2>1 DEF ToSet
    <2> QED
      BY <2>2 DEF Confirmed
  <1>2. \A n \in 1 .. Len(s) : ToSet(Vtx[s[n]]) \subseteq Txs
    BY BlockFacts DEF ToSet
  <1> QED
    BY <1>1, <1>2

(* A chain without its last block *)
LEMMA FrontFacts ==
  ASSUME NEW s \in Seq(Blocks), Len(s) > 1
  PROVE  /\ Front(s) \in Seq(Blocks) /\ Len(Front(s)) = Len(s) - 1 /\ Last(s) \in Blocks
         /\ \A n \in 1 .. Len(s) - 1 : Front(s)[n] = s[n] /\ SubSeq(Front(s), 1, n) = SubSeq(s, 1, n)
         /\ Confirmed(s) = Confirmed(Front(s)) \cup ToSet(Vtx[Last(s)])
  <1>1. Front(s) \in Seq(Blocks) /\ Len(Front(s)) = Len(s) - 1 /\ \A n \in 1 .. Len(s) - 1 : Front(s)[n] = s[n]
    BY DEF Front
  <1>2. ASSUME NEW n \in 1 .. Len(s) - 1
        PROVE  SubSeq(Front(s), 1, n) = SubSeq(s, 1, n)
    <2>1. /\ SubSeq(s, 1, n) \in Seq(Blocks) /\ Len(SubSeq(s, 1, n)) = n
          /\ SubSeq(Front(s), 1, n) \in Seq(Blocks) /\ Len(SubSeq(Front(s), 1, n)) = n
      BY <1>1
    <2>2. \A k \in 1 .. n : SubSeq(s, 1, n)[k] = s[k] /\ SubSeq(Front(s), 1, n)[k] = Front(s)[k]
      BY <1>1
    <2>3. \A k \in 1 .. n : SubSeq(s, 1, n)[k] = SubSeq(Front(s), 1, n)[k]
      BY <1>1, <2>2
    <2> QED
      BY <2>1, <2>3
  <1>3. Confirmed(s) = Confirmed(Front(s)) \cup ToSet(Vtx[Last(s)])
    <2>1. \A t : t \in Confirmed(s) <=> \E n \in 1 .. Len(s) : t \in ToSet(Vtx[s[n]])
      BY ConfirmedFacts
    <2>2. \A t : t \in Confirmed(Front(s)) <=> \E n \in 1 .. Len(s) - 1 : t \in ToSet(Vtx[s[n]])
      BY <1>1, ConfirmedFacts
    <2>3. \A n : n \in 1 .. Len(s) <=> n \in 1 .. Len(s) - 1 \/ n = Len(s)
      OBVIOUS
    <2> QED
      BY <2>1, <2>2, <2>3 DEF Last
  <1> QED
    BY <1>1, <1>2, <1>3 DEF Last

(* The whole of a sequence is a part of it. *)
LEMMA SubSeqWhole ==
  ASSUME NEW s \in Seq(Blocks)
  PROVE  SubSeq(s, 1, Len(s)) = s
  OBVIOUS

(* A valid chain without its last block is one that the block connects to. *)
LEMMA ValidFront ==
  ASSUME NEW s, ValidChain(s), Len(s) > 1
  PROVE  /\ ValidChain(Front(s)) /\ ConnectBlock(Last(s), Front(s))
         /\ SelfContained(Confirmed(Front(s))) /\ SelfContained(Confirmed(s))
  <1>1. s \in Seq(Blocks) /\ Len(s) \in Nat
    BY DEF ValidChain
  <1>2. Front(s) \in Seq(Blocks) /\ Len(Front(s)) = Len(s) - 1
    BY <1>1, FrontFacts
  <1>3. \A n \in 1 .. Len(s) - 1 : Front(s)[n] = s[n] /\ SubSeq(Front(s), 1, n) = SubSeq(s, 1, n)
    BY <1>1, FrontFacts
  <1>4. SubSeq(s, 1, Len(s) - 1) = Front(s) /\ SubSeq(s, 1, Len(s)) = s
    BY <1>1, SubSeqWhole DEF Front
  <1>5. \A n \in 2 .. Len(s) - 1 : ConnectBlock(Front(s)[n], SubSeq(Front(s), 1, n - 1))
    <2> TAKE n \in 2 .. Len(s) - 1
    <2>1. n - 1 \in 1 .. Len(s) - 1 /\ n \in 1 .. Len(s) - 1 /\ n \in 2 .. Len(s)
      BY <1>1
    <2>2. ConnectBlock(s[n], SubSeq(s, 1, n - 1))
      BY <2>1 DEF ValidChain
    <2> QED
      BY <1>3, <2>1, <2>2
  <1>6. \A n \in 1 .. Len(s) - 1 : SelfContained(Upto(Front(s), n))
    <2> TAKE n \in 1 .. Len(s) - 1
    <2>1. SubSeq(Front(s), 1, n) = SubSeq(s, 1, n)
      BY <1>3
    <2>2. n \in 1 .. Len(s)
      BY <1>1
    <2>3. SelfContained(Confirmed(SubSeq(s, 1, n)))
      BY <2>2 DEF ValidChain, Upto
    <2> QED
      BY <2>1, <2>3 DEF Upto
  <1>7. ConnectBlock(Last(s), Front(s))
    <2>1. Len(s) \in 2 .. Len(s)
      BY <1>1
    <2>2. ConnectBlock(s[Len(s)], SubSeq(s, 1, Len(s) - 1))
      BY <2>1 DEF ValidChain
    <2> QED
      BY <1>4, <2>2 DEF Last
  <1>8. SelfContained(Confirmed(Front(s))) /\ SelfContained(Confirmed(s))
    <2>1. SelfContained(Upto(s, Len(s) - 1)) /\ SelfContained(Upto(s, Len(s)))
      BY <1>1 DEF ValidChain
    <2> QED
      BY <1>4, <2>1 DEF Upto
  <1> QED
    BY <1>1, <1>2, <1>3, <1>5, <1>6, <1>7, <1>8 DEF ValidChain

(* What ConnectBlock tests, transaction by transaction *)
LEMMA ConnectFacts ==
  ASSUME NEW b \in Blocks, NEW s \in Seq(Blocks), ConnectBlock(b, s), NEW k \in 1 .. Len(Vtx[b])
  PROVE  /\ Vtx[b][k] \notin Confirmed(s)
         /\ \A j \in 1 .. Len(Vtx[b]) : Vtx[b][j] = Vtx[b][k] => j = k
         /\ \A o \in Vin[Vtx[b][k]] : o[1] \in Confirmed(s) \/ \E j \in 1 .. k - 1 : o[1] = Vtx[b][j]
  <1> DEFINE before(i) == Confirmed(s) \cup {Vtx[b][j] : j \in 1 .. i - 1}
  <1>1. \A i \in 1 .. Len(Vtx[b]) : Vtx[b][i] \notin before(i) /\ Vin[Vtx[b][i]] \subseteq Unspent(before(i))
    <2>1. DOMAIN Vtx[b] = 1 .. Len(Vtx[b])
      BY BlockFacts
    <2> QED
      BY <2>1 DEF ConnectBlock
  <1>2. Vtx[b][k] \notin Confirmed(s)
    BY <1>1
  <1>3. ASSUME NEW j \in 1 .. Len(Vtx[b]), Vtx[b][j] = Vtx[b][k]
        PROVE  j = k
    <2>1. \A i \in 1 .. Len(Vtx[b]) : \A h \in 1 .. i - 1 : Vtx[b][i] # Vtx[b][h]
      BY <1>1
    <2>2. Len(Vtx[b]) \in Nat
      BY BlockFacts
    <2>3. j \in 1 .. k - 1 \/ k \in 1 .. j - 1 \/ j = k
      BY <2>2
    <2> QED
      BY <1>3, <2>1, <2>3
  <1>4. ASSUME NEW o \in Vin[Vtx[b][k]]
        PROVE  o[1] \in Confirmed(s) \/ \E j \in 1 .. k - 1 : o[1] = Vtx[b][j]
    <2>1. PICK t \in before(k) : o \in Vout[t]
      BY <1>1 DEF Unspent
    <2>2. t \in Txs
      <3>1. \A j \in 1 .. k - 1 : j \in 1 .. Len(Vtx[b])
        BY BlockFacts
      <3> QED
        BY <2>1, <3>1, BlockFacts, ConfirmedFacts
    <2>3. o[1] = t
      BY <2>1, <2>2, TxFacts
    <2> QED
      BY <2>1, <2>3
  <1> QED
    BY <1>2, <1>3, <1>4

(* A valid chain with a block that connects to it *)
LEMMA ValidAppend ==
  ASSUME NEW s, ValidChain(s), NEW b \in Blocks, ConnectBlock(b, s), NEW q, q = Append(s, b)
  PROVE  /\ ValidChain(q) /\ Len(q) = Len(s) + 1 /\ Front(q) = s /\ Last(q) = b
         /\ Confirmed(q) = Confirmed(s) \cup ToSet(Vtx[b])
  <1>1. s \in Seq(Blocks) /\ Len(s) \in Nat /\ Len(s) > 0
    BY DEF ValidChain
  <1>2. q \in Seq(Blocks) /\ Len(q) = Len(s) + 1 /\ Last(q) = b /\ \A n \in 1 .. Len(s) : q[n] = s[n]
    BY <1>1 DEF Last
  <1>3. Front(q) = s
    BY <1>1, <1>2 DEF Front
  <1>4. Confirmed(q) = Confirmed(s) \cup ToSet(Vtx[b])
    <2>1. q \in Seq(Blocks) /\ Len(q) > 1
      BY <1>1, <1>2
    <2>2. Confirmed(q) = Confirmed(Front(q)) \cup ToSet(Vtx[Last(q)])
      BY <2>1, FrontFacts
    <2> QED
      BY <1>2, <1>3, <2>2
  <1>5. \A n \in 1 .. Len(s) : SubSeq(q, 1, n) = SubSeq(s, 1, n)
    BY <1>1, <1>2, <1>3, FrontFacts
  <1>6. SubSeq(q, 1, Len(q)) = q /\ SubSeq(q, 1, Len(s)) = s
    BY <1>1, <1>2, <1>5, SubSeqWhole
  <1>7. \A n \in 2 .. Len(q) : ConnectBlock(q[n], SubSeq(q, 1, n - 1))
    <2> TAKE n \in 2 .. Len(q)
    <2>1. CASE n = Len(q)
      <3>1. q[n] = b /\ SubSeq(q, 1, n - 1) = s
        BY <1>1, <1>2, <1>6, <2>1 DEF Last
      <3> QED
        BY <3>1
    <2>2. CASE n # Len(q)
      <3>1. n \in 2 .. Len(s) /\ n - 1 \in 1 .. Len(s) /\ n \in 1 .. Len(s)
        BY <1>1, <1>2, <2>2
      <3>2. ConnectBlock(s[n], SubSeq(s, 1, n - 1))
        BY <3>1 DEF ValidChain
      <3> QED
        BY <1>2, <1>5, <3>1, <3>2
    <2> QED
      BY <2>1, <2>2
  <1>8. SelfContained(Confirmed(q))
    <2> SUFFICES ASSUME NEW t \in Confirmed(q), NEW o \in Vin[t]
                 PROVE  o[1] \in Confirmed(q)
      BY DEF SelfContained
    <2>1. CASE t \in Confirmed(s)
      <3>1. SelfContained(Upto(s, Len(s)))
        BY <1>1 DEF ValidChain
      <3>2. SelfContained(Confirmed(s))
        BY <1>1, <3>1, SubSeqWhole DEF Upto
      <3> QED
        BY <1>4, <2>1, <3>2 DEF SelfContained
    <2>2. CASE t \in ToSet(Vtx[b])
      <3>1. PICK k \in 1 .. Len(Vtx[b]) : t = Vtx[b][k]
        BY <2>2, BlockFacts DEF ToSet
      <3>2. o[1] \in Confirmed(s) \/ \E j \in 1 .. k - 1 : o[1] = Vtx[b][j]
        BY <1>1, <3>1, ConnectFacts
      <3>3. \A j \in 1 .. k - 1 : Vtx[b][j] \in ToSet(Vtx[b])
        BY BlockFacts DEF ToSet
      <3> QED
        BY <1>4, <3>2, <3>3
    <2> QED
      BY <1>4, <2>1, <2>2
  <1>9. \A n \in 1 .. Len(q) : SelfContained(Upto(q, n))
    <2> TAKE n \in 1 .. Len(q)
    <2>1. CASE n = Len(q)
      BY <1>6, <1>8, <2>1 DEF Upto
    <2>2. CASE n # Len(q)
      <3>1. n \in 1 .. Len(s)
        BY <1>1, <1>2, <2>2
      <3> QED
        BY <1>5, <3>1 DEF ValidChain, Upto
    <2> QED
      BY <2>1, <2>2
  <1>10. q[1] = Base
    BY <1>1, <1>2 DEF ValidChain
  <1> QED
    BY <1>1, <1>2, <1>3, <1>4, <1>7, <1>9, <1>10 DEF ValidChain

(* The chain starts with Base. *)
LEMMA ValidBase ==
  ValidChain(<<Base>>)
  <1>1. <<Base>> \in Seq(Blocks) /\ Len(<<Base>>) = 1 /\ <<Base>>[1] = Base
    BY BlockFacts
  <1>2. SubSeq(<<Base>>, 1, 1) = <<Base>>
    BY <1>1, SubSeqWhole
  <1>3. \A t : t \in Confirmed(<<Base>>) <=> t \in ToSet(Vtx[Base])
    <2>1. \A t : t \in Confirmed(<<Base>>) <=> \E n \in 1 .. Len(<<Base>>) : t \in ToSet(Vtx[<<Base>>[n]])
      BY <1>1, ConfirmedFacts
    <2>2. \A n \in 1 .. Len(<<Base>>) : n = 1 /\ <<Base>>[n] = Base
      BY <1>1
    <2>3. 1 \in 1 .. Len(<<Base>>)
      BY <1>1
    <2> QED
      BY <1>1, <2>1, <2>2, <2>3
  <1>4. SelfContained(Confirmed(<<Base>>))
    <2> SUFFICES ASSUME NEW t \in ToSet(Vtx[Base]), NEW o \in Vin[t]
                 PROVE  o[1] \in ToSet(Vtx[Base])
      BY <1>3 DEF SelfContained
    <2>1. PICK k \in DOMAIN Vtx[Base] : t = Vtx[Base][k]
      BY DEF ToSet
    <2>2. PICK j \in DOMAIN Vtx[Base] : o \in Vout[Vtx[Base][j]]
      BY <2>1, BlockAssumption
    <2>3. Vtx[Base][j] \in Txs
      BY BlockFacts
    <2> QED
      BY <2>2, <2>3, TxFacts DEF ToSet
  <1>5. \A n \in 1 .. Len(<<Base>>) : SelfContained(Upto(<<Base>>, n))
    <2>1. Upto(<<Base>>, 1) = Confirmed(<<Base>>)
      BY <1>2 DEF Upto
    <2>2. \A n \in 1 .. Len(<<Base>>) : n = 1
      BY <1>1
    <2> QED
      BY <1>4, <2>1, <2>2
  <1>6. \A n \in 2 .. Len(<<Base>>) : FALSE
    BY <1>1
  <1> QED
    BY <1>1, <1>5, <1>6 DEF ValidChain

-----------------------------------------------------------------------------
(* Steps between blocks *)
LEMMA ChainsRest ==
  ASSUME Chains, ~Undoing, ~Doing, UNCHANGED chainVars, job' \in Job, ~Undoing', ~Doing'
  PROVE  Chains'
  BY DEF Chains, Undoing, Doing, chainVars

(* The jobs that are between blocks *)
LEMMA LaterFacts ==
  ASSUME NEW j \in Later
  PROVE  /\ j \in Job /\ j.at \in {"idle", "expire", "purge"}
         /\ Idle \in Later /\ Limit(Idle) \in Later /\ Purge(Idle) \in Later /\ Idle.at = "idle"
         /\ Purge(Limit(Idle)) \in Job /\ Limit(Purge(Idle)) \in Job
  BY DEF Later, Job, Idle, Limit, Purge

(* The jobs that follow the transaction that was handled *)
LEMMA ResurrectNextFacts ==
  ASSUME job \in PuttingBack({"resurrect", "accepted"}), NEW hashes \in Seq(Txs), chainActive \in Seq(Blocks),
         Len(chainActive) > 0, job.i \in 1 .. Len(Vtx[Last(chainActive)]), NEW j, j = NextResurrect(hashes)
  PROVE  /\ j \in PuttingBack({"resurrect", "update"}) /\ j \in Job /\ j.hashes = hashes /\ j.op = job.op
         /\ job.i = Len(Vtx[Last(chainActive)]) => j.at = "update" /\ j.i = Len(hashes)
         /\ job.i # Len(Vtx[Last(chainActive)]) => /\ j.at = "resurrect" /\ j.i = job.i + 1
                                                  /\ j.i \in 1 .. Len(Vtx[Last(chainActive)])
  <1>1. job.op \in Ops /\ job.i \in Nat /\ Len(hashes) \in Nat
    BY DEF PuttingBack
  <1>2. Len(Vtx[Last(chainActive)]) \in Nat
    BY BlockFacts DEF Last
  <1>3. CASE job.i = Len(Vtx[Last(chainActive)])
    <2>1. j = [at |-> "update", op |-> job.op, i |-> Len(hashes), hashes |-> hashes]
      BY <1>3 DEF NextResurrect
    <2> QED
      BY <1>1, <1>3, <2>1 DEF PuttingBack, Job
  <1>4. CASE job.i # Len(Vtx[Last(chainActive)])
    <2>1. j = [at |-> "resurrect", op |-> job.op, i |-> job.i + 1, hashes |-> hashes]
      BY <1>4 DEF NextResurrect
    <2> QED
      BY <1>1, <1>2, <1>4, <2>1 DEF PuttingBack, Job
  <1> QED
    BY <1>3, <1>4

(* Every step keeps the chains and the place in the block. *)
LEMMA ChainsNext ==
  ASSUME Chains, SpendersExact, unpurged \in BOOLEAN, [Next]_vars
  PROVE  Chains' /\ unpurged' \in BOOLEAN
  <1>1. /\ job \in Job /\ chainActive \in Seq(Blocks) /\ Len(chainActive) > 0 /\ pcoinsTip \in Seq(Blocks)
        /\ Len(pcoinsTip) > 0 /\ ValidChain(chainActive) /\ ValidChain(pcoinsTip)
    BY DEF Chains, ValidChain
  <1>2. Last(chainActive) \in Blocks /\ Last(pcoinsTip) \in Blocks
    BY <1>1 DEF Last
  <1>3. CASE UNCHANGED vars
    <2>1. UNCHANGED <<job, chainActive, pcoinsTip, unpurged>>
      BY <1>3 DEF vars, chainVars
    <2> QED
      BY <2>1 DEF Chains, Undoing, Doing, Disconnecting
  <1>4. CASE \E t \in Txs : AcceptToMemoryPool(t)
    <2>1. job = Idle /\ job' = [at |-> "expire", then |-> Idle] /\ UNCHANGED <<chainVars, unpurged>>
      BY <1>4 DEF AcceptToMemoryPool
    <2>2. job' \in Job /\ ~Undoing /\ ~Doing /\ ~Undoing' /\ ~Doing'
      BY <2>1, LaterFacts DEF Job, Undoing, Doing, Disconnecting, Idle, Later
    <2> QED
      BY <2>1, <2>2, ChainsRest
  <1>5. CASE Expire
    <2>1. job.at = "expire" /\ job' = [at |-> "trim", then |-> job.then] /\ UNCHANGED <<chainVars, unpurged>>
      BY <1>5 DEF Expire
    <2>2. job.then \in Later
      BY <1>1, <2>1, JobFacts
    <2>3. job' \in Job /\ ~Undoing /\ ~Doing /\ ~Undoing' /\ ~Doing'
      BY <2>1, <2>2, LaterFacts DEF Job, Undoing, Doing, Disconnecting
    <2> QED
      BY <2>1, <2>3, ChainsRest
  <1>6. CASE Trim
    <2>1. UNCHANGED <<job, chainActive, pcoinsTip, unpurged>>
      BY <1>6 DEF Trim, chainVars
    <2> QED
      BY <2>1 DEF Chains, Undoing, Doing, Disconnecting
  <1>7. CASE TrimDone
    <2>1. job.at = "trim" /\ job' = job.then /\ UNCHANGED <<chainVars, unpurged>>
      BY <1>7 DEF TrimDone
    <2>2. CASE job.then.at # "accepted"
      <3>1. job.then \in Later
        BY <1>1, <2>1, <2>2, JobFacts
      <3>2. job' \in Job /\ ~Undoing /\ ~Doing /\ ~Undoing' /\ ~Doing'
        BY <2>1, <3>1, LaterFacts DEF Undoing, Doing, Disconnecting
      <3> QED
        BY <2>1, <3>2, ChainsRest
    <2>3. CASE job.then.at = "accepted"
      <3>1. job.then \in PuttingBack({"accepted"})
        BY <1>1, <2>1, <2>3, JobFacts
      <3>2. job' \in Job /\ job'.at = "accepted"
        BY <2>1, <2>3, <3>1 DEF Job, PuttingBack
      <3>3. Disconnecting' = Disconnecting /\ Disconnecting.at = "accepted"
        BY <2>1, <2>3, <3>2 DEF Disconnecting
      <3> QED
        BY <2>1, <3>2, <3>3 DEF Chains, Undoing, Doing, chainVars
    <2> QED
      BY <2>2, <2>3
  <1>8. CASE \E op \in {"reorg", "invalidate", "replay"} : DisconnectTip(op)
    <2>1. PICK op \in Ops : DisconnectTip(op)
      BY <1>8 DEF Ops
    <2>2. /\ job = Idle \/ job.at = "disconnected"
          /\ Len(chainActive) > 1 /\ pcoinsTip' = Front(pcoinsTip) /\ UNCHANGED chainActive /\ unpurged' = TRUE
          /\ job' = [at |-> "resurrect", op |-> op, i |-> 1, hashes |-> <<>>]
      BY <2>1 DEF DisconnectTip
    <2>3. chainActive = pcoinsTip
      BY <2>2 DEF Chains, Undoing, Doing, Disconnecting, Idle
    <2>4. job' \in Job /\ Disconnecting' = job' /\ job'.at = "resurrect" /\ job'.i = 1
      BY <2>2 DEF Job, PuttingBack, Disconnecting
    <2>5. 1 \in 1 .. Len(Vtx[Last(chainActive)])
      BY <1>2, BlockFacts
    <2> QED
      BY <1>1, <2>2, <2>3, <2>4, <2>5, ValidFront DEF Chains, Undoing, Doing
  <1>9. CASE ResurrectAccept
    <2>1. /\ job.at = "resurrect" /\ job' = [at |-> "trim", then |-> [job EXCEPT !.at = "accepted"]]
          /\ UNCHANGED <<chainVars, unpurged>>
      BY <1>9 DEF ResurrectAccept
    <2>2. job \in PuttingBack({"resurrect"})
      BY <1>1, <2>1, JobFacts
    <2> DEFINE a == [job EXCEPT !.at = "accepted"]
    <2>3. a \in PuttingBack({"accepted"}) /\ a.i = job.i /\ a.at = "accepted"
      BY <2>2 DEF PuttingBack
    <2> HIDE DEF a
    <2>4. job' = [at |-> "trim", then |-> a]
      BY <2>1 DEF a
    <2>5. job' \in Job /\ Disconnecting' = a /\ Disconnecting = job /\ job'.at = "trim"
      BY <2>1, <2>3, <2>4 DEF Job, Disconnecting
    <2> QED
      BY <2>1, <2>3, <2>5 DEF Chains, Undoing, Doing, chainVars
  <1>10. CASE ResurrectRefuse \/ ResurrectDone
    <2>1. /\ job.at \in {"resurrect", "accepted"} /\ UNCHANGED <<chainVars, unpurged>>
          /\ job' \in {NextResurrect(job.hashes), NextResurrect(Append(job.hashes, Resurrected))}
      BY <1>10 DEF ResurrectRefuse, ResurrectDone
    <2>2. job \in PuttingBack({"resurrect", "accepted"}) /\ Disconnecting = job
      BY <1>1, <2>1, JobFacts DEF PuttingBack, Disconnecting
    <2>3. job.i \in 1 .. Len(Vtx[Last(chainActive)])
      BY <2>1, <2>2 DEF Chains
    <2>4. PICK h \in Seq(Txs) : job' = NextResurrect(h)
      <3>1. job.hashes \in Seq(Txs) /\ Append(job.hashes, Resurrected) \in Seq(Txs)
        BY <2>1, <2>2, AtFacts DEF PuttingBack
      <3> QED
        BY <2>1, <3>1
    <2>5. /\ job' \in PuttingBack({"resurrect", "update"}) /\ job' \in Job /\ job'.hashes = h
          /\ job'.at = "update" => job'.i = Len(h)
          /\ job'.at = "resurrect" => job'.i \in 1 .. Len(Vtx[Last(chainActive)])
      BY <1>1, <2>2, <2>3, <2>4, ResurrectNextFacts
    <2>6. job'.at \in {"resurrect", "update"} /\ Disconnecting' = job' /\ Len(h) \in 0 .. Len(h)
      BY <2>5 DEF PuttingBack, Disconnecting
    <2> QED
      BY <2>1, <2>2, <2>5, <2>6 DEF Chains, Undoing, Doing, chainVars
  <1>11. CASE UpdateTransactionsFromBlock
    <2>1. job.at = "update" /\ job.i > 0 /\ job' = [job EXCEPT !.i = @ - 1] /\ UNCHANGED <<chainVars, unpurged>>
      BY <1>11 DEF UpdateTransactionsFromBlock
    <2>2. job \in PuttingBack({"update"})
      BY <1>1, <2>1, JobFacts
    <2>3. /\ job' \in PuttingBack({"update"}) /\ job'.i = job.i - 1 /\ job'.hashes = job.hashes
          /\ Disconnecting = job /\ Disconnecting' = job' /\ job'.at = "update"
      BY <2>1, <2>2 DEF PuttingBack, Disconnecting
    <2>4. job'.i \in 0 .. Len(job'.hashes) /\ job' \in Job
      BY <2>1, <2>2, <2>3 DEF Chains, Job, PuttingBack
    <2> QED
      BY <2>1, <2>3, <2>4 DEF Chains, Undoing, Doing, chainVars
  <1>12. CASE TipDisconnected
    <2>1. /\ job.at = "update" /\ job' = [at |-> "disconnected", op |-> job.op] /\ chainActive' = pcoinsTip
          /\ UNCHANGED <<pcoinsTip, unpurged>>
      BY <1>12 DEF TipDisconnected
    <2>2. job.op \in Ops
      BY <1>1, <2>1, JobFacts DEF PuttingBack
    <2>3. job' \in Job /\ Disconnecting' = job'
      BY <2>1, <2>2 DEF Job, Disconnecting
    <2> QED
      BY <1>1, <2>1, <2>3 DEF Chains, Undoing, Doing
  <1>13. CASE \E b \in Blocks : ConnectTip(b)
    <2>1. PICK b \in Blocks : ConnectTip(b)
      BY <1>13
    <2>2. /\ job = Idle \/ job.at \in {"connected", "disconnected"}
          /\ ConnectBlock(b, pcoinsTip) /\ pcoinsTip' = Append(pcoinsTip, b) /\ UNCHANGED <<chainActive, unpurged>>
          /\ job' = [at |-> "remove", op |-> IF job = Idle THEN "extend" ELSE job.op, i |-> 1]
      BY <2>1 DEF ConnectTip
    <2>3. chainActive = pcoinsTip
      BY <2>2 DEF Chains, Undoing, Doing, Disconnecting, Idle
    <2>4. job' \in Job /\ Disconnecting' = job' /\ job'.at = "remove" /\ job'.i = 1
      <3>1. (IF job = Idle THEN "extend" ELSE job.op) \in Ops \cup {"extend"}
        BY <1>1, <2>2, JobFacts DEF Idle
      <3> QED
        BY <2>2, <3>1 DEF Job, Disconnecting
    <2>5. /\ ValidChain(pcoinsTip') /\ Len(pcoinsTip') = Len(pcoinsTip) + 1
          /\ Front(pcoinsTip') = pcoinsTip /\ Last(pcoinsTip') = b
      BY <1>1, <2>2, ValidAppend
    <2>6. 1 \in 1 .. Len(Vtx[b]) /\ Len(pcoinsTip') > 1
      BY <1>1, <2>5, BlockFacts
    <2> QED
      BY <1>1, <2>2, <2>3, <2>4, <2>5, <2>6 DEF Chains, Undoing, Doing
  <1>14. CASE RemoveForBlock
    <2>1. job.at = "remove" /\ job' = [job EXCEPT !.at = "conflicts"] /\ UNCHANGED <<chainVars, unpurged>>
      BY <1>14 DEF RemoveForBlock
    <2>2. job \in [at : {"remove"}, op : Ops \cup {"extend"}, i : Nat]
      BY <1>1, <2>1, JobFacts
    <2>3. /\ job' \in [at : {"conflicts"}, op : Ops \cup {"extend"}, i : Nat] /\ job'.i = job.i /\ job'.at = "conflicts"
          /\ Disconnecting' = job'
      BY <2>1, <2>2 DEF Disconnecting
    <2>4. job' \in Job
      BY <2>3 DEF Job
    <2> QED
      BY <2>1, <2>3, <2>4 DEF Chains, Undoing, Doing, Disconnecting, chainVars
  <1>15. CASE RemoveConflicts
    <2>1. /\ job.at = "conflicts" /\ UNCHANGED <<pcoinsTip, unpurged>>
          /\ \/ /\ job.i = Len(Vtx[Last(pcoinsTip)]) /\ chainActive' = pcoinsTip
                /\ job' = [at |-> "connected", op |-> job.op]
             \/ /\ job.i # Len(Vtx[Last(pcoinsTip)]) /\ UNCHANGED chainActive
                /\ job' = [job EXCEPT !.at = "remove", !.i = @ + 1]
      BY <1>15 DEF RemoveConflicts
    <2>2. job \in [at : {"conflicts"}, op : Ops \cup {"extend"}, i : Nat] /\ job.i \in 1 .. Len(Vtx[Last(pcoinsTip)])
      BY <1>1, <2>1, JobFacts DEF Chains, Doing
    <2>3. CASE job' = [at |-> "connected", op |-> job.op] /\ chainActive' = pcoinsTip
      <3>1. job' \in Job /\ Disconnecting' = job' /\ job'.at = "connected"
        BY <2>2, <2>3 DEF Job, Disconnecting
      <3> QED
        BY <1>1, <2>1, <2>3, <3>1 DEF Chains, Undoing, Doing
    <2>4. CASE /\ job.i # Len(Vtx[Last(pcoinsTip)]) /\ UNCHANGED chainActive
               /\ job' = [job EXCEPT !.at = "remove", !.i = @ + 1]
      <3>1. /\ job' \in [at : {"remove"}, op : Ops \cup {"extend"}, i : Nat] /\ job'.at = "remove"
            /\ job'.i = job.i + 1 /\ Disconnecting' = job'
        <4>1. job.i + 1 \in Nat
          BY <2>2
        <4>2. job' \in [at : {"remove"}, op : Ops \cup {"extend"}, i : Nat] /\ job'.at = "remove" /\ job'.i = job.i + 1
          BY <2>2, <2>4, <4>1
        <4> QED
          BY <4>2 DEF Disconnecting
      <3>2. job'.i \in 1 .. Len(Vtx[Last(pcoinsTip)])
        <4>1. Len(Vtx[Last(pcoinsTip)]) \in Nat
          BY <1>2, BlockFacts
        <4> QED
          BY <2>2, <2>4, <3>1, <4>1
      <3>3. job' \in Job
        BY <3>1 DEF Job
      <3> QED
        BY <2>1, <2>4, <3>1, <3>2, <3>3 DEF Chains, Undoing, Doing, Disconnecting
    <2> QED
      BY <2>1, <2>3, <2>4
  <1>16. CASE StepDone \/ StepFails \/ InvalidateDone \/ ReplayDone
    <2>1. /\ job.at \in {"connected", "disconnected"} /\ UNCHANGED <<chainVars, unpurged>>
          /\ job' \in {Idle, Purge(Idle), Purge(Limit(Idle)), Limit(Purge(Idle))}
      BY <1>16 DEF StepDone, StepFails, InvalidateDone, ReplayDone
    <2>2. job' \in Job /\ ~Undoing /\ ~Doing /\ ~Undoing' /\ ~Doing'
      <3>1. Idle \in Later
        BY DEF Later
      <3>2. job' \in Job
        BY <2>1, <3>1, LaterFacts
      <3>3. job'.at \in {"idle", "purge", "expire"}
        BY <2>1 DEF Idle, Purge, Limit
      <3> QED
        BY <2>1, <3>2, <3>3 DEF Undoing, Doing, Disconnecting
    <2> QED
      BY <2>1, <2>2, ChainsRest
  <1>17. CASE RemoveForReorg
    <2>1. /\ job.at = "purge" /\ UNCHANGED <<chainVars, unpurged>>
          /\ job' = [at |-> "purging", todo |-> {t \in mapTx : NoLongerValid(t)}, then |-> job.then]
      BY <1>17 DEF RemoveForReorg
    <2>2. job.then \in Later
      BY <1>1, <2>1, JobFacts
    <2>3. {t \in mapTx : NoLongerValid(t)} \in SUBSET Txs
      BY DEF SpendersExact, Txs0
    <2>4. job' \in [at : {"purging"}, todo : SUBSET Txs, then : Later] /\ job'.at = "purging"
      BY <2>1, <2>2, <2>3
    <2>5. job' \in Job /\ ~Undoing /\ ~Doing /\ ~Undoing' /\ ~Doing'
      BY <2>1, <2>4 DEF Job, Undoing, Doing, Disconnecting
    <2> QED
      BY <2>1, <2>5, ChainsRest
  <1>18. CASE PurgeOne
    <2>1. /\ job.at = "purging" /\ UNCHANGED <<chainVars, unpurged>>
          /\ \E t \in job.todo : job' = [job EXCEPT !.todo = @ \ {t}]
      BY <1>18 DEF PurgeOne
    <2>2. job \in [at : {"purging"}, todo : SUBSET Txs, then : Later]
      BY <1>1, <2>1, JobFacts
    <2>3. job' \in [at : {"purging"}, todo : SUBSET Txs, then : Later] /\ job'.at = "purging"
      BY <2>1, <2>2
    <2>4. job' \in Job /\ ~Undoing /\ ~Doing /\ ~Undoing' /\ ~Doing'
      BY <2>1, <2>3 DEF Job, Undoing, Doing, Disconnecting
    <2> QED
      BY <2>1, <2>4, ChainsRest
  <1>19. CASE PurgeDone
    <2>1. job.at = "purging" /\ job' = job.then /\ UNCHANGED chainVars /\ unpurged' = FALSE
      BY <1>19 DEF PurgeDone
    <2>2. job.then \in Later
      BY <1>1, <2>1, JobFacts
    <2>3. job' \in Job /\ ~Undoing /\ ~Doing /\ ~Undoing' /\ ~Doing'
      BY <2>1, <2>2, LaterFacts DEF Undoing, Doing, Disconnecting
    <2> QED
      BY <2>1, <2>3, ChainsRest
  <1> QED
    BY <1>3, <1>4, <1>5, <1>6, <1>7, <1>8, <1>9, <1>10, <1>11, <1>12, <1>13, <1>14, <1>15, <1>16, <1>17, <1>18, <1>19
       DEF Next

-----------------------------------------------------------------------------
(* A transaction is in one block of a chain. *)
LEMMA HeightUnique ==
  ASSUME NEW s, ValidChain(s), NEW t, NEW m \in 1 .. Len(s), NEW n \in 1 .. Len(s),
         t \in ToSet(Vtx[s[m]]), t \in ToSet(Vtx[s[n]])
  PROVE  m = n
  <1>1. s \in Seq(Blocks) /\ Len(s) \in Nat
    BY DEF ValidChain
  <1>2. ASSUME NEW i \in 1 .. Len(s), NEW k \in 1 .. Len(s), i < k, t \in ToSet(Vtx[s[i]]), t \in ToSet(Vtx[s[k]])
        PROVE  FALSE
    <2>1. k \in 2 .. Len(s) /\ i \in 1 .. k - 1
      BY <1>1, <1>2
    <2>2. /\ SubSeq(s, 1, k - 1) \in Seq(Blocks) /\ Len(SubSeq(s, 1, k - 1)) = k - 1
          /\ SubSeq(s, 1, k - 1)[i] = s[i]
      BY <1>1, <2>1
    <2>3. t \in Confirmed(SubSeq(s, 1, k - 1))
      BY <1>2, <2>1, <2>2, ConfirmedFacts
    <2>4. ConnectBlock(s[k], SubSeq(s, 1, k - 1)) /\ s[k] \in Blocks
      BY <1>1, <2>1 DEF ValidChain
    <2>5. PICK j \in 1 .. Len(Vtx[s[k]]) : t = Vtx[s[k]][j]
      BY <1>2, <2>4, BlockFacts, SMTT(30) DEF ToSet
    <2> QED
      BY <2>2, <2>3, <2>4, <2>5, ConnectFacts
  <1>3. m < n \/ n < m \/ m = n
    BY <1>1
  <1> QED
    BY <1>2, <1>3

(* The height of a confirmed transaction *)
LEMMA HeightFacts ==
  ASSUME NEW s, ValidChain(s), NEW t \in Confirmed(s)
  PROVE  /\ HeightOf(s, t) \in 1 .. Len(s) /\ t \in ToSet(Vtx[s[HeightOf(s, t)]])
         /\ \A n \in 1 .. Len(s) : t \in ToSet(Vtx[s[n]]) => n = HeightOf(s, t)
  <1>1. s \in Seq(Blocks) /\ DOMAIN s = 1 .. Len(s)
    BY DEF ValidChain
  <1>2. \E n \in DOMAIN s : t \in ToSet(Vtx[s[n]])
    BY <1>1, ConfirmedFacts
  <1>3. HeightOf(s, t) \in DOMAIN s /\ t \in ToSet(Vtx[s[HeightOf(s, t)]])
    BY <1>2 DEF HeightOf
  <1> QED
    BY <1>1, <1>3, HeightUnique

(* A block on top does not change the heights below it. *)
LEMMA HeightFront ==
  ASSUME NEW s, ValidChain(s), Len(s) > 1, NEW t \in Confirmed(Front(s))
  PROVE  t \in Confirmed(s) /\ HeightOf(s, t) = HeightOf(Front(s), t) /\ HeightOf(s, t) \in Int
  <1>1. s \in Seq(Blocks) /\ Len(s) \in Nat /\ ValidChain(Front(s))
    BY ValidFront DEF ValidChain
  <1>2. /\ Len(Front(s)) = Len(s) - 1 /\ \A n \in 1 .. Len(s) - 1 : Front(s)[n] = s[n]
        /\ Confirmed(s) = Confirmed(Front(s)) \cup ToSet(Vtx[Last(s)])
    BY <1>1, FrontFacts
  <1>3. HeightOf(Front(s), t) \in 1 .. Len(s) - 1 /\ t \in ToSet(Vtx[Front(s)[HeightOf(Front(s), t)]])
    BY <1>1, <1>2, HeightFacts
  <1>4. HeightOf(Front(s), t) \in 1 .. Len(s) /\ t \in ToSet(Vtx[s[HeightOf(Front(s), t)]])
    BY <1>1, <1>2, <1>3
  <1>5. t \in Confirmed(s)
    BY <1>2
  <1> QED
    BY <1>1, <1>4, <1>5, HeightFacts

(* An unspent coin was created in the chain. *)
LEMMA CoinFacts ==
  ASSUME NEW s \in Seq(Blocks), NEW o
  PROVE  o \in Coins(s) <=> /\ o \in Outpoints /\ o[1] \in Confirmed(s)
                            /\ \A t \in Confirmed(s) : o \notin Vin[t]
  <1>1. o \in Coins(s) <=> (\E t \in Confirmed(s) : o \in Vout[t]) /\ \A t \in Confirmed(s) : o \notin Vin[t]
    <2> DEFINE C == Confirmed(s)
    <2>1. Coins(s) = (UNION {Vout[t] : t \in C}) \ (UNION {Vin[t] : t \in C})
      BY DEF Coins, Unspent
    <2> HIDE DEF C
    <2>2. o \in UNION {Vout[t] : t \in C} <=> \E t \in C : o \in Vout[t]
      OBVIOUS
    <2>3. o \in UNION {Vin[t] : t \in C} <=> \E t \in C : o \in Vin[t]
      OBVIOUS
    <2>4. o \in Coins(s) <=> (\E t \in C : o \in Vout[t]) /\ \A t \in C : o \notin Vin[t]
      BY <2>1, <2>2, <2>3
    <2> QED
      BY <2>4 DEF C
  <1>2. (\E t \in Confirmed(s) : o \in Vout[t]) <=> o \in Outpoints /\ o[1] \in Confirmed(s)
    BY ConfirmedFacts, TxFacts
  <1> QED
    BY <1>1, <1>2

(* A longer chain takes what the shorter one does. *)
LEMMA MinableGrows ==
  ASSUME ValidChain(pcoinsTip), Len(pcoinsTip) > 1, chainActive = Front(pcoinsTip), chainActive' = pcoinsTip,
         NEW t \in Txs, Minable(t)
  PROVE  Minable(t)'
  <1>1. pcoinsTip \in Seq(Blocks) /\ Len(pcoinsTip) \in Nat
    BY DEF ValidChain
  <1>2. Len(chainActive) = Len(pcoinsTip) - 1 /\ Len(chainActive') = Len(pcoinsTip)
    BY <1>1, FrontFacts
  <1>3. FinalFrom[t] \in Nat /\ Maturity \in Nat
    BY TxAssumption, LimitAssumption
  <1>4. FinalFrom[t] <= Len(chainActive') + 1
    BY <1>1, <1>2, <1>3 DEF Minable
  <1>5. ASSUME NEW o \in Vin[t], o[1] \in Generated
        PROVE  o[1] \in Confirmed(chainActive') /\ ~Immature(chainActive', o, Len(chainActive') + 1)
    <2>1. o[1] \in Confirmed(chainActive) /\ ~Immature(chainActive, o, Len(chainActive) + 1)
      BY <1>5 DEF Minable
    <2>2. /\ o[1] \in Confirmed(pcoinsTip) /\ HeightOf(pcoinsTip, o[1]) = HeightOf(chainActive, o[1])
          /\ HeightOf(pcoinsTip, o[1]) \in Int
      BY <2>1, HeightFront
    <2>3. ~(Len(chainActive) + 1 - HeightOf(chainActive, o[1]) < Maturity)
      BY <1>1, <1>2, <1>3, <1>5, <2>1, <2>2 DEF Immature
    <2>4. ~(Len(pcoinsTip) + 1 - HeightOf(pcoinsTip, o[1]) < Maturity)
      BY <1>1, <1>2, <1>3, <2>2, <2>3
    <2> QED
      BY <2>2, <2>4 DEF Immature
  <1> QED
    BY <1>4, <1>5 DEF Minable, Immature

(* What AcceptToMemoryPool lets in between blocks may be mined. *)
LEMMA AcceptableIsMinable ==
  ASSUME SpendersExact, chainActive = pcoinsTip, pcoinsTip \in Seq(Blocks), NEW t \in Txs, Acceptable(t)
  PROVE  Minable(t)
  <1>1. FinalFrom[t] <= Len(chainActive) + 1
    BY DEF Acceptable
  <1>2. ASSUME NEW o \in Vin[t], o[1] \in Generated
        PROVE  o[1] \in Confirmed(chainActive) /\ ~Immature(chainActive, o, Len(chainActive) + 1)
    <2>1. o[1] \notin mapTx
      BY <1>2 DEF SpendersExact, Txs0
    <2>2. Available(o) /\ ~Immature(pcoinsTip, o, Len(pcoinsTip) + 1)
      BY <2>1 DEF Acceptable
    <2> QED
      BY <2>1, <2>2, CoinFacts DEF Available
  <1> QED
    BY <1>1, <1>2 DEF Minable

(* Removals, and steps that leave the pool alone, keep what is minable. *)
LEMMA MinableRest ==
  ASSUME MinableUnlessUndone, mapTx' \subseteq mapTx, UNCHANGED <<chainActive, unpurged>>, job'.at # "purging",
         ~Undoing' \/ Undoing
  PROVE  MinableUnlessUndone'
  BY DEF MinableUnlessUndone, Minable, Immature

(* Only disconnected blocks keep transactions from being mined. *)
LEMMA MinableNext ==
  ASSUME Chains, SpendersExact, LinksMutual, LinksReal, unpurged \in BOOLEAN, MinableUnlessUndone, [Next]_vars
  PROVE  MinableUnlessUndone'
  <1>1. job \in Job /\ chainActive \in Seq(Blocks) /\ pcoinsTip \in Seq(Blocks) /\ ValidChain(pcoinsTip)
    BY DEF Chains, ValidChain
  <1>2. PoolLoses => mapTx' \subseteq mapTx
    BY RemoveFacts DEF PoolLoses
  <1>3. PoolSame => mapTx' = mapTx
    BY DEF PoolSame, poolVars
  <1>4. mapTx \subseteq Txs /\ mapTx \cap Generated = {}
    BY DEF SpendersExact, Txs0
  <1>5. CASE UNCHANGED vars
    BY <1>5 DEF vars, chainVars, poolVars, MinableUnlessUndone, Minable, Immature, Undoing, Disconnecting
  <1>6. CASE \E t \in Txs : AcceptToMemoryPool(t)
    <2>1. PICK t \in Txs : AcceptToMemoryPool(t)
      BY <1>6
    <2>2. /\ job = Idle /\ job' = [at |-> "expire", then |-> Idle] /\ UNCHANGED <<chainActive, pcoinsTip, unpurged>>
          /\ Acceptable(t) /\ mapTx' = mapTx \cup {t}
      BY <2>1 DEF AcceptToMemoryPool, addUnchecked, chainVars
    <2>3. chainActive = pcoinsTip
      BY <2>2 DEF Chains, Undoing, Doing, Disconnecting, Idle
    <2>4. Minable(t)
      BY <1>1, <2>2, <2>3, AcceptableIsMinable
    <2>5. ~Undoing' /\ job'.at # "purging"
      BY <2>2 DEF Undoing, Disconnecting
    <2> QED
      BY <2>2, <2>4, <2>5 DEF MinableUnlessUndone, Minable, Immature
  <1>7. CASE Expire \/ Trim \/ TrimDone
    <2>1. mapTx' \subseteq mapTx /\ UNCHANGED <<chainActive, unpurged>>
      <3>1. CASE Expire
        BY <1>2, <3>1, DescendantsFacts DEF Expire, PoolLoses, chainVars
      <3>2. CASE Trim
        <4>1. \A t \in mapTx : {t} \in SUBSET mapTx
          OBVIOUS
        <4> QED
          BY <1>2, <3>2, <4>1, DescendantsFacts DEF Trim, PoolLoses, chainVars
      <3>3. CASE TrimDone
        BY <3>3 DEF TrimDone, poolVars, chainVars
      <3> QED
        BY <1>7, <3>1, <3>2, <3>3
    <2>2. job'.at # "purging" /\ (~Undoing' \/ Undoing)
      <3>1. CASE Expire
        <4>1. job' = [at |-> "trim", then |-> job.then] /\ job.then \in Later
          BY <1>1, <3>1, JobFacts DEF Expire
        <4> QED
          BY <4>1, LaterFacts DEF Undoing, Disconnecting
      <3>2. CASE Trim
        BY <3>2 DEF Trim, Undoing, Disconnecting
      <3>3. CASE TrimDone
        <4>1. job.at = "trim" /\ job' = job.then
          BY <3>3 DEF TrimDone
        <4>2. CASE job.then.at = "accepted"
          BY <4>1, <4>2 DEF Undoing, Disconnecting
        <4>3. CASE job.then.at # "accepted"
          <5>1. job' \in Later
            BY <1>1, <4>1, <4>3, JobFacts
          <5>2. job'.at \in {"idle", "expire", "purge"}
            BY <5>1, LaterFacts
          <5> QED
            BY <5>2 DEF Undoing, Disconnecting
        <4> QED
          BY <4>2, <4>3
      <3> QED
        BY <1>7, <3>1, <3>2, <3>3
    <2> QED
      BY <2>1, <2>2, MinableRest
  <1>8. CASE \E op \in {"reorg", "invalidate", "replay"} : DisconnectTip(op)
    <2>1. unpurged' /\ job'.at # "purging"
      BY <1>8 DEF DisconnectTip
    <2> QED
      BY <2>1 DEF MinableUnlessUndone
  <1>9. CASE ResurrectAccept \/ ResurrectRefuse \/ ResurrectDone \/ UpdateTransactionsFromBlock \/ TipDisconnected
    <2>1. job.at \in {"resurrect", "accepted", "update"} /\ UNCHANGED unpurged
      BY <1>9 DEF ResurrectAccept, ResurrectRefuse, ResurrectDone, UpdateTransactionsFromBlock, TipDisconnected
    <2>2. unpurged
      BY <2>1 DEF MinableUnlessUndone, Undoing, Disconnecting
    <2>3. job'.at # "purging"
      <3>1. job \in PuttingBack({job.at})
        BY <1>1, <2>1, JobFacts
      <3> QED
        BY <1>9, <3>1 DEF ResurrectAccept, ResurrectRefuse, ResurrectDone, UpdateTransactionsFromBlock,
           TipDisconnected, NextResurrect, PuttingBack
    <2> QED
      BY <2>1, <2>2, <2>3 DEF MinableUnlessUndone
  <1>10. CASE (\E b \in Blocks : ConnectTip(b)) \/ RemoveForBlock
    <2>1. mapTx' \subseteq mapTx /\ UNCHANGED <<chainActive, unpurged>>
      <3>1. {Connected} \cap mapTx \in SUBSET mapTx
        OBVIOUS
      <3> QED
        BY <1>2, <1>10, <3>1 DEF ConnectTip, RemoveForBlock, PoolLoses, poolVars, chainVars
    <2>2. job'.at \in {"remove", "conflicts"}
      <3>1. CASE RemoveForBlock
        BY <1>1, <3>1, JobFacts DEF RemoveForBlock
      <3> QED
        BY <1>10, <3>1 DEF ConnectTip
    <2>3. ~Undoing'
      BY <2>2 DEF Undoing, Disconnecting
    <2> QED
      BY <2>1, <2>2, <2>3, MinableRest
  <1>11. CASE RemoveConflicts
    <2>1. mapTx' \subseteq mapTx /\ UNCHANGED unpurged
      <3>1. RemoveStaged(CalculateDescendants(Conflicts)) /\ Connected \in Txs
        BY <1>11, AtFacts DEF RemoveConflicts, Conflicts
      <3>2. PoolLoses
        BY <3>1, ConflictFacts DEF PoolLoses
      <3> QED
        BY <1>2, <1>11, <3>2 DEF RemoveConflicts
    <2>2. job'.at \in {"connected", "remove"}
      <3>1. job \in [at : {"conflicts"}, op : Ops \cup {"extend"}, i : Nat]
        BY <1>1, <1>11, JobFacts DEF RemoveConflicts
      <3>2. job' = [at |-> "connected", op |-> job.op] \/ job' = [job EXCEPT !.at = "remove", !.i = @ + 1]
        BY <1>11 DEF RemoveConflicts
      <3>3. CASE job' = [job EXCEPT !.at = "remove", !.i = @ + 1]
        BY <3>1, <3>3
      <3> QED
        BY <3>2, <3>3
    <2>3. ~Undoing'
      BY <2>2 DEF Undoing, Disconnecting
    <2>4. CASE UNCHANGED chainActive
      BY <2>1, <2>2, <2>3, <2>4, MinableRest
    <2>5. CASE chainActive' = pcoinsTip
      <3>1. Len(pcoinsTip) > 1 /\ chainActive = Front(pcoinsTip)
        BY <1>11 DEF RemoveConflicts, Chains, Doing
      <3>2. ASSUME NEW t \in mapTx', ~unpurged
            PROVE  Minable(t)'
        BY <1>1, <1>4, <2>1, <2>5, <3>1, <3>2, MinableGrows DEF MinableUnlessUndone
      <3> QED
        BY <2>1, <2>2, <2>3, <3>2 DEF MinableUnlessUndone
    <2> QED
      BY <1>11, <2>4, <2>5 DEF RemoveConflicts
  <1>12. CASE StepDone \/ StepFails \/ InvalidateDone \/ ReplayDone
    <2>1. /\ UNCHANGED <<mapTx, chainActive, unpurged>>
          /\ job' \in {Idle, Purge(Idle), Purge(Limit(Idle)), Limit(Purge(Idle))}
      BY <1>12 DEF StepDone, StepFails, InvalidateDone, ReplayDone, poolVars, chainVars
    <2>2. job'.at \in {"idle", "purge", "expire"}
      BY <2>1 DEF Idle, Purge, Limit
    <2>3. ~Undoing'
      BY <2>2 DEF Undoing, Disconnecting
    <2> QED
      BY <2>1, <2>2, <2>3, MinableRest
  <1>13. CASE RemoveForReorg
    <2>1. /\ job.at = "purge" /\ UNCHANGED <<mapTx, chainActive, unpurged>>
          /\ job'.at = "purging" /\ job'.todo = {t \in mapTx : NoLongerValid(t)}
      BY <1>13 DEF RemoveForReorg, poolVars, chainVars
    <2>2. chainActive = pcoinsTip
      BY <2>1 DEF Chains, Undoing, Doing, Disconnecting
    <2>3. ASSUME NEW t \in mapTx, ~NoLongerValid(t)
          PROVE  Minable(t)
      <3>1. FinalFrom[t] \in Nat /\ Len(chainActive) \in Nat
        BY <1>1, <1>4, TxAssumption
      <3>2. FinalFrom[t] <= Len(chainActive) + 1
        BY <2>3, <3>1 DEF NoLongerValid
      <3>3. ASSUME NEW o \in Vin[t], o[1] \in Generated
            PROVE  o[1] \in Confirmed(chainActive) /\ ~Immature(chainActive, o, Len(chainActive) + 1)
        <4>1. o[1] \notin mapTx
          BY <1>4, <3>3
        <4>2. o \in Coins(pcoinsTip) /\ ~Immature(pcoinsTip, o, Len(chainActive) + 1)
          BY <2>3, <3>3, <4>1, Zenon DEF NoLongerValid
        <4> QED
          BY <1>1, <2>2, <4>2, CoinFacts
      <3> QED
        BY <3>2, <3>3 DEF Minable
    <2>4. ~Undoing'
      BY <2>1 DEF Undoing, Disconnecting
    <2> QED
      BY <2>1, <2>3, <2>4 DEF MinableUnlessUndone, Minable, Immature
  <1>14. CASE PurgeOne
    <2>1. PICK t \in job.todo : RemoveStaged(Removal(t)) /\ job' = [job EXCEPT !.todo = @ \ {t}]
      BY <1>14 DEF PurgeOne
    <2>2. job.at = "purging" /\ t \in Txs /\ UNCHANGED <<chainActive, unpurged>>
      BY <1>14, <2>1, AtFacts DEF PurgeOne, chainVars
    <2>3. mapTx' = mapTx \ Removal(t) /\ (t \in mapTx => t \in Removal(t))
      BY <2>1, <2>2, RemovalFacts, RemoveFacts
    <2>4. job'.at = "purging" /\ job'.todo = job.todo \ {t}
      BY <1>1, <2>1, <2>2, JobFacts
    <2>5. ~Undoing'
      BY <2>4 DEF Undoing, Disconnecting
    <2> QED
      BY <2>2, <2>3, <2>4, <2>5 DEF MinableUnlessUndone, Minable, Immature
  <1>15. CASE PurgeDone
    <2>1. /\ job.at = "purging" /\ job.todo = {} /\ job' = job.then /\ UNCHANGED <<mapTx, chainActive>>
      BY <1>15 DEF PurgeDone, poolVars, chainVars
    <2>2. job' \in Later
      BY <1>1, <2>1, JobFacts
    <2>3. job'.at \in {"idle", "expire", "purge"}
      BY <2>2, LaterFacts
    <2>4. ~Undoing'
      BY <2>3 DEF Undoing, Disconnecting
    <2> QED
      BY <2>1, <2>3, <2>4 DEF MinableUnlessUndone, Minable, Immature
  <1> QED
    BY <1>5, <1>6, <1>7, <1>8, <1>9, <1>10, <1>11, <1>12, <1>13, <1>14, <1>15 DEF Next

-----------------------------------------------------------------------------
(* The empty pool on the base chain *)
LEMMA IndexInit ==
  ASSUME Init
  PROVE  IndexInv
  <1>1. Chains
    BY ValidBase, LaterFacts DEF Init, Chains, Undoing, Doing, Disconnecting, Idle, Job
  <1>2. SpendersExact /\ LinksMutual /\ LinksReal
    BY TxFacts DEF Init, SpendersExact, LinksMutual, LinksReal, Txs0
  <1>3. MinableUnlessUndone
    BY DEF Init, MinableUnlessUndone, Undoing, Disconnecting, Idle
  <1> QED
    BY <1>1, <1>2, <1>3 DEF IndexInv, Init

(* Every step keeps the indexes. *)
LEMMA IndexNext ==
  ASSUME IndexInv, [Next]_vars
  PROVE  IndexInv'
  BY ChainsNext, LinksNext, MinableNext DEF IndexInv

(* The chain, the indexes of the pool and what may be mined of it are      *)
(* right after any steps: mapNextTx names exactly the spenders in the pool *)
(* and no outpoint has two, the links of mapLinks are mutual and join only *)
(* transactions of the pool of which one spends the other.                 *)
THEOREM PoolIndexInvariant == Spec => []IndexInv
  <1>1. Init => IndexInv
    BY IndexInit
  <1>2. IndexInv /\ [Next]_vars => IndexInv'
    BY IndexNext
  <1> QED
    BY <1>1, <1>2, PTL DEF Spec

(* Whenever no blocks were disconnected without removeForReorg, every      *)
(* transaction of the pool is final and spends only mature coins.          *)
THEOREM PoolStaysMinable == Spec => []PoolIsMinable
  <1>1. IndexInv => PoolIsMinable
    <2> SUFFICES ASSUME IndexInv, job = Idle, ~unpurged, NEW t \in mapTx
                 PROVE  /\ FinalFrom[t] <= Len(chainActive) + 1
                        /\ \A o \in Vin[t] : o[1] \in mapTx \/ ~Immature(pcoinsTip, o, Len(pcoinsTip) + 1)
      BY DEF PoolIsMinable
    <2>1. chainActive = pcoinsTip
      BY DEF IndexInv, Chains, Undoing, Doing, Disconnecting, Idle
    <2>2. Minable(t)
      BY DEF IndexInv, MinableUnlessUndone
    <2> QED
      BY <2>1, <2>2, Zenon DEF Minable, Immature
  <1> QED
    BY <1>1, PoolIndexInvariant, PTL

-----------------------------------------------------------------------------
(* A set of the pool that holds whatever spends its members *)
IsFamily(S) == S \subseteq mapTx /\ \A p \in S, u \in mapTx : Spends(u, p) => u \in S

(* The pool loses S, and nothing else. *)
Loses(S) == /\ S \subseteq mapTx /\ mapTx' = mapTx \ S
            /\ \A t, u \in mapTx' : u \in children'[t] <=> u \in children[t]

(* s ends with block b, after f. *)
TipOf(s, b, f) ==
    /\ b \in Blocks /\ f \in Seq(Blocks) /\ s \in Seq(Blocks) /\ Len(Vtx[b]) \in Nat /\ Len(Vtx[b]) > 0
    /\ \A k \in 1 .. Len(Vtx[b]) : Vtx[b][k] \in Txs /\ Vtx[b][k] \notin Confirmed(f)
    /\ \A j, k \in 1 .. Len(Vtx[b]) : Vtx[b][j] = Vtx[b][k] => j = k
    /\ \A x : x \in ToSet(Vtx[b]) <=> \E k \in 1 .. Len(Vtx[b]) : x = Vtx[b][k]
    /\ Confirmed(s) = Confirmed(f) \cup ToSet(Vtx[b])
    /\ SelfContained(Confirmed(f)) /\ SelfContained(Confirmed(s))
    /\ \A k \in 1 .. Len(Vtx[b]) : \A o \in Vin[Vtx[b][k]] :
          o[1] \in Confirmed(f) \/ \E j \in 1 .. k - 1 : o[1] = Vtx[b][j]

(* The last block of a chain and the chain before it *)
LEMMA TipFacts ==
  ASSUME NEW s, ValidChain(s), Len(s) > 1, NEW b, b = Last(s), NEW f, f = Front(s)
  PROVE  TipOf(s, b, f)
  <1>1. s \in Seq(Blocks)
    BY DEF ValidChain
  <1>2. b \in Blocks /\ f \in Seq(Blocks) /\ Confirmed(s) = Confirmed(f) \cup ToSet(Vtx[b])
    BY <1>1, FrontFacts
  <1>3. ConnectBlock(b, f) /\ SelfContained(Confirmed(f)) /\ SelfContained(Confirmed(s))
    BY ValidFront
  <1>4. /\ Len(Vtx[b]) \in Nat /\ Len(Vtx[b]) > 0
        /\ \A k \in 1 .. Len(Vtx[b]) : Vtx[b][k] \in Txs
        /\ \A x : x \in ToSet(Vtx[b]) <=> \E k \in 1 .. Len(Vtx[b]) : x = Vtx[b][k]
    BY <1>2, BlockFacts DEF ToSet
  <1>5. ASSUME NEW k \in 1 .. Len(Vtx[b])
        PROVE  /\ Vtx[b][k] \notin Confirmed(f)
               /\ \A j \in 1 .. Len(Vtx[b]) : Vtx[b][j] = Vtx[b][k] => j = k
               /\ \A o \in Vin[Vtx[b][k]] :
                     o[1] \in Confirmed(f) \/ \E j \in 1 .. k - 1 : o[1] = Vtx[b][j]
    BY <1>2, <1>3, ConnectFacts
  <1> QED
    BY <1>1, <1>2, <1>3, <1>4, <1>5, Zenon DEF TipOf

(* A transaction is once in a block, after what it spends of the block. *)
LEMMA TipOrder ==
  ASSUME NEW s, NEW b, NEW f, TipOf(s, b, f), NEW k \in 1 .. Len(Vtx[b])
  PROVE  /\ \A j \in 1 .. Len(Vtx[b]) : Vtx[b][j] = Vtx[b][k] => j = k
         /\ \A o \in Vin[Vtx[b][k]] : o[1] \in Confirmed(f) \/ \E j \in 1 .. k - 1 : o[1] = Vtx[b][j]
  BY DEF TipOf

(* Between blocks nothing is on its way. *)
LEMMA QuietFacts ==
  /\ ~Undoing => Restored = {} /\ NotVisited = {} /\ ToPutBack = {}
  /\ ~Doing => ToRemove = {} /\ ToConflict = {}
  /\ Undoing => ~Doing
  <1>1. ~Undoing => Restored = {} /\ ToPutBack = {}
    BY DEF Undoing, Restored, ToPutBack
  <1>2. ~Undoing => NotVisited = {}
    BY <1>1 DEF Undoing, NotVisited, Disconnecting
  <1>3. ~Doing => ToRemove = {} /\ ToConflict = {}
    BY DEF Doing, ToRemove, ToConflict
  <1>4. Undoing => ~Doing
    BY DEF Undoing, Doing, Disconnecting
  <1> QED
    BY <1>1, <1>2, <1>3, <1>4

(* The same, after a step *)
LEMMA QuietNext ==
  /\ ~Undoing' => Restored' = {} /\ NotVisited' = {} /\ ToPutBack' = {}
  /\ ~Doing' => ToRemove' = {} /\ ToConflict' = {}
  /\ Undoing' => ~Doing'
  <1>1. ~Undoing' => Restored' = {} /\ ToPutBack' = {}
    BY DEF Undoing, Restored, ToPutBack
  <1>2. ~Undoing' => NotVisited' = {}
    BY <1>1 DEF Undoing, NotVisited, Disconnecting
  <1>3. ~Doing' => ToRemove' = {} /\ ToConflict' = {}
    BY DEF Doing, ToRemove, ToConflict
  <1>4. Undoing' => ~Doing'
    BY DEF Undoing, Doing, Disconnecting
  <1> QED
    BY <1>1, <1>2, <1>3, <1>4

(* RemoveStaged loses what it is given. *)
LEMMA StagedLoses ==
  ASSUME IndexInv, NEW S \in SUBSET mapTx, RemoveStaged(S)
  PROVE  Loses(S)
  BY RemoveFacts DEF IndexInv, Loses

(* When every link is there, descendants are families. *)
LEMMA LinkedFamilies ==
  ASSUME PoolInv, NEW S \in SUBSET mapTx, S \cap NotVisited = {}, \A u \in S : children[u] \subseteq S
  PROVE  IsFamily(S)
  BY DEF IsFamily, PoolInv, LinksComplete

(* Links are right when a set is lost and what is put back stays the same. *)
LEMMA LosesLinks ==
  ASSUME PoolInv, NEW S, Loses(S),
         \A t \in mapTx' : (t \in Restored' <=> t \in Restored) /\ (t \in NotVisited' <=> t \in NotVisited)
  PROVE  LinksComplete'
  BY DEF PoolInv, LinksComplete, Loses, Spends

(* Steps between blocks *)
LEMMA PoolRest ==
  ASSUME PoolInv, IndexInv', ~Undoing, ~Doing, ~Undoing', ~Doing', UNCHANGED pcoinsTip,
         NEW S, IsFamily(S), Loses(S)
  PROVE  PoolInv'
  <1>1. RestoredInBlock'
    BY DEF RestoredInBlock
  <1>2. PoolIsUnconfirmed'
    BY QuietFacts, QuietNext DEF PoolInv, PoolIsUnconfirmed, Loses
  <1>3. InputsKnown'
    <2> SUFFICES ASSUME NEW t \in mapTx', NEW o \in Vin[t]
                 PROVE  Available(o)'
      BY DEF InputsKnown
    <2>1. t \in mapTx /\ t \notin S
      BY DEF Loses
    <2>2. Available(o)
      BY <2>1, QuietFacts DEF PoolInv, InputsKnown
    <2>3. o[1] \notin S
      BY <2>1 DEF IsFamily, Spends
    <2> QED
      BY <2>2, <2>3 DEF Available, Loses
  <1>4. LinksComplete'
    BY LosesLinks, QuietFacts, QuietNext
  <1> QED
    BY <1>1, <1>2, <1>3, <1>4 DEF PoolInv

(* What is in the pool is not in the block that is disconnected, unless it *)
(* was put back, and what was put back spends only what was put back.      *)
LEMMA RestoredFacts ==
  ASSUME PoolInv, Undoing, NEW t \in mapTx, NEW u \in mapTx, u \in Restored, Spends(u, t)
  PROVE  t \in Restored
  <1>1. ValidChain(chainActive) /\ Len(chainActive) > 1 /\ pcoinsTip = Front(chainActive)
    BY DEF PoolInv, IndexInv, Chains
  <1>b. PICK b : b = Last(chainActive)
    OBVIOUS
  <1>f. TipOf(chainActive, b, pcoinsTip)
    BY <1>1, <1>b, TipFacts
  <1>2. Restored \subseteq ToSet(Vtx[b])
    <2>1. Disconnecting.at \in {"resurrect", "accepted"} => Disconnecting.i \in 1 .. Len(Vtx[b])
      BY <1>b DEF PoolInv, IndexInv, Chains
    <2>2. Before \in Int /\ Before <= Len(Vtx[b])
      BY <1>b, <1>f, <2>1 DEF Before, Handled, Undoing, TipOf
    <2>3. ToSet(Disconnecting.hashes) \subseteq ToSet(Vtx[b])
      <3>1. ToSet(Disconnecting.hashes) \subseteq {Vtx[b][k] : k \in 1 .. Before}
        BY <1>b DEF PoolInv, RestoredInBlock
      <3>2. \A k \in 1 .. Before : k \in 1 .. Len(Vtx[b])
        BY <1>f, <2>2 DEF TipOf
      <3> QED
        BY <1>f, <3>1, <3>2 DEF TipOf
    <2>4. Disconnecting.at = "accepted" => Vtx[b][Disconnecting.i] \in ToSet(Vtx[b])
      BY <1>f, <2>1 DEF TipOf
    <2> QED
      BY <1>b, <2>3, <2>4 DEF Restored, Undoing
  <1>3. PICK k \in 1 .. Len(Vtx[b]) : u = Vtx[b][k]
    BY <1>2, <1>f DEF TipOf
  <1>4. PICK o \in Vin[u] : o[1] = t
    BY DEF Spends
  <1>5. t \in Confirmed(pcoinsTip) \/ \E j \in 1 .. k - 1 : t = Vtx[b][j]
    BY <1>3, <1>4, <1>f DEF TipOf
  <1>6. t \notin Confirmed(pcoinsTip)
    BY QuietFacts DEF PoolInv, PoolIsUnconfirmed
  <1>7. t \in ToSet(Vtx[b])
    <2>1. \A j \in 1 .. k - 1 : j \in 1 .. Len(Vtx[b])
      BY <1>f DEF TipOf
    <2> QED
      BY <1>5, <1>6, <1>f, <2>1 DEF TipOf
  <1> QED
    BY <1>7, <1>b DEF PoolInv, PoolIsUnconfirmed

(* AcceptToMemoryPool between blocks: nothing in the pool spends what it   *)
(* adds, which the links would miss.                                       *)
LEMMA PoolAccept ==
  ASSUME PoolInv, IndexInv', NEW t \in Txs, AcceptToMemoryPool(t)
  PROVE  PoolInv'
  <1>1. /\ job = Idle /\ job' = [at |-> "expire", then |-> Idle] /\ UNCHANGED <<chainActive, pcoinsTip>>
        /\ Acceptable(t) /\ addUnchecked(t, AncestorsToBe(t))
    BY DEF AcceptToMemoryPool, chainVars
  <1>2. ~Undoing /\ ~Doing /\ ~Undoing' /\ ~Doing'
    BY <1>1 DEF Undoing, Doing, Disconnecting, Idle
  <1>3. /\ mapTx' = mapTx \cup {t} /\ t \notin mapTx
        /\ \A x, y \in mapTx : y \in children'[x] <=> y \in children[x]
        /\ \A x \in mapTx : t \in children'[x] <=> Spends(t, x)
        /\ children'[t] = {}
    BY <1>1, AddFacts DEF PoolInv, IndexInv, Acceptable
  <1>4. \A y \in mapTx' : \A o \in Vin[y] : Available(o)
    BY <1>1, <1>2, <1>3, QuietFacts DEF PoolInv, InputsKnown, Acceptable
  <1>5. RestoredInBlock'
    BY <1>2 DEF RestoredInBlock
  <1>6. mapTx \subseteq Txs /\ pcoinsTip \in Seq(Blocks) /\ SelfContained(Confirmed(pcoinsTip))
    <2>1. mapTx \subseteq Txs /\ pcoinsTip \in Seq(Blocks) /\ SelfContained(Upto(pcoinsTip, Len(pcoinsTip)))
      BY DEF PoolInv, IndexInv, SpendersExact, Txs0, Chains, ValidChain
    <2> QED
      BY <2>1, SubSeqWhole DEF Upto
  <1>7. PoolIsUnconfirmed'
    <2>1. mapTx \cap Confirmed(pcoinsTip) = {}
      BY <1>2, QuietFacts DEF PoolInv, PoolIsUnconfirmed
    <2>2. t \notin Confirmed(pcoinsTip)
      <3>1. SUFFICES ASSUME t \in Confirmed(pcoinsTip)
                     PROVE  FALSE
        OBVIOUS
      <3>2. PICK o : o \in Vin[t]
        BY <1>1, TxAssumption DEF Acceptable
      <3>3. o[1] \in Confirmed(pcoinsTip) /\ o \notin Coins(pcoinsTip)
        BY <1>6, <3>1, <3>2, CoinFacts DEF SelfContained
      <3>4. Available(o)
        BY <1>3, <1>4, <3>2
      <3> QED
        BY <2>1, <3>3, <3>4 DEF Available
    <2> QED
      BY <1>1, <1>2, <1>3, <2>1, <2>2 DEF PoolIsUnconfirmed
  <1>8. InputsKnown'
    BY <1>1, <1>3, <1>4 DEF InputsKnown, Available
  <1>9. LinksComplete'
    <2>1. \A y \in mapTx' : ~Spends(y, t)
      <3> SUFFICES ASSUME NEW y \in mapTx', NEW o \in Vin[y], o[1] = t
                   PROVE  FALSE
        BY DEF Spends
      <3>1. o \in Outpoints /\ o \in Vout[t]
        BY <1>3, <1>6, TxFacts
      <3>2. o \in Coins(pcoinsTip)
        BY <1>3, <1>4 DEF Available
      <3> QED
        BY <1>1, <3>1, <3>2 DEF Acceptable
    <2>2. ASSUME NEW x \in mapTx', NEW y \in mapTx'
          PROVE  y \in children'[x] <=> Spends(y, x)
      <3>1. CASE x = t
        BY <1>3, <2>1, <3>1
      <3>2. CASE x # t /\ y = t
        BY <1>3, <3>2
      <3>3. CASE x # t /\ y # t
        BY <1>2, <1>3, <3>3, QuietFacts DEF PoolInv, LinksComplete
      <3> QED
        BY <3>1, <3>2, <3>3
    <2> QED
      BY <1>2, <2>2, QuietNext DEF LinksComplete, Spends
  <1> QED
    BY <1>5, <1>7, <1>8, <1>9 DEF PoolInv

(* Steps that are not inside a block *)
Quiet ==
    \/ Expire \/ (Trim /\ job.then.at # "accepted") \/ (TrimDone /\ job.then.at # "accepted")
    \/ StepDone \/ StepFails \/ InvalidateDone \/ ReplayDone \/ RemoveForReorg \/ PurgeOne \/ PurgeDone

(* They stay between blocks. *)
LEMMA QuietSteps ==
  ASSUME job \in Job, Quiet
  PROVE  ~Undoing /\ ~Doing /\ ~Undoing' /\ ~Doing' /\ UNCHANGED pcoinsTip
  <1>2. /\ job.at \in {"expire", "trim", "connected", "disconnected", "purge", "purging"}
        /\ job.at = "trim" => job.then \in Later
        /\ UNCHANGED pcoinsTip
    BY JobFacts DEF Quiet, Expire, Trim, TrimDone, StepDone, StepFails, InvalidateDone, ReplayDone, RemoveForReorg,
       PurgeOne, PurgeDone, chainVars
  <1>3. ~Undoing /\ ~Doing
    BY <1>2, LaterFacts DEF Undoing, Doing, Disconnecting
  <1>4. ~Undoing' /\ ~Doing'
    <2>1. CASE Expire
      <3>1. job' = [at |-> "trim", then |-> job.then] /\ job.then \in Later
        BY <2>1, JobFacts DEF Expire
      <3> QED
        BY <3>1, LaterFacts DEF Undoing, Doing, Disconnecting
    <2>2. CASE Trim
      BY <1>3, <2>2 DEF Trim, Undoing, Doing, Disconnecting
    <2>3. CASE (TrimDone /\ job.then.at # "accepted") \/ PurgeDone
      <3>1. job' \in Later
        BY <2>3, JobFacts DEF TrimDone, PurgeDone
      <3>2. job'.at \in {"idle", "expire", "purge"}
        BY <3>1, LaterFacts
      <3> QED
        BY <3>2 DEF Undoing, Doing, Disconnecting
    <2>4. CASE StepDone \/ StepFails \/ InvalidateDone \/ ReplayDone
      <3>1. job' \in {Idle, Purge(Idle), Purge(Limit(Idle)), Limit(Purge(Idle))}
        BY <2>4 DEF StepDone, StepFails, InvalidateDone, ReplayDone
      <3>2. job'.at \in {"idle", "purge", "expire"}
        BY <3>1 DEF Idle, Purge, Limit
      <3> QED
        BY <3>2 DEF Undoing, Doing, Disconnecting
    <2>5. CASE RemoveForReorg \/ PurgeOne
      <3>1. CASE PurgeOne
        BY <3>1, JobFacts DEF PurgeOne, Undoing, Doing, Disconnecting
      <3> QED
        BY <2>5, <3>1 DEF RemoveForReorg, Undoing, Doing, Disconnecting
    <2> QED
      BY <2>1, <2>2, <2>3, <2>4, <2>5 DEF Quiet
  <1> QED
    BY <1>2, <1>3, <1>4

(* Removals and other steps between blocks *)
LEMMA PoolQuiet ==
  ASSUME PoolInv, IndexInv', Quiet
  PROVE  PoolInv'
  <1>1. job \in Job /\ IndexInv /\ SpendersExact /\ LinksMutual /\ Chains
    BY DEF PoolInv, IndexInv, Chains
  <1>2. ~Undoing /\ ~Doing /\ ~Undoing' /\ ~Doing' /\ UNCHANGED pcoinsTip
    BY <1>1, QuietSteps
  <1>5. ASSUME NEW S, S \subseteq mapTx, \A u \in S : children[u] \subseteq S, RemoveStaged(S)
        PROVE  PoolInv'
    <2>1. IsFamily(S)
      BY <1>2, <1>5, QuietFacts, LinkedFamilies
    <2>2. Loses(S)
      BY <1>1, <1>5, StagedLoses
    <2> QED
      BY <1>2, <2>1, <2>2, PoolRest
  <1>6. ASSUME UNCHANGED poolVars
        PROVE  PoolInv'
    <2>1. IsFamily({}) /\ Loses({})
      BY <1>6 DEF IsFamily, Loses, poolVars
    <2> QED
      BY <1>2, <2>1, PoolRest
  <1>7. CASE Expire
    <2>1. PICK old \in SUBSET mapTx : RemoveStaged(CalculateDescendants(old))
      BY <1>7 DEF Expire
    <2> QED
      BY <1>1, <1>5, <2>1, DescendantsFacts
  <1>8. CASE Trim
    <2>1. PICK t \in mapTx : RemoveStaged(CalculateDescendants({t}))
      BY <1>8 DEF Trim
    <2>2. {t} \in SUBSET mapTx
      OBVIOUS
    <2> QED
      BY <1>1, <1>5, <2>1, <2>2, DescendantsFacts
  <1>9. CASE PurgeOne
    <2>1. PICK t \in job.todo : RemoveStaged(Removal(t))
      BY <1>9 DEF PurgeOne
    <2>2. t \in Txs
      BY <1>1, <1>9, AtFacts DEF PurgeOne
    <2> QED
      BY <1>1, <1>5, <2>1, <2>2, RemovalFacts
  <1>10. CASE TrimDone \/ StepDone \/ StepFails \/ InvalidateDone \/ ReplayDone \/ RemoveForReorg \/ PurgeDone
    BY <1>6, <1>10 DEF TrimDone, StepDone, StepFails, InvalidateDone, ReplayDone, RemoveForReorg, PurgeDone
  <1> QED
    BY <1>7, <1>8, <1>9, <1>10 DEF Quiet

(* DisconnectTip: the coins that go were created by the block, whose       *)
(* transactions are about to be put back.                                  *)
LEMMA PoolDisconnect ==
  ASSUME PoolInv, IndexInv', NEW op, DisconnectTip(op)
  PROVE  PoolInv'
  <1>1. /\ job = Idle \/ job.at = "disconnected"
        /\ Len(chainActive) > 1 /\ pcoinsTip' = Front(pcoinsTip) /\ UNCHANGED <<poolVars, chainActive>>
        /\ job' = [at |-> "resurrect", op |-> op, i |-> 1, hashes |-> <<>>]
    BY DEF DisconnectTip
  <1>2. ~Undoing /\ ~Doing /\ Undoing' /\ ~Doing' /\ Disconnecting' = job'
    BY <1>1 DEF Undoing, Doing, Disconnecting, Idle
  <1>3. chainActive = pcoinsTip /\ ValidChain(chainActive)
    BY <1>2 DEF PoolInv, IndexInv, Chains
  <1>4. PICK b, f : b = Last(chainActive) /\ f = Front(chainActive)
    OBVIOUS
  <1>5. TipOf(chainActive, b, f)
    BY <1>1, <1>3, <1>4, TipFacts
  <1>6. UNCHANGED <<mapTx, children>>
    BY <1>1 DEF poolVars
  <1>7. ToSet(<<>>) = {}
    BY DEF ToSet
  <1>8. Restored' = {} /\ NotVisited' = {}
    BY <1>1, <1>2, <1>7 DEF Restored, NotVisited
  <1>9. ToPutBack' = ToSet(Vtx[b])
    <2>1. Handled' = 0
      BY <1>1, <1>2 DEF Handled
    <2>2. ToPutBack' = {Vtx[b][k] : k \in 1 .. Len(Vtx[b])}
      BY <1>1, <1>2, <1>4, <2>1 DEF ToPutBack
    <2> QED
      BY <1>5, <2>2 DEF TipOf
  <1>10. RestoredInBlock'
    <2>1. Disconnecting'.hashes = <<>> /\ Len(<<>>) = 0
      BY <1>1, <1>2
    <2> QED
      BY <1>7, <2>1 DEF RestoredInBlock
  <1>11. mapTx \cap Confirmed(chainActive) = {}
    BY <1>2, <1>3, QuietFacts DEF PoolInv, PoolIsUnconfirmed
  <1>12. PoolIsUnconfirmed'
    <2>1. mapTx \cap Confirmed(f) = {} /\ mapTx \cap ToSet(Vtx[b]) = {}
      BY <1>5, <1>11 DEF TipOf
    <2>2. pcoinsTip' = f /\ Last(chainActive') = b
      BY <1>1, <1>3, <1>4
    <2> QED
      BY <1>6, <2>1, <2>2 DEF PoolIsUnconfirmed
  <1>13. InputsKnown'
    <2> SUFFICES ASSUME NEW t \in mapTx', NEW o \in Vin[t]
                 PROVE  Available(o)' \/ o[1] \in ToPutBack'
      BY DEF InputsKnown
    <2>1. o[1] \in mapTx \/ o \in Coins(chainActive)
      BY <1>2, <1>3, <1>6, QuietFacts DEF PoolInv, InputsKnown, Available
    <2>2. ASSUME o \in Coins(chainActive), o[1] \notin ToSet(Vtx[b])
          PROVE  o \in Coins(f)
      BY <1>5, <2>2, CoinFacts DEF TipOf
    <2> QED
      BY <1>1, <1>3, <1>4, <1>6, <1>9, <2>1, <2>2 DEF Available
  <1>14. LinksComplete'
    BY <1>2, <1>6, <1>8, QuietFacts DEF PoolInv, LinksComplete, Spends
  <1> QED
    BY <1>10, <1>12, <1>13, <1>14 DEF PoolInv

(* ConnectTip: whatever loses an input conflicts with the block. *)
LEMMA PoolConnect ==
  ASSUME PoolInv, IndexInv', NEW b \in Blocks, ConnectTip(b)
  PROVE  PoolInv'
  <1>1. /\ job = Idle \/ job.at \in {"connected", "disconnected"}
        /\ ConnectBlock(b, pcoinsTip) /\ pcoinsTip' = Append(pcoinsTip, b) /\ UNCHANGED <<poolVars, chainActive>>
        /\ job'.at = "remove" /\ job'.i = 1
    BY DEF ConnectTip
  <1>2. ~Undoing /\ ~Doing /\ ~Undoing' /\ Doing'
    BY <1>1 DEF Undoing, Doing, Disconnecting, Idle
  <1>3. ValidChain(pcoinsTip)
    BY <1>2 DEF PoolInv, IndexInv, Chains
  <1>4. /\ ValidChain(pcoinsTip') /\ Len(pcoinsTip') > 1 /\ Front(pcoinsTip') = pcoinsTip /\ Last(pcoinsTip') = b
    <2>1. Len(pcoinsTip) \in Nat /\ Len(pcoinsTip) > 0
      BY <1>3 DEF ValidChain
    <2>2. /\ ValidChain(pcoinsTip') /\ Len(pcoinsTip') = Len(pcoinsTip) + 1
          /\ Front(pcoinsTip') = pcoinsTip /\ Last(pcoinsTip') = b
      BY <1>1, <1>3, ValidAppend
    <2> QED
      BY <2>1, <2>2
  <1>5. PICK q : q = pcoinsTip'
    OBVIOUS
  <1>6. TipOf(q, b, pcoinsTip)
    BY <1>4, <1>5, TipFacts
  <1>7. UNCHANGED <<mapTx, children>>
    BY <1>1 DEF poolVars
  <1>8. ToRemove' = ToSet(Vtx[b]) /\ ToConflict' = ToSet(Vtx[b])
    <2>1. /\ ToRemove' = {Vtx[b][k] : k \in 1 .. Len(Vtx[b])}
          /\ ToConflict' = {Vtx[b][k] : k \in 1 .. Len(Vtx[b])}
      BY <1>1, <1>2, <1>4 DEF ToRemove, ToConflict
    <2> QED
      BY <1>6, <2>1 DEF TipOf
  <1>9. PoolIsUnconfirmed'
    <2>1. mapTx \cap Confirmed(pcoinsTip) = {}
      BY <1>2, QuietFacts DEF PoolInv, PoolIsUnconfirmed
    <2>2. mapTx \cap Confirmed(q) \subseteq ToSet(Vtx[b])
      BY <1>6, <2>1 DEF TipOf
    <2> QED
      BY <1>2, <1>5, <1>7, <1>8, <2>2 DEF PoolIsUnconfirmed
  <1>10. InputsKnown'
    <2> SUFFICES ASSUME NEW t \in mapTx', NEW o \in Vin[t]
                 PROVE  Available(o)' \/ \E c \in ToConflict' : o \in Vin[c]
      BY DEF InputsKnown
    <2>1. o[1] \in mapTx \/ o \in Coins(pcoinsTip)
      BY <1>2, <1>7, QuietFacts DEF PoolInv, InputsKnown, Available
    <2>2. ASSUME o \in Coins(pcoinsTip), \A c \in ToSet(Vtx[b]) : o \notin Vin[c]
          PROVE  o \in Coins(q)
      BY <1>6, <2>2, CoinFacts DEF TipOf
    <2> QED
      BY <1>5, <1>7, <1>8, <2>1, <2>2 DEF Available
  <1>11. LinksComplete'
    BY <1>2, <1>7, QuietFacts, QuietNext DEF PoolInv, LinksComplete, Spends
  <1>12. RestoredInBlock'
    BY <1>2 DEF RestoredInBlock
  <1> QED
    BY <1>9, <1>10, <1>11, <1>12 DEF PoolInv

(* The block that is connected, and where ConnectTip is in it *)
LEMMA DoingFacts ==
  ASSUME PoolInv, Doing
  PROVE  /\ TipOf(pcoinsTip, Last(pcoinsTip), chainActive) /\ ~Undoing
         /\ job.i \in 1 .. Len(Vtx[Last(pcoinsTip)]) /\ Connected = Vtx[Last(pcoinsTip)][job.i]
         /\ job \in [at : {job.at}, op : Ops \cup {"extend"}, i : Nat]
  <1>1. /\ ValidChain(pcoinsTip) /\ Len(pcoinsTip) > 1 /\ chainActive = Front(pcoinsTip) /\ job \in Job
        /\ job.i \in 1 .. Len(Vtx[Last(pcoinsTip)])
    BY DEF PoolInv, IndexInv, Chains
  <1> QED
    BY <1>1, TipFacts, QuietFacts, JobFacts DEF Connected, Doing

(* removeForBlock: the children of the transaction now spend its coins, or *)
(* conflict with a later transaction of the block.                         *)
LEMMA PoolRemoveForBlock ==
  ASSUME PoolInv, IndexInv', RemoveForBlock
  PROVE  PoolInv'
  <1>1. /\ job.at = "remove" /\ RemoveStaged({Connected} \cap mapTx) /\ job' = [job EXCEPT !.at = "conflicts"]
        /\ UNCHANGED <<chainActive, pcoinsTip>>
    BY DEF RemoveForBlock, chainVars
  <1>2. PICK b, i, c : b = Last(pcoinsTip) /\ i = job.i /\ c = Vtx[b][i]
    OBVIOUS
  <1>3. Doing
    BY <1>1 DEF Doing
  <1>4. /\ TipOf(pcoinsTip, b, chainActive) /\ ~Undoing /\ i \in 1 .. Len(Vtx[b]) /\ Connected = c
        /\ job \in [at : {"remove"}, op : Ops \cup {"extend"}, i : Nat]
    BY <1>1, <1>2, <1>3, DoingFacts
  <1>5. job'.at = "conflicts" /\ job'.i = i
    BY <1>1, <1>2, <1>4
  <1>6. ~Undoing' /\ Doing'
    BY <1>5 DEF Undoing, Doing, Disconnecting
  <1>7. Loses({c} \cap mapTx)
    <2>1. {c} \cap mapTx \in SUBSET mapTx
      OBVIOUS
    <2> QED
      BY <1>1, <1>4, <2>1, StagedLoses DEF PoolInv
  <1>8. LinksComplete'
    BY <1>4, <1>6, <1>7, LosesLinks, QuietFacts, QuietNext
  <1>9. /\ ToRemove = {Vtx[b][k] : k \in i .. Len(Vtx[b])} /\ ToRemove' = {Vtx[b][k] : k \in i + 1 .. Len(Vtx[b])}
        /\ ToConflict = {Vtx[b][k] : k \in i .. Len(Vtx[b])} /\ ToConflict' = ToConflict
    BY <1>1, <1>2, <1>3, <1>5, <1>6 DEF ToRemove, ToConflict
  <1>10. PoolIsUnconfirmed'
    <2>1. mapTx \cap Confirmed(pcoinsTip) \subseteq ToRemove
      BY DEF PoolInv, PoolIsUnconfirmed
    <2>2. \A k \in i .. Len(Vtx[b]) : k = i \/ k \in i + 1 .. Len(Vtx[b])
      BY <1>4 DEF TipOf
    <2>3. ToRemove \subseteq ToRemove' \cup {c}
      BY <1>2, <1>9, <2>2
    <2> QED
      BY <1>1, <1>6, <1>7, <2>1, <2>3 DEF PoolIsUnconfirmed, Loses
  <1>11. InputsKnown'
    <2> SUFFICES ASSUME NEW t \in mapTx', NEW o \in Vin[t]
                 PROVE  Available(o)' \/ \E x \in ToConflict' : o \in Vin[x]
      BY DEF InputsKnown
    <2>1. t \in mapTx /\ t \in Txs
      BY <1>7 DEF Loses, PoolInv, IndexInv, SpendersExact, Txs0
    <2>2. Available(o) \/ \E x \in ToConflict : o \in Vin[x]
      BY <1>4, <2>1, QuietFacts DEF PoolInv, InputsKnown
    <2>3. CASE o[1] # c
      BY <1>1, <1>7, <1>9, <2>2, <2>3 DEF Available, Loses
    <2>4. CASE o[1] = c
      <3>1. o \in Outpoints /\ c \in Confirmed(pcoinsTip) /\ c \notin Confirmed(chainActive)
        BY <1>2, <1>4, <2>1, TxFacts DEF TipOf
      <3>2. CASE o \in Coins(pcoinsTip)
        BY <1>1, <3>2 DEF Available
      <3>3. CASE o \notin Coins(pcoinsTip)
        <4>1. PICK x \in Confirmed(pcoinsTip) : o \in Vin[x]
          BY <1>4, <2>4, <3>1, <3>3, CoinFacts DEF TipOf
        <4>2. x \notin Confirmed(chainActive)
          BY <1>4, <2>4, <3>1, <4>1 DEF TipOf, SelfContained
        <4>3. PICK k \in 1 .. Len(Vtx[b]) : x = Vtx[b][k]
          BY <1>4, <4>1, <4>2 DEF TipOf
        <4>4. PICK j \in 1 .. k - 1 : c = Vtx[b][j]
          <5>1. o \in Vin[Vtx[b][k]]
            BY <4>1, <4>3
          <5>2. o[1] \in Confirmed(chainActive) \/ \E j \in 1 .. k - 1 : o[1] = Vtx[b][j]
            BY <1>4, <5>1, TipOrder
          <5> QED
            BY <2>4, <3>1, <5>2
        <4>5. j \in 1 .. Len(Vtx[b]) /\ Len(Vtx[b]) \in Nat
          BY <1>4, <4>3, <4>4 DEF TipOf
        <4>6. j = i
          <5>1. i \in 1 .. Len(Vtx[b]) /\ Vtx[b][j] = Vtx[b][i]
            BY <1>2, <1>4, <4>4
          <5> QED
            BY <1>4, <4>5, <5>1, TipOrder
        <4>7. k \in i .. Len(Vtx[b])
          BY <1>4, <4>3, <4>4, <4>5, <4>6
        <4> QED
          BY <1>9, <4>1, <4>3, <4>7
      <3> QED
        BY <3>2, <3>3
    <2> QED
      BY <2>3, <2>4
  <1>12. RestoredInBlock'
    BY <1>6 DEF RestoredInBlock
  <1> QED
    BY <1>8, <1>10, <1>11, <1>12 DEF PoolInv

(* removeConflicts: whoever spends an input of the transaction goes, with  *)
(* all its family.                                                         *)
LEMMA PoolRemoveConflicts ==
  ASSUME PoolInv, IndexInv', RemoveConflicts
  PROVE  PoolInv'
  <1>1. job.at = "conflicts" /\ RemoveStaged(CalculateDescendants(Conflicts)) /\ UNCHANGED pcoinsTip
    BY DEF RemoveConflicts, Conflicts
  <1>2. PICK b, i, c : b = Last(pcoinsTip) /\ i = job.i /\ c = Vtx[b][i]
    OBVIOUS
  <1>3. Doing
    BY <1>1 DEF Doing
  <1>4. /\ TipOf(pcoinsTip, b, chainActive) /\ ~Undoing /\ i \in 1 .. Len(Vtx[b]) /\ Connected = c
        /\ job \in [at : {"conflicts"}, op : Ops \cup {"extend"}, i : Nat]
    BY <1>1, <1>2, <1>3, DoingFacts
  <1>5. PICK S : S = CalculateDescendants(Conflicts)
    OBVIOUS
  <1>6. /\ S \subseteq mapTx /\ \A u \in S : children[u] \subseteq S
        /\ \A u \in mapTx \ {c} : Vin[u] \cap Vin[c] # {} => u \in S
    <2>1. Connected \in Txs
      BY <1>2, <1>4 DEF TipOf
    <2> QED
      BY <1>4, <1>5, <2>1, ConflictFacts DEF PoolInv, IndexInv
  <1>7. Loses(S) /\ IsFamily(S)
    BY <1>1, <1>4, <1>5, <1>6, StagedLoses, LinkedFamilies, QuietFacts DEF PoolInv
  <1>8. \/ i = Len(Vtx[b]) /\ ~Undoing' /\ ~Doing'
        \/ i # Len(Vtx[b]) /\ job'.at = "remove" /\ job'.i = i + 1 /\ ~Undoing' /\ Doing'
    <2>1. CASE i = Len(Vtx[b])
      <3>1. job'.at = "connected"
        BY <1>2, <2>1 DEF RemoveConflicts
      <3> QED
        BY <2>1, <3>1 DEF Undoing, Doing, Disconnecting
    <2>2. CASE i # Len(Vtx[b])
      <3>1. job' = [job EXCEPT !.at = "remove", !.i = @ + 1]
        BY <1>2, <2>2 DEF RemoveConflicts
      <3>2. job'.at = "remove" /\ job'.i = i + 1
        BY <1>2, <1>4, <3>1
      <3> QED
        BY <2>2, <3>2 DEF Undoing, Doing, Disconnecting
    <2> QED
      BY <2>1, <2>2
  <1>9. LinksComplete'
    BY <1>4, <1>7, <1>8, LosesLinks, QuietFacts, QuietNext
  <1>10. /\ ToRemove = {Vtx[b][k] : k \in i + 1 .. Len(Vtx[b])} /\ ToRemove' = ToRemove
         /\ ToConflict = {Vtx[b][k] : k \in i .. Len(Vtx[b])}
         /\ ToConflict' = {Vtx[b][k] : k \in i + 1 .. Len(Vtx[b])}
    <2>1. /\ ToRemove = {Vtx[b][k] : k \in i + 1 .. Len(Vtx[b])}
          /\ ToConflict = {Vtx[b][k] : k \in i .. Len(Vtx[b])}
      BY <1>1, <1>2, <1>3 DEF ToRemove, ToConflict
    <2>2. CASE i = Len(Vtx[b]) /\ ~Doing'
      <3>1. \A k \in i + 1 .. Len(Vtx[b]) : FALSE
        BY <1>4, <2>2 DEF TipOf
      <3>2. {Vtx[b][k] : k \in i + 1 .. Len(Vtx[b])} = {}
        BY <3>1
      <3> QED
        BY <2>1, <2>2, <3>2, QuietNext
    <2>3. CASE job'.at = "remove" /\ job'.i = i + 1 /\ Doing'
      <3>1. Last(pcoinsTip') = b /\ job'.at # "conflicts"
        BY <1>1, <1>2, <2>3
      <3>2. ToRemove' = {Vtx[b][k] : k \in i + 1 .. Len(Vtx[b])}
        BY <2>3, <3>1 DEF ToRemove
      <3>3. ToConflict' = {Vtx[b][k] : k \in i + 1 .. Len(Vtx[b])}
        BY <2>3, <3>1 DEF ToConflict
      <3> QED
        BY <2>1, <3>2, <3>3
    <2> QED
      BY <1>8, <2>2, <2>3
  <1>11. PoolIsUnconfirmed'
    BY <1>1, <1>7, <1>8, <1>10 DEF PoolInv, PoolIsUnconfirmed, Loses
  <1>12. c \notin mapTx
    <2>1. c \in Confirmed(pcoinsTip)
      BY <1>2, <1>4 DEF TipOf
    <2>2. ASSUME NEW k \in i + 1 .. Len(Vtx[b]), c = Vtx[b][k]
          PROVE  FALSE
      <3>1. k \in 1 .. Len(Vtx[b]) /\ k # i
        BY <1>4 DEF TipOf
      <3> QED
        BY <1>2, <1>4, <2>2, <3>1 DEF TipOf
    <2> QED
      BY <1>10, <2>1, <2>2 DEF PoolInv, PoolIsUnconfirmed
  <1>13. InputsKnown'
    <2> SUFFICES ASSUME NEW t \in mapTx', NEW o \in Vin[t]
                 PROVE  Available(o)' \/ \E x \in ToConflict' : o \in Vin[x]
      BY DEF InputsKnown
    <2>1. t \in mapTx /\ t \notin S
      BY <1>7 DEF Loses
    <2>2. o[1] \notin S
      BY <1>7, <2>1 DEF IsFamily, Spends
    <2>3. Available(o) \/ \E x \in ToConflict : o \in Vin[x]
      BY <1>4, <2>1, QuietFacts DEF PoolInv, InputsKnown
    <2>4. CASE Available(o)
      BY <1>1, <1>7, <2>2, <2>4 DEF Available, Loses
    <2>5. ASSUME NEW k \in i .. Len(Vtx[b]), o \in Vin[Vtx[b][k]]
          PROVE  \E x \in ToConflict' : o \in Vin[x]
      <3>1. k # i
        BY <1>2, <1>6, <1>12, <2>1, <2>5
      <3>2. k \in i + 1 .. Len(Vtx[b])
        BY <1>4, <3>1 DEF TipOf
      <3> QED
        BY <1>10, <2>5, <3>2
    <2> QED
      BY <1>10, <2>3, <2>4, <2>5
  <1>14. RestoredInBlock'
    BY <1>8 DEF RestoredInBlock
  <1> QED
    BY <1>9, <1>11, <1>13, <1>14 DEF PoolInv

(* d is at a transaction of block b, after those that were put back. *)
Putting(b, d) ==
    /\ Undoing /\ ~Doing /\ TipOf(chainActive, b, pcoinsTip)
    /\ d.i \in 1 .. Len(Vtx[b]) /\ d \in PuttingBack({d.at})
    /\ ToSet(d.hashes) \subseteq {Vtx[b][k] : k \in 1 .. d.i - 1}
    /\ \A j, k \in 1 .. Len(d.hashes) : d.hashes[j] = d.hashes[k] => j = k
    /\ Vtx[b][d.i] \in Txs /\ Vtx[b][d.i] \notin ToSet(d.hashes) /\ Vtx[b][d.i] \notin Confirmed(pcoinsTip)
    /\ \A t \in ToSet(d.hashes) : t \in Txs /\ ~Spends(t, Vtx[b][d.i])
    /\ ~Spends(Vtx[b][d.i], Vtx[b][d.i])

(* The block that is disconnected, and where DisconnectTip is in it *)
LEMMA UndoingFacts ==
  ASSUME PoolInv, NEW b, b = Last(chainActive), NEW d, d = Disconnecting, d.at \in {"resurrect", "accepted"}
  PROVE  Putting(b, d)
  <1>1. Undoing /\ ~Doing
    BY QuietFacts DEF Undoing
  <1>2. /\ ValidChain(chainActive) /\ Len(chainActive) > 1 /\ pcoinsTip = Front(chainActive)
        /\ d.i \in 1 .. Len(Vtx[b]) /\ job \in Job
    BY <1>1 DEF PoolInv, IndexInv, Chains
  <1>3. TipOf(chainActive, b, pcoinsTip)
    BY <1>2, TipFacts
  <1>4. d \in PuttingBack({d.at})
    <2>1. CASE job.at = "trim"
      BY <1>2, <2>1, JobFacts, LaterFacts DEF Disconnecting
    <2>2. CASE job.at # "trim"
      BY <1>2, <2>2, JobFacts DEF Disconnecting
    <2> QED
      BY <2>1, <2>2
  <1>5. /\ ToSet(d.hashes) \subseteq {Vtx[b][k] : k \in 1 .. Before}
        /\ \A j, k \in 1 .. Len(d.hashes) : d.hashes[j] = d.hashes[k] => j = k
    BY <1>1 DEF PoolInv, RestoredInBlock
  <1>6. Before = d.i - 1
    BY DEF Before, Handled
  <1>7. d.i \in Nat /\ Len(Vtx[b]) \in Nat /\ \A k \in 1 .. d.i - 1 : k \in 1 .. Len(Vtx[b]) /\ k # d.i
    BY <1>2, <1>3 DEF TipOf
  <1>8. ASSUME NEW k \in 1 .. d.i, Spends(Vtx[b][k], Vtx[b][d.i])
        PROVE  FALSE
    <2>1. k \in 1 .. Len(Vtx[b])
      BY <1>2, <1>7
    <2>2. PICK o \in Vin[Vtx[b][k]] : o[1] = Vtx[b][d.i]
      BY <1>8 DEF Spends
    <2>3. PICK j \in 1 .. k - 1 : Vtx[b][d.i] = Vtx[b][j]
      BY <1>2, <1>3, <2>1, <2>2 DEF TipOf
    <2>4. j \in 1 .. Len(Vtx[b]) /\ j # d.i
      BY <1>2, <1>7
    <2> QED
      BY <1>2, <1>3, <2>3, <2>4 DEF TipOf
  <1>9. Vtx[b][d.i] \notin ToSet(d.hashes)
    BY <1>2, <1>3, <1>5, <1>6, <1>7 DEF TipOf
  <1>10. \A t \in ToSet(d.hashes) : t \in Txs /\ ~Spends(t, Vtx[b][d.i])
    <2>1. \A k \in 1 .. d.i - 1 : k \in 1 .. d.i
      BY <1>7
    <2> QED
      BY <1>3, <1>5, <1>6, <1>7, <1>8, <2>1 DEF TipOf
  <1>11. d.i \in 1 .. d.i
    BY <1>2, <1>7
  <1> QED
    BY <1>1, <1>2, <1>3, <1>4, <1>5, <1>6, <1>8, <1>9, <1>10, <1>11 DEF TipOf, Putting

(* What DisconnectTip has put back, and has still to put back *)
LEMMA ProgressFacts ==
  ASSUME Undoing, NEW b, b = Last(chainActive), NEW d, d = Disconnecting
  PROVE  /\ d.at = "resurrect" => /\ Restored = ToSet(d.hashes) /\ NotVisited = Restored
                                  /\ d.i \in Int => ToPutBack = {Vtx[b][k] : k \in d.i .. Len(Vtx[b])}
         /\ d.at = "accepted" => /\ Restored = ToSet(d.hashes) \cup {Vtx[b][d.i]} /\ NotVisited = Restored
                                 /\ ToPutBack = {Vtx[b][k] : k \in d.i + 1 .. Len(Vtx[b])}
         /\ d.at = "update" => /\ Restored = ToSet(d.hashes) /\ Before = Len(Vtx[b])
                               /\ job.at = "update" => NotVisited = {d.hashes[k] : k \in 1 .. d.i}
                               /\ ToPutBack = {Vtx[b][k] : k \in Len(Vtx[b]) + 1 .. Len(Vtx[b])}
  <1>1. d.at = "resurrect" /\ d.i \in Int => d.i - 1 + 1 = d.i
    OBVIOUS
  <1> QED
    BY <1>1 DEF Restored, NotVisited, ToPutBack, Handled, Disconnecting, Before

(* The same, after a step *)
LEMMA ProgressNext ==
  ASSUME Undoing', NEW b, b = Last(chainActive'), NEW d, d = Disconnecting'
  PROVE  /\ d.at = "resurrect" => /\ Restored' = ToSet(d.hashes) /\ NotVisited' = Restored'
                                  /\ d.i \in Int => ToPutBack' = {Vtx[b][k] : k \in d.i .. Len(Vtx[b])}
         /\ d.at = "accepted" => /\ Restored' = ToSet(d.hashes) \cup {Vtx[b][d.i]} /\ NotVisited' = Restored'
                                 /\ ToPutBack' = {Vtx[b][k] : k \in d.i + 1 .. Len(Vtx[b])}
         /\ d.at = "update" => /\ Restored' = ToSet(d.hashes) /\ Before' = Len(Vtx[b])
                               /\ job'.at = "update" => NotVisited' = {d.hashes[k] : k \in 1 .. d.i}
                               /\ ToPutBack' = {Vtx[b][k] : k \in Len(Vtx[b]) + 1 .. Len(Vtx[b])}
  <1>1. d.at = "resurrect" /\ d.i \in Int => d.i - 1 + 1 = d.i
    OBVIOUS
  <1> QED
    BY <1>1 DEF Restored, NotVisited, ToPutBack, Handled, Disconnecting, Before

(* A transaction is put back: only what was put back after it can spend    *)
(* it and be linked to it, and that is nothing yet.                        *)
LEMMA PoolResurrectAccept ==
  ASSUME PoolInv, IndexInv', ResurrectAccept
  PROVE  PoolInv'
  <1>1. /\ job.at = "resurrect" /\ Acceptable(Resurrected) /\ addUnchecked(Resurrected, AncestorsToBe(Resurrected))
        /\ job' = [at |-> "trim", then |-> [job EXCEPT !.at = "accepted"]] /\ UNCHANGED <<chainActive, pcoinsTip>>
    BY DEF ResurrectAccept, chainVars
  <1>2. PICK b, i, h, t : b = Last(chainActive) /\ i = job.i /\ h = job.hashes /\ t = Vtx[b][i]
    OBVIOUS
  <1>3. Disconnecting = job /\ Resurrected = t
    BY <1>1, <1>2 DEF Disconnecting, Resurrected
  <1>4. /\ Undoing /\ ~Doing /\ TipOf(chainActive, b, pcoinsTip) /\ i \in 1 .. Len(Vtx[b])
        /\ job \in PuttingBack({"resurrect"}) /\ ToSet(h) \subseteq {Vtx[b][k] : k \in 1 .. i - 1}
        /\ \A j, k \in 1 .. Len(h) : h[j] = h[k] => j = k
        /\ t \in Txs /\ t \notin ToSet(h) /\ t \notin Confirmed(pcoinsTip)
        /\ \A x \in ToSet(h) : ~Spends(x, t)
        /\ ~Spends(t, t)
    <2>1. PICK d : d = Disconnecting
      OBVIOUS
    <2>2. Putting(b, d)
      BY <1>1, <1>2, <1>3, <2>1, UndoingFacts
    <2> QED
      BY <1>1, <1>2, <1>3, <2>1, <2>2 DEF Putting
  <1>5. PICK a : a = [job EXCEPT !.at = "accepted"]
    OBVIOUS
  <1>6. a.at = "accepted" /\ a.i = i /\ a.hashes = h
    BY <1>2, <1>4, <1>5 DEF PuttingBack
  <1>7. Disconnecting' = a /\ Undoing' /\ ~Doing'
    BY <1>1, <1>5, <1>6 DEF Disconnecting, Undoing, Doing
  <1>8. /\ Restored = ToSet(h) /\ NotVisited = ToSet(h) /\ ToPutBack = {Vtx[b][k] : k \in i .. Len(Vtx[b])}
        /\ Restored' = ToSet(h) \cup {t} /\ NotVisited' = ToSet(h) \cup {t}
        /\ ToPutBack' = {Vtx[b][k] : k \in i + 1 .. Len(Vtx[b])}
    BY <1>1, <1>2, <1>3, <1>4, <1>6, <1>7, ProgressFacts, ProgressNext
  <1>9. /\ mapTx' = mapTx \cup {t} /\ t \notin mapTx
        /\ \A x, y \in mapTx : y \in children'[x] <=> y \in children[x]
        /\ \A x \in mapTx : t \in children'[x] <=> Spends(t, x)
        /\ children'[t] = {}
    BY <1>1, <1>3, <1>4, AddFacts DEF PoolInv, IndexInv, Acceptable
  <1>10. RestoredInBlock'
    <2>1. Before' = i - 1
      BY <1>6, <1>7 DEF Before
    <2> QED
      BY <1>1, <1>2, <1>4, <1>6, <1>7, <2>1 DEF RestoredInBlock
  <1>11. PoolIsUnconfirmed'
    BY <1>1, <1>4, <1>7, <1>8, <1>9, QuietFacts, QuietNext DEF PoolInv, PoolIsUnconfirmed
  <1>12. InputsKnown'
    <2> SUFFICES ASSUME NEW y \in mapTx', NEW o \in Vin[y]
                 PROVE  Available(o)' \/ o[1] \in ToPutBack'
      BY DEF InputsKnown
    <2>1. Available(o) => Available(o)'
      BY <1>1, <1>9 DEF Available
    <2>2. CASE y = t
      BY <1>1, <1>3, <2>1, <2>2 DEF Acceptable
    <2>3. CASE y # t
      <3>1. Available(o) \/ o[1] \in ToPutBack
        BY <1>4, <1>9, <2>3, QuietFacts DEF PoolInv, InputsKnown
      <3>2. \A k \in i .. Len(Vtx[b]) : k = i \/ k \in i + 1 .. Len(Vtx[b])
        BY <1>4 DEF TipOf
      <3>3. o[1] \in ToPutBack => o[1] = t \/ o[1] \in ToPutBack'
        BY <1>2, <1>8, <3>2
      <3> QED
        BY <1>9, <2>1, <3>1, <3>3 DEF Available
    <2> QED
      BY <2>2, <2>3
  <1>13. LinksComplete'
    <2> SUFFICES ASSUME NEW x \in mapTx', NEW y \in mapTx'
                 PROVE  y \in children'[x] <=> Spends(y, x) /\ (x \in NotVisited' => y \in Restored')
      BY DEF LinksComplete, Spends
    <2>1. CASE x = t
      BY <1>4, <1>8, <1>9, <2>1
    <2>2. CASE x # t /\ y = t
      BY <1>8, <1>9, <2>2
    <2>3. CASE x # t /\ y # t
      BY <1>8, <1>9, <2>3 DEF PoolInv, LinksComplete
    <2> QED
      BY <2>1, <2>2, <2>3
  <1> QED
    BY <1>10, <1>11, <1>12, <1>13 DEF PoolInv

(* Evictions between the transactions that are put back *)
LEMMA PoolTrimInside ==
  ASSUME PoolInv, IndexInv', EvictsFamilies, Trim, job.then.at = "accepted"
  PROVE  PoolInv'
  <1>1. job.at = "trim" /\ DynamicMemoryUsage > SizeLimit /\ UNCHANGED <<job, chainActive, pcoinsTip>>
    BY DEF Trim, chainVars
  <1>2. PICK t \in mapTx : Cheapest(t) /\ RemoveStaged(CalculateDescendants({t}))
    BY DEF Trim
  <1>3. PICK S : S = CalculateDescendants({t})
    OBVIOUS
  <1>4. S \subseteq mapTx /\ \A u \in S : ChildrenOf(u) \subseteq S
    <2>1. {t} \in SUBSET mapTx
      OBVIOUS
    <2>2. S \subseteq mapTx
      BY <1>3, <2>1, DescendantsFacts DEF PoolInv, IndexInv
    <2> QED
      BY <1>1, <1>2, <1>3, <2>2 DEF EvictsFamilies
  <1>5. IsFamily(S)
    <2>1. \A u \in S : ChildrenOf(u) = {v \in mapTx : Spends(v, u)}
      BY <1>4, ChildrenFacts DEF PoolInv, IndexInv, SpendersExact, Txs0
    <2> QED
      BY <1>4, <2>1 DEF IsFamily
  <1>6. Loses(S)
    BY <1>2, <1>3, <1>4, StagedLoses DEF PoolInv
  <1>7. /\ UNCHANGED <<Restored, NotVisited, ToPutBack, ToRemove, ToConflict, Undoing, Doing, Disconnecting>>
        /\ RestoredInBlock'
    BY <1>1 DEF PoolInv, RestoredInBlock, Undoing, Doing, Disconnecting, Restored, NotVisited, ToPutBack, ToRemove,
       ToConflict, Handled, Before
  <1>8. PoolIsUnconfirmed'
    BY <1>1, <1>6, <1>7 DEF PoolInv, PoolIsUnconfirmed, Loses
  <1>9. InputsKnown'
    <2> SUFFICES ASSUME NEW y \in mapTx', NEW o \in Vin[y]
                 PROVE  Available(o)' \/ o[1] \in ToPutBack' \/ \E c \in ToConflict' : o \in Vin[c]
      BY DEF InputsKnown
    <2>1. y \in mapTx /\ y \notin S
      BY <1>6 DEF Loses
    <2>2. o[1] \notin S
      BY <1>5, <2>1 DEF IsFamily, Spends
    <2>3. Available(o) \/ o[1] \in ToPutBack \/ \E c \in ToConflict : o \in Vin[c]
      BY <2>1 DEF PoolInv, InputsKnown
    <2> QED
      BY <1>1, <1>6, <1>7, <2>2, <2>3 DEF Available, Loses
  <1>10. LinksComplete'
    BY <1>6, <1>7, LosesLinks
  <1> QED
    BY <1>7, <1>8, <1>9, <1>10 DEF PoolInv

(* The evictions are over. *)
LEMMA PoolTrimDone ==
  ASSUME PoolInv, IndexInv', TrimDone, job.then.at = "accepted"
  PROVE  PoolInv'
  <1>1. job.at = "trim" /\ job' = job.then /\ UNCHANGED <<mapTx, children, chainActive, pcoinsTip>>
    BY DEF TrimDone, poolVars, chainVars
  <1>2. UNCHANGED <<Disconnecting, Undoing, Doing, Handled, Before, Restored>> /\ Undoing /\ ~Doing
    BY <1>1 DEF Disconnecting, Undoing, Doing, Handled, Before, Restored
  <1>3. UNCHANGED <<NotVisited, ToPutBack, ToRemove, ToConflict>>
    BY <1>1, <1>2, QuietFacts, QuietNext DEF NotVisited, ToPutBack
  <1> QED
    BY <1>1, <1>2, <1>3 DEF PoolInv, RestoredInBlock, PoolIsUnconfirmed, InputsKnown, LinksComplete, Available, Spends

(* DisconnectTip goes on to the next transaction, with h put back so far. *)
Onwards(b, i, h) ==
    /\ Undoing' /\ ~Doing' /\ Disconnecting'.hashes = h /\ Before' = i
    /\ Restored' = ToSet(h) /\ NotVisited' = ToSet(h)
    /\ ToPutBack' = {Vtx[b][k] : k \in i + 1 .. Len(Vtx[b])}

(* What the next job has put back *)
LEMMA OnwardsFacts ==
  ASSUME PoolInv, job.at \in {"resurrect", "accepted"}, NEW b, b = Last(chainActive), NEW i, i = job.i,
         NEW h \in Seq(Txs), job' = NextResurrect(h), UNCHANGED chainActive
  PROVE  Onwards(b, i, h)
  <1>1. PICK d : d = Disconnecting
    OBVIOUS
  <1>2. d = job
    BY <1>1 DEF Disconnecting
  <1>3. Putting(b, d)
    BY <1>1, <1>2, UndoingFacts
  <1>4. i \in 1 .. Len(Vtx[b]) /\ job \in PuttingBack({"resurrect", "accepted"}) /\ Len(Vtx[b]) \in Nat /\ i \in Nat
    BY <1>2, <1>3 DEF Putting, PuttingBack, TipOf
  <1>5. chainActive \in Seq(Blocks) /\ Len(chainActive) > 0
    BY DEF PoolInv, IndexInv, Chains, ValidChain
  <1>6. PICK n : n = job'
    OBVIOUS
  <1>7. /\ n \in PuttingBack({"resurrect", "update"}) /\ n.hashes = h
        /\ i = Len(Vtx[b]) => n.at = "update" /\ n.i = Len(h)
        /\ i # Len(Vtx[b]) => n.at = "resurrect" /\ n.i = i + 1
    BY <1>4, <1>5, <1>6, ResurrectNextFacts
  <1>8. n.at \in {"resurrect", "update"}
    BY <1>7 DEF PuttingBack
  <1>9. Disconnecting' = n /\ Undoing' /\ ~Doing' /\ b = Last(chainActive') /\ job'.at = n.at
    BY <1>6, <1>8 DEF Disconnecting, Undoing, Doing
  <1>10. CASE i = Len(Vtx[b])
    <2>1. /\ Restored' = ToSet(h) /\ Before' = Len(Vtx[b]) /\ NotVisited' = {h[k] : k \in 1 .. Len(h)}
          /\ ToPutBack' = {Vtx[b][k] : k \in Len(Vtx[b]) + 1 .. Len(Vtx[b])}
      BY <1>7, <1>9, <1>10, ProgressNext
    <2>2. ToSet(h) = {h[k] : k \in 1 .. Len(h)}
      BY DEF ToSet
    <2> QED
      BY <1>7, <1>9, <1>10, <2>1, <2>2 DEF Onwards
  <1>11. CASE i # Len(Vtx[b])
    <2>1. i + 1 \in Int /\ i + 1 - 1 = i
      BY <1>4
    <2>2. /\ Restored' = ToSet(h) /\ NotVisited' = ToSet(h)
          /\ ToPutBack' = {Vtx[b][k] : k \in i + 1 .. Len(Vtx[b])}
      BY <1>7, <1>9, <1>11, <2>1, ProgressNext
    <2>3. Before' = i
      <3>1. n.at = "resurrect" /\ n.i = i + 1
        BY <1>7, <1>11
      <3>2. Before' = n.i - 1
        BY <1>9, <3>1 DEF Before, Handled
      <3> QED
        BY <1>4, <3>1, <3>2
    <2> QED
      BY <1>7, <1>9, <2>2, <2>3 DEF Onwards
  <1> QED
    BY <1>10, <1>11

(* A transaction that is not in the pool stays out of it: what spends it   *)
(* goes, with its family, of which no member was put back.                 *)
LEMMA PoolRefuse ==
  ASSUME PoolInv, IndexInv', job.at \in {"resurrect", "accepted"}, Resurrected \notin mapTx,
         RemoveStaged(Removal(Resurrected)), job' = NextResurrect(job.hashes), UNCHANGED <<chainActive, pcoinsTip>>
  PROVE  PoolInv'
  <1>1. PICK b, d, i, h, t : /\ b = Last(chainActive) /\ d = Disconnecting /\ i = job.i /\ h = job.hashes
                             /\ t = Resurrected
    OBVIOUS
  <1>2. d = job /\ t = Vtx[b][i]
    BY <1>1 DEF Disconnecting, Resurrected
  <1>3. Putting(b, d)
    BY <1>1, <1>2, UndoingFacts
  <1>4. /\ Undoing /\ ~Doing /\ TipOf(chainActive, b, pcoinsTip) /\ i \in 1 .. Len(Vtx[b]) /\ h \in Seq(Txs)
        /\ ToSet(h) \subseteq {Vtx[b][k] : k \in 1 .. i - 1} /\ \A j, k \in 1 .. Len(h) : h[j] = h[k] => j = k
        /\ t \in Txs /\ \A x \in ToSet(h) : ~Spends(x, t)
    BY <1>1, <1>2, <1>3 DEF Putting, PuttingBack
  <1>5. Onwards(b, i, h)
    BY <1>1, <1>4, OnwardsFacts
  <1>6. \A x \in mapTx : (x \in Restored <=> x \in ToSet(h)) /\ (x \in NotVisited <=> x \in ToSet(h))
    <2>1. /\ Restored \in {ToSet(h), ToSet(h) \cup {t}}
          /\ NotVisited = Restored
      BY <1>1, <1>2, <1>4, ProgressFacts
    <2> QED
      BY <1>1, <2>1
  <1>7. PICK S : S = Removal(t)
    OBVIOUS
  <1>8. /\ S \subseteq mapTx /\ \A u \in S : children[u] \subseteq S
        /\ {u \in mapTx : Spends(u, t)} \subseteq S
        /\ \A D \in SUBSET mapTx : ChildrenOf(t) \subseteq D /\ (\A u \in D : children[u] \subseteq D) => S \subseteq D
    BY <1>1, <1>4, <1>7, RemovalFacts DEF PoolInv, IndexInv
  <1>9. S \cap ToSet(h) = {}
    <2> DEFINE D == mapTx \ Restored
    <2>1. ChildrenOf(t) \subseteq D
      <3>1. ChildrenOf(t) = {u \in mapTx : Spends(u, t)}
        BY <1>4, ChildrenFacts DEF PoolInv, IndexInv
      <3> QED
        BY <1>4, <1>6, <3>1
    <2>2. ASSUME NEW u \in D, NEW v \in children[u]
          PROVE  v \in D
      <3>1. v \in mapTx /\ u \in Txs /\ v \in Txs
        BY DEF PoolInv, IndexInv, LinksMutual, SpendersExact, Txs0
      <3>2. Spends(v, u)
        BY <3>1 DEF PoolInv, IndexInv, LinksReal
      <3> QED
        BY <1>4, <3>1, <3>2, RestoredFacts
    <2>3. S \subseteq D
      BY <1>8, <2>1, <2>2
    <2> QED
      BY <1>6, <1>8, <2>3
  <1>10. IsFamily(S) /\ Loses(S)
    <2>1. S \cap NotVisited = {}
      BY <1>6, <1>8, <1>9
    <2> QED
      BY <1>1, <1>7, <1>8, <2>1, LinkedFamilies, StagedLoses DEF PoolInv
  <1>11. RestoredInBlock'
    <2>1. ToSet(h) \subseteq {Vtx[b][k] : k \in 1 .. i}
      <3>1. \A k \in 1 .. i - 1 : k \in 1 .. i
        BY <1>4 DEF TipOf
      <3> QED
        BY <1>4, <3>1
    <2> QED
      BY <1>1, <1>4, <1>5, <2>1 DEF RestoredInBlock, Onwards
  <1>12. PoolIsUnconfirmed'
    <2>1. mapTx \cap Confirmed(pcoinsTip) = {} /\ mapTx \cap ToSet(Vtx[b]) \subseteq ToSet(h)
      BY <1>1, <1>4, <1>6, QuietFacts DEF PoolInv, PoolIsUnconfirmed
    <2> QED
      BY <1>1, <1>5, <1>10, <2>1 DEF PoolIsUnconfirmed, Onwards, Loses
  <1>13. InputsKnown'
    <2> SUFFICES ASSUME NEW y \in mapTx', NEW o \in Vin[y]
                 PROVE  Available(o)' \/ o[1] \in ToPutBack'
      BY DEF InputsKnown
    <2>1. y \in mapTx /\ y \notin S
      BY <1>10 DEF Loses
    <2>2. o[1] \notin S /\ o[1] # t
      BY <1>8, <1>10, <2>1 DEF IsFamily, Spends
    <2>3. Available(o) \/ o[1] \in ToPutBack
      BY <1>4, <2>1, QuietFacts DEF PoolInv, InputsKnown
    <2>4. CASE Available(o)
      BY <1>10, <2>2, <2>4 DEF Available, Loses
    <2>5. CASE o[1] \in ToPutBack
      <3>1. i \in Int
        BY <1>4
      <3>2. ToPutBack \subseteq {Vtx[b][k] : k \in i .. Len(Vtx[b])}
        <4>1. \A k \in i + 1 .. Len(Vtx[b]) : k \in i .. Len(Vtx[b])
          BY <1>4 DEF TipOf
        <4>2. \/ ToPutBack = {Vtx[b][k] : k \in i .. Len(Vtx[b])}
              \/ ToPutBack = {Vtx[b][k] : k \in i + 1 .. Len(Vtx[b])}
          BY <1>1, <1>2, <1>4, <3>1, ProgressFacts
        <4> QED
          BY <4>1, <4>2
      <3>3. PICK k \in i .. Len(Vtx[b]) : o[1] = Vtx[b][k]
        BY <2>5, <3>2
      <3>4. k \in i + 1 .. Len(Vtx[b])
        BY <1>2, <1>4, <2>2, <3>3 DEF TipOf
      <3> QED
        BY <1>5, <3>3, <3>4 DEF Onwards
    <2> QED
      BY <2>3, <2>4, <2>5
  <1>14. LinksComplete'
    <2>1. mapTx' \subseteq mapTx
      BY <1>10 DEF Loses
    <2> QED
      BY <1>5, <1>6, <1>10, <2>1, LosesLinks DEF Onwards
  <1> QED
    BY <1>11, <1>12, <1>13, <1>14 DEF PoolInv

(* A transaction that was put back and not evicted again is to be visited. *)
LEMMA PoolRestored ==
  ASSUME PoolInv, IndexInv', job.at = "accepted", Resurrected \in mapTx, UNCHANGED poolVars,
         job' = NextResurrect(Append(job.hashes, Resurrected)), UNCHANGED <<chainActive, pcoinsTip>>
  PROVE  PoolInv'
  <1>1. PICK b, d, i, h, t, g : /\ b = Last(chainActive) /\ d = Disconnecting /\ i = job.i /\ h = job.hashes
                                /\ t = Resurrected /\ g = Append(h, t)
    OBVIOUS
  <1>2. d = job /\ t = Vtx[b][i]
    BY <1>1 DEF Disconnecting, Resurrected
  <1>3. Putting(b, d)
    BY <1>1, <1>2, UndoingFacts
  <1>4. /\ Undoing /\ ~Doing /\ TipOf(chainActive, b, pcoinsTip) /\ i \in 1 .. Len(Vtx[b]) /\ h \in Seq(Txs)
        /\ ToSet(h) \subseteq {Vtx[b][k] : k \in 1 .. i - 1} /\ \A j, k \in 1 .. Len(h) : h[j] = h[k] => j = k
        /\ t \in Txs /\ t \notin ToSet(h)
    BY <1>1, <1>2, <1>3 DEF Putting, PuttingBack
  <1>5. /\ g \in Seq(Txs) /\ Len(g) = Len(h) + 1 /\ Len(h) \in Nat /\ g[Len(g)] = t
        /\ \A k \in 1 .. Len(h) : g[k] = h[k]
    BY <1>1, <1>4
  <1>6. ToSet(g) = ToSet(h) \cup {t}
    <2>1. ToSet(g) = {g[k] : k \in 1 .. Len(g)} /\ ToSet(h) = {h[k] : k \in 1 .. Len(h)}
      BY <1>4, <1>5 DEF ToSet
    <2>2. \A k : k \in 1 .. Len(g) <=> k \in 1 .. Len(h) \/ k = Len(g)
      BY <1>5
    <2> QED
      BY <1>5, <2>1, <2>2
  <1>7. Onwards(b, i, g)
    BY <1>1, <1>4, <1>5, OnwardsFacts
  <1>8. /\ UNCHANGED <<Restored, NotVisited, ToPutBack, mapTx, children>>
    <2>1. /\ Restored = ToSet(h) \cup {t} /\ NotVisited = Restored
          /\ ToPutBack = {Vtx[b][k] : k \in i + 1 .. Len(Vtx[b])}
      BY <1>1, <1>2, <1>4, ProgressFacts
    <2> QED
      BY <1>6, <1>7, <2>1 DEF Onwards, poolVars
  <1>9. RestoredInBlock'
    <2>1. ToSet(g) \subseteq {Vtx[b][k] : k \in 1 .. i}
      <3>1. i \in 1 .. i /\ \A k \in 1 .. i - 1 : k \in 1 .. i
        BY <1>4 DEF TipOf
      <3> QED
        BY <1>2, <1>4, <1>6, <3>1
    <2>2. ASSUME NEW j \in 1 .. Len(g), NEW k \in 1 .. Len(g), g[j] = g[k]
          PROVE  j = k
      <3>1. \A n \in 1 .. Len(h) : h[n] # t
        BY <1>4 DEF ToSet
      <3>2. (j \in 1 .. Len(h) \/ j = Len(g)) /\ (k \in 1 .. Len(h) \/ k = Len(g))
        BY <1>5
      <3> QED
        BY <1>4, <1>5, <2>2, <3>1, <3>2
    <2> QED
      BY <1>1, <1>7, <2>1, <2>2 DEF RestoredInBlock, Onwards
  <1>10. UNCHANGED <<ToRemove, ToConflict>>
    BY <1>4, <1>7, QuietFacts, QuietNext DEF Onwards
  <1> QED
    BY <1>4, <1>7, <1>8, <1>9, <1>10 DEF PoolInv, PoolIsUnconfirmed, InputsKnown, LinksComplete, Available, Spends, Onwards

(* Both outcomes of a transaction of the block that is disconnected *)
LEMMA PoolResurrect ==
  ASSUME PoolInv, IndexInv', ResurrectRefuse \/ ResurrectDone
  PROVE  PoolInv'
  <1>1. CASE ResurrectRefuse
    <2>1. /\ job.at = "resurrect" /\ RemoveStaged(Removal(Resurrected)) /\ job' = NextResurrect(job.hashes)
          /\ UNCHANGED <<chainActive, pcoinsTip>>
      BY <1>1 DEF ResurrectRefuse, chainVars
    <2>2. PICK b, d : b = Last(chainActive) /\ d = Disconnecting
      OBVIOUS
    <2>3. d = job
      BY <2>1, <2>2 DEF Disconnecting
    <2>4. Putting(b, d)
      BY <2>1, <2>2, <2>3, UndoingFacts
    <2>5. Resurrected \in ToSet(Vtx[b]) /\ Resurrected \notin ToSet(job.hashes) /\ Undoing
      BY <2>2, <2>3, <2>4 DEF Putting, TipOf, Resurrected
    <2>6. Restored = ToSet(job.hashes)
      BY <2>1, <2>2, <2>3, <2>5, ProgressFacts
    <2>7. Resurrected \notin mapTx
      BY <2>2, <2>5, <2>6 DEF PoolInv, PoolIsUnconfirmed
    <2> QED
      BY <2>1, <2>7, PoolRefuse
  <1>2. CASE ResurrectDone
    BY <1>2, PoolRefuse, PoolRestored DEF ResurrectDone, chainVars
  <1> QED
    BY <1>1, <1>2

(* UpdateTransactionsFromBlock completes the links of one transaction. *)
LEMMA PoolUpdate ==
  ASSUME PoolInv, IndexInv', UpdateTransactionsFromBlock
  PROVE  PoolInv'
  <1>1. /\ job.at = "update" /\ job.i > 0 /\ job' = [job EXCEPT !.i = @ - 1] /\ UNCHANGED <<chainActive, pcoinsTip>>
        /\ job.hashes[job.i] \notin mapTx => UNCHANGED poolVars
    BY DEF UpdateTransactionsFromBlock, chainVars
  <1>2. PICK b, i, h, t : b = Last(chainActive) /\ i = job.i /\ h = job.hashes /\ t = h[i]
    OBVIOUS
  <1>3. job \in PuttingBack({"update"}) /\ Disconnecting = job
    BY <1>1, JobFacts DEF PoolInv, IndexInv, Chains, Disconnecting
  <1>4. /\ job'.at = "update" /\ job'.hashes = h /\ job'.i = i - 1 /\ i \in 1 .. Len(h) /\ h \in Seq(Txs)
        /\ Disconnecting' = job'
    <2>1. job'.at = "update" /\ job'.hashes = h /\ job'.i = i - 1 /\ i \in Nat /\ h \in Seq(Txs)
      BY <1>1, <1>2, <1>3 DEF PuttingBack
    <2>2. i \in 0 .. Len(h)
      BY <1>1, <1>2, <1>3 DEF PoolInv, IndexInv, Chains
    <2> QED
      BY <1>1, <1>2, <2>1, <2>2 DEF Disconnecting
  <1>5. Undoing /\ Undoing' /\ ~Doing /\ ~Doing'
    BY <1>1, <1>3, <1>4 DEF Undoing, Doing
  <1>6. /\ Restored = ToSet(h) /\ Restored' = ToSet(h) /\ ToPutBack' = ToPutBack /\ Before' = Before
        /\ NotVisited = {h[k] : k \in 1 .. i} /\ NotVisited' = {h[k] : k \in 1 .. i - 1}
    <2>1. /\ Restored = ToSet(h) /\ Before = Len(Vtx[b]) /\ NotVisited = {h[k] : k \in 1 .. i}
          /\ ToPutBack = {Vtx[b][k] : k \in Len(Vtx[b]) + 1 .. Len(Vtx[b])}
      BY <1>1, <1>2, <1>3, <1>5, ProgressFacts
    <2>2. PICK n : n = job'
      OBVIOUS
    <2>3. n.at = "update" /\ n.hashes = h /\ n.i = i - 1 /\ n = Disconnecting' /\ b = Last(chainActive')
      BY <1>1, <1>2, <1>4, <2>2
    <2>4. /\ Restored' = ToSet(h) /\ Before' = Len(Vtx[b]) /\ NotVisited' = {h[k] : k \in 1 .. n.i}
          /\ ToPutBack' = {Vtx[b][k] : k \in Len(Vtx[b]) + 1 .. Len(Vtx[b])}
      BY <1>4, <1>5, <2>3, ProgressNext
    <2> QED
      BY <2>1, <2>3, <2>4
  <1>7. \A j, k \in 1 .. Len(h) : h[j] = h[k] => j = k
    BY <1>2, <1>3, <1>5 DEF PoolInv, RestoredInBlock
  <1>8. RestoredInBlock'
    BY <1>1, <1>2, <1>3, <1>4, <1>5, <1>6 DEF PoolInv, RestoredInBlock
  <1>9. \A x : x \in NotVisited' <=> x \in NotVisited /\ x # t
    <2>1. \A k : k \in 1 .. i <=> k \in 1 .. i - 1 \/ k = i
      BY <1>4
    <2>2. \A k \in 1 .. i - 1 : k \in 1 .. Len(h) /\ k # i
      BY <1>4
    <2>3. \A k \in 1 .. i - 1 : h[k] # t
      BY <1>2, <1>4, <1>7, <2>2
    <2> QED
      BY <1>2, <1>6, <2>1, <2>3
  <1>10. t \in NotVisited /\ mapTx \subseteq Txs
    BY <1>2, <1>4, <1>6 DEF PoolInv, IndexInv, SpendersExact, Txs0
  <1>11. /\ UNCHANGED mapTx
         /\ t \notin mapTx => UNCHANGED children
         /\ t \in mapTx => \A x \in Txs, u \in Txs :
               u \in children'[x] <=> \/ u \in children[x]
                                      \/ x = t /\ u \in mapTx /\ Spends(u, t) /\ u \notin ToSet(h)
    <2>1. CASE t \notin mapTx
      BY <1>1, <1>2, <2>1 DEF poolVars
    <2>2. CASE t \in mapTx
      BY <1>2, <2>2, UpdateFacts DEF PoolInv, IndexInv
    <2> QED
      BY <2>1, <2>2
  <1>12. LinksComplete'
    <2> SUFFICES ASSUME NEW x \in mapTx, NEW y \in mapTx
                 PROVE  y \in children'[x] <=> Spends(y, x) /\ (x \in NotVisited' => y \in Restored')
      BY <1>11 DEF LinksComplete, Spends
    <2>1. y \in children[x] <=> Spends(y, x) /\ (x \in NotVisited => y \in Restored)
      BY DEF PoolInv, LinksComplete
    <2>2. CASE x = t
      BY <1>6, <1>9, <1>10, <1>11, <2>1, <2>2
    <2>3. CASE x # t
      BY <1>6, <1>9, <1>10, <1>11, <2>1, <2>3
    <2> QED
      BY <2>2, <2>3
  <1>13. UNCHANGED <<ToRemove, ToConflict>>
    BY <1>5, QuietFacts, QuietNext
  <1>14. PoolIsUnconfirmed' /\ InputsKnown'
    BY <1>1, <1>5, <1>6, <1>11, <1>13 DEF PoolInv, PoolIsUnconfirmed, InputsKnown, Available
  <1> QED
    BY <1>8, <1>12, <1>14 DEF PoolInv

(* Every transaction that was put back is visited and the chain follows    *)
(* the coin view.                                                          *)
LEMMA PoolTipDisconnected ==
  ASSUME PoolInv, IndexInv', TipDisconnected
  PROVE  PoolInv'
  <1>1. /\ job.at = "update" /\ job.i = 0 /\ job' = [at |-> "disconnected", op |-> job.op]
        /\ UNCHANGED <<poolVars, pcoinsTip>>
    BY DEF TipDisconnected
  <1>2. Disconnecting = job /\ Undoing /\ ~Doing /\ ~Undoing' /\ ~Doing'
    BY <1>1 DEF Disconnecting, Undoing, Doing
  <1>3. PICK b : b = Last(chainActive)
    OBVIOUS
  <1>4. NotVisited = {} /\ ToPutBack = {}
    <2>1. /\ NotVisited = {job.hashes[k] : k \in 1 .. 0}
          /\ ToPutBack = {Vtx[b][k] : k \in Len(Vtx[b]) + 1 .. Len(Vtx[b])}
      BY <1>1, <1>2, <1>3, ProgressFacts
    <2>2. Len(Vtx[b]) \in Nat
      <3>1. b \in Blocks
        BY <1>3 DEF PoolInv, IndexInv, Chains, ValidChain, Last
      <3> QED
        BY <3>1, BlockFacts
    <2>3. (\A k \in 1 .. 0 : FALSE) /\ \A k \in Len(Vtx[b]) + 1 .. Len(Vtx[b]) : FALSE
      BY <2>2
    <2> QED
      BY <2>1, <2>3
  <1>5. UNCHANGED <<mapTx, children>>
    BY <1>1 DEF poolVars
  <1>6. RestoredInBlock'
    BY <1>2 DEF RestoredInBlock
  <1>7. PoolIsUnconfirmed' /\ InputsKnown'
    BY <1>1, <1>2, <1>4, <1>5, QuietFacts, QuietNext DEF PoolInv, PoolIsUnconfirmed, InputsKnown, Available
  <1>8. LinksComplete'
    BY <1>2, <1>4, <1>5, QuietNext DEF PoolInv, LinksComplete, Spends
  <1> QED
    BY <1>6, <1>7, <1>8 DEF PoolInv

-----------------------------------------------------------------------------
(* The empty pool *)
LEMMA PoolInit ==
  ASSUME Init
  PROVE  PoolInv
  <1>1. IndexInv
    BY IndexInit
  <1>2. mapTx = {} /\ job = Idle
    BY DEF Init
  <1>3. ~Undoing
    BY <1>2 DEF Undoing, Disconnecting, Idle
  <1> QED
    BY <1>1, <1>2, <1>3 DEF PoolInv, RestoredInBlock, PoolIsUnconfirmed, InputsKnown, LinksComplete

(* Every step keeps the pool, as long as evictions take families. *)
LEMMA PoolNext ==
  ASSUME PoolInv, EvictsFamilies, [Next]_vars
  PROVE  PoolInv'
  <1>1. IndexInv'
    BY IndexNext DEF PoolInv
  <1>2. CASE UNCHANGED vars
    <2>1. UNCHANGED <<mapTx, children, chainActive, pcoinsTip, job>>
      BY <1>2 DEF vars, poolVars, chainVars
    <2>2. UNCHANGED <<Disconnecting, Undoing, Doing, Handled, Before, Restored, NotVisited, ToPutBack, ToRemove, ToConflict>>
      BY <2>1 DEF Disconnecting, Undoing, Doing, Handled, Before, Restored, NotVisited, ToPutBack, ToRemove, ToConflict
    <2> QED
      BY <1>1, <2>1, <2>2 DEF PoolInv, RestoredInBlock, PoolIsUnconfirmed, InputsKnown, LinksComplete, Available, Spends
  <1>3. CASE \E t \in Txs : AcceptToMemoryPool(t)
    BY <1>1, <1>3, PoolAccept
  <1>4. CASE Trim \/ TrimDone
    BY <1>1, <1>4, PoolQuiet, PoolTrimInside, PoolTrimDone DEF Quiet
  <1>5. CASE \/ Expire \/ StepDone \/ StepFails \/ InvalidateDone \/ ReplayDone \/ RemoveForReorg \/ PurgeOne \/ PurgeDone
    BY <1>1, <1>5, PoolQuiet DEF Quiet
  <1>6. CASE \E op \in {"reorg", "invalidate", "replay"} : DisconnectTip(op)
    BY <1>1, <1>6, PoolDisconnect
  <1>7. CASE ResurrectAccept \/ ResurrectRefuse \/ ResurrectDone
    BY <1>1, <1>7, PoolResurrectAccept, PoolResurrect
  <1>8. CASE UpdateTransactionsFromBlock \/ TipDisconnected
    BY <1>1, <1>8, PoolUpdate, PoolTipDisconnected
  <1>9. CASE \E b \in Blocks : ConnectTip(b)
    BY <1>1, <1>9, PoolConnect
  <1>10. CASE RemoveForBlock \/ RemoveConflicts
    BY <1>1, <1>10, PoolRemoveForBlock, PoolRemoveConflicts
  <1> QED
    BY <1>2, <1>3, <1>4, <1>5, <1>6, <1>7, <1>8, <1>9, <1>10 DEF Next

(* As long as evictions inside a reorganisation take whole families, the   *)
(* pool is right at every step: no transaction of it is in the chain,      *)
(* every input is there or about to be dealt with, and only the links that *)
(* UpdateTransactionsFromBlock is about to add are missing.                *)
THEOREM PoolInvariant == Spec /\ []EvictsFamilies => []PoolInv
  <1>1. Init => PoolInv
    BY PoolInit
  <1>2. PoolInv /\ EvictsFamilies /\ [Next]_vars => PoolInv'
    BY PoolNext
  <1> QED
    BY <1>1, <1>2, PTL DEF Spec

(* mapLinks agrees with mapNextTx (the assertions of CTxMemPool::check),   *)
(* in the middle of a reorganisation too.                                  *)
THEOREM PoolLinksExact == Spec /\ []EvictsFamilies => []LinksExact
  <1>1. PoolInv => LinksExact
    <2> SUFFICES ASSUME PoolInv
                 PROVE  LinksExact
      OBVIOUS
    <2>1. SpendersExact /\ LinksMutual /\ LinksReal /\ mapTx \subseteq Txs
      BY DEF PoolInv, IndexInv, SpendersExact, Txs0
    <2>2. ASSUME NEW t \in mapTx
          PROVE  /\ children[t] = ChildrenOf(t) \ Unlinked(t)
                 /\ parents[t] = {p \in ParentsOf(t) : t \notin Unlinked(p)}
      <3>1. ChildrenOf(t) = {u \in mapTx : Spends(u, t)} /\ ParentsOf(t) = {u \in mapTx : Spends(t, u)}
        BY <2>1, ChildrenFacts
      <3>2. children[t] \subseteq mapTx /\ parents[t] \subseteq mapTx
        BY <2>1 DEF LinksMutual
      <3>3. \A u \in mapTx : u \in children[t] <=> Spends(u, t) /\ (t \in NotVisited => u \in Restored)
        BY DEF PoolInv, LinksComplete
      <3>4. children[t] = ChildrenOf(t) \ Unlinked(t)
        BY <3>1, <3>2, <3>3 DEF Unlinked
      <3>5. \A p \in mapTx : p \in parents[t] <=> Spends(t, p) /\ (p \in NotVisited => t \in Restored)
        BY <2>1 DEF PoolInv, LinksComplete, LinksMutual
      <3>6. ASSUME NEW p \in mapTx, Spends(t, p)
            PROVE  t \in Unlinked(p) <=> p \in NotVisited /\ t \notin Restored
        <4>1. t \in ChildrenOf(p)
          BY <2>1, <3>6, ChildrenFacts
        <4> QED
          BY <4>1 DEF Unlinked
      <3>7. parents[t] = {p \in ParentsOf(t) : t \notin Unlinked(p)}
        BY <3>1, <3>2, <3>5, <3>6
      <3> QED
        BY <3>4, <3>7
    <2> QED
      BY <2>1, <2>2 DEF LinksExact, SpendersExact
  <1> QED
    BY <1>1, PoolInvariant, PTL

(* After every connected or disconnected block every input of the pool is  *)
(* an unspent coin or an output of another transaction of the pool.        *)
THEOREM PoolInputsAvailable == Spec /\ []EvictsFamilies => []InputsAvailable
  <1>1. PoolInv => InputsAvailable
    <2> SUFFICES ASSUME PoolInv, Settled
                 PROVE  \A t \in mapTx : \A o \in Vin[t] : Available(o)
      BY DEF InputsAvailable
    <2>1. chainActive = pcoinsTip
      BY DEF Settled
    <2>2. chainActive \in Seq(Blocks) /\ pcoinsTip \in Seq(Blocks)
      BY DEF PoolInv, IndexInv, Chains, ValidChain
    <2>3. ~Undoing
      <3>1. Undoing => Len(chainActive) > 1 /\ Len(pcoinsTip) = Len(chainActive) - 1
        BY <2>2, FrontFacts DEF PoolInv, IndexInv, Chains
      <3>2. Len(chainActive) \in Nat
        BY <2>2
      <3> QED
        BY <2>1, <3>1, <3>2
    <2>4. ~Doing
      <3>1. Doing => Len(pcoinsTip) > 1 /\ Len(chainActive) = Len(pcoinsTip) - 1
        BY <2>2, FrontFacts DEF PoolInv, IndexInv, Chains
      <3>2. Len(pcoinsTip) \in Nat
        BY <2>2
      <3> QED
        BY <2>1, <3>1, <3>2
    <2> QED
      BY <2>3, <2>4, QuietFacts DEF PoolInv, InputsKnown
  <1> QED
    BY <1>1, PoolInvariant, PTL

-----------------------------------------------------------------------------
(* Packages *)

(* m is a pool with links c, in which t reaches exactly the transactions   *)
(* of R.                                                                   *)
Reaches(m, c, t, R) ==
    /\ t \in R /\ R \subseteq m /\ \A x \in R : c[x] \subseteq R
    /\ \A D \in SUBSET m : t \in D /\ (\A x \in D : c[x] \subseteq D) => R \subseteq D

(* Descendants are what is reached through the links, *)
LEMMA DescendantsReach ==
  SpendersExact /\ LinksMutual => \A t \in mapTx : Reaches(mapTx, children, t, CalculateDescendants({t}))
  <1> SUFFICES ASSUME SpendersExact, LinksMutual, NEW t \in mapTx
               PROVE  Reaches(mapTx, children, t, CalculateDescendants({t}))
    OBVIOUS
  <1>1. {t} \in SUBSET mapTx
    OBVIOUS
  <1> QED
    BY <1>1, DescendantsFacts DEF Reaches

(* after a step too. *)
LEMMA DescendantsReachNext ==
  SpendersExact' /\ LinksMutual' => \A t \in mapTx' : Reaches(mapTx', children', t, CalculateDescendants({t})')
  <1>1. (SpendersExact /\ LinksMutual => \A t \in mapTx : Reaches(mapTx, children, t, CalculateDescendants({t})))'
    BY DescendantsReach, PTL
  <1> QED
    BY <1>1 DEF Reaches

(* A transaction has another one among its ancestors if that one has it    *)
(* among its descendants.                                                  *)
LEMMA AncestorsFacts ==
  ASSUME SpendersExact, LinksMutual, NEW a \in mapTx, NEW S \in SUBSET mapTx
  PROVE  a \in Closure(S, parents) <=> S \cap CalculateDescendants({a}) # {}
  <1>1. mapTx \subseteq Txs /\ \A t \in mapTx : parents[t] \subseteq mapTx /\ children[t] \subseteq mapTx
    BY DEF SpendersExact, LinksMutual, Txs0
  <1>2. PICK A : A = Closure(S, parents)
    OBVIOUS
  <1>3. /\ S \subseteq A /\ A \subseteq mapTx /\ \A t \in A : parents[t] \subseteq A
        /\ \A D \in SUBSET mapTx : S \subseteq D /\ (\A t \in D : parents[t] \subseteq D) => A \subseteq D
    BY <1>1, <1>2, ClosureFacts
  <1>4. \A x \in mapTx : Reaches(mapTx, children, x, CalculateDescendants({x}))
    BY DescendantsReach
  <1>5. ASSUME a \in A
        PROVE  S \cap CalculateDescendants({a}) # {}
    <2> DEFINE D == {x \in mapTx : S \cap CalculateDescendants({x}) # {}}
    <2>1. S \subseteq D
      BY <1>4 DEF Reaches
    <2>2. ASSUME NEW x \in D, NEW p \in parents[x]
          PROVE  p \in D
      <3>1. p \in mapTx /\ x \in children[p]
        BY <1>1 DEF LinksMutual
      <3>2. x \in CalculateDescendants({p})
        BY <1>4, <3>1 DEF Reaches
      <3>3. CalculateDescendants({x}) \subseteq CalculateDescendants({p})
        BY <1>4, <3>1, <3>2 DEF Reaches
      <3> QED
        BY <3>1, <3>3
    <2>3. A \subseteq D
      BY <1>3, <2>1, <2>2
    <2> QED
      BY <1>5, <2>3
  <1>6. ASSUME a \notin A
        PROVE  S \cap CalculateDescendants({a}) = {}
    <2> DEFINE D == mapTx \ A
    <2>1. \A x \in D : children[x] \subseteq D
      BY <1>1, <1>3 DEF LinksMutual
    <2>2. CalculateDescendants({a}) \subseteq D
      BY <1>4, <1>6, <2>1 DEF Reaches
    <2> QED
      BY <1>3, <2>2
  <1> QED
    BY <1>2, <1>5, <1>6

(* The same for two transactions of the pool *)
LEMMA AncestorIffDescendant ==
  ASSUME SpendersExact, LinksMutual, NEW t \in mapTx, NEW v \in mapTx, t # v
  PROVE  t \in AncestorsOf(v) <=> v \in CalculateDescendants({t})
  <1>1. parents[v] \in SUBSET mapTx /\ mapTx \subseteq Txs
    BY DEF LinksMutual, SpendersExact, Txs0
  <1>2. t \in AncestorsOf(v) <=> parents[v] \cap CalculateDescendants({t}) # {}
    BY <1>1, AncestorsFacts DEF AncestorsOf
  <1>3. PICK R : R = CalculateDescendants({t})
    OBVIOUS
  <1>4. Reaches(mapTx, children, t, R)
    BY <1>3, DescendantsReach
  <1>5. ASSUME NEW p \in parents[v] \cap R
        PROVE  v \in R
    BY <1>1, <1>4 DEF Reaches, LinksMutual
  <1>6. ASSUME v \in R, parents[v] \cap R = {}
        PROVE  FALSE
    <2>1. \A x \in R \ {v} : children[x] \subseteq R \ {v}
      BY <1>1, <1>4, <1>6 DEF Reaches, LinksMutual
    <2>2. R \ {v} \in SUBSET mapTx /\ t \in R \ {v}
      BY <1>4 DEF Reaches
    <2>3. R \subseteq R \ {v}
      BY <1>4, <2>1, <2>2 DEF Reaches
    <2> QED
      BY <1>6, <2>3
  <1> QED
    BY <1>2, <1>3, <1>5, <1>6

(* Descendants when a set is lost that takes the descendants with it *)
LEMMA DescendantsLost ==
  ASSUME NEW m, NEW c, NEW n, NEW d, NEW S \in SUBSET m, n = m \ S, NEW t \in n, NEW R, NEW Q,
         \A x \in m : c[x] \subseteq m, \A x \in n : d[x] \subseteq n, \A x, y \in n : y \in d[x] <=> y \in c[x],
         Reaches(m, c, t, R), Reaches(n, d, t, Q), \A x \in S \cap R : c[x] \subseteq S
  PROVE  Q = R \ S
  <1>1. Q \subseteq R \ S
    <2>1. R \ S \in SUBSET n /\ t \in R \ S /\ \A x \in R \ S : d[x] \subseteq R \ S
      BY DEF Reaches
    <2> QED
      BY <2>1 DEF Reaches
  <1>2. R \subseteq Q \cup S
    <2> DEFINE Y == R \cap (Q \cup S)
    <2>1. Y \in SUBSET m /\ t \in Y
      BY DEF Reaches
    <2>2. \A x \in Y : c[x] \subseteq Y
      BY DEF Reaches
    <2> QED
      BY <2>1, <2>2 DEF Reaches
  <1> QED
    BY <1>1, <1>2

(* The pool m with links c grows by t, with the parents P and no children. *)
Grows(m, c, n, d, t, P) ==
    /\ t \notin m /\ P \subseteq m /\ n = m \cup {t} /\ d[t] = {}
    /\ \A x \in m : c[x] \subseteq m /\ d[x] = IF x \in P THEN c[x] \cup {t} ELSE c[x]

(* Descendants when a transaction is added below its parents *)
LEMMA DescendantsAdded ==
  ASSUME NEW m, NEW c, NEW n, NEW d, NEW t, NEW P, Grows(m, c, n, d, t, P), NEW u \in m, NEW R, NEW Q,
         Reaches(m, c, u, R), Reaches(n, d, u, Q)
  PROVE  (P \cap R # {} => Q = R \cup {t}) /\ (P \cap R = {} => Q = R)
  <1>1. R \subseteq Q
    <2>1. Q \cap m \in SUBSET m /\ u \in Q \cap m /\ \A x \in Q \cap m : c[x] \subseteq Q \cap m
      BY DEF Reaches, Grows
    <2> QED
      BY <2>1 DEF Reaches, Grows
  <1>2. CASE P \cap R # {}
    <2>1. t \in Q
      BY <1>1, <1>2 DEF Reaches, Grows
    <2>2. R \cup {t} \in SUBSET n /\ u \in R \cup {t} /\ \A x \in R \cup {t} : d[x] \subseteq R \cup {t}
      <3>1. ASSUME NEW x \in R
            PROVE  d[x] \subseteq R \cup {t}
        <4>1. x \in m /\ c[x] \subseteq R
          BY <3>1 DEF Reaches
        <4> QED
          BY <4>1 DEF Grows
      <3>2. d[t] \subseteq R \cup {t}
        BY DEF Grows
      <3> QED
        BY <3>1, <3>2 DEF Reaches, Grows
    <2>3. Q \subseteq R \cup {t}
      BY <2>2 DEF Reaches, Grows
    <2> QED
      BY <1>1, <1>2, <2>1, <2>3
  <1>3. CASE P \cap R = {}
    <2>1. R \in SUBSET n /\ u \in R /\ \A x \in R : d[x] \subseteq R
      BY <1>3 DEF Reaches, Grows
    <2>2. Q \subseteq R
      BY <2>1 DEF Reaches, Grows
    <2> QED
      BY <1>1, <1>3, <2>2
  <1> QED
    BY <1>2, <1>3

(* Counting once *)
LEMMA CountingFacts ==
  ASSUME NEW S, NEW T
  PROVE  /\ Counting(NoPackage, S) = [u \in Txs |-> IF u \in S THEN 1 ELSE 0]
         /\ NoPackage = [u \in Txs |-> 0]
         /\ S \cap T = {} => Counting(Counting(NoPackage, S), T) = Counting(NoPackage, S \cup T)
         /\ \A t \in Txs : t \in S => Counting(NoPackage, S) # NoPackage
         /\ Counting(NoPackage, S) \in [Txs -> Nat] /\ NoPackage \in [Txs -> Nat]
  <1>1. Counting(NoPackage, S) = [u \in Txs |-> IF u \in S THEN 1 ELSE 0]
    BY DEF Counting, NoPackage
  <1>2. Counting(NoPackage, S \cup T) = [u \in Txs |-> IF u \in S \cup T THEN 1 ELSE 0]
    BY DEF Counting, NoPackage
  <1>3. NoPackage = [u \in Txs |-> 0]
    BY DEF NoPackage
  <1>4. ASSUME S \cap T = {}
        PROVE  Counting(Counting(NoPackage, S), T) = Counting(NoPackage, S \cup T)
    BY <1>1, <1>2, <1>4 DEF Counting
  <1>5. \A t \in Txs : t \in S => Counting(NoPackage, S) # NoPackage
    <2> TAKE t \in Txs
    <2> HAVE t \in S
    <2>1. Counting(NoPackage, S)[t] = 1 /\ NoPackage[t] = 0
      BY <1>1, <1>3
    <2> QED
      BY <2>1
  <1> QED
    BY <1>1, <1>3, <1>4, <1>5

-----------------------------------------------------------------------------
(* What a step other than UpdateTransactionsFromBlock does to the          *)
(* transactions that were put back: all or none of them are to be visited, *)
(* and none that is in the pool already is to be visited anew.             *)
Visits ==
    /\ NotVisited = Restored \/ NotVisited = {}
    /\ NotVisited' = Restored'
    /\ \A t \in mapTx : t \in mapTx' /\ t \in NotVisited' => t \in NotVisited
    /\ RestoredInOrder'

(* Steps of which none has anything put back *)
LEMMA VisitsQuiet ==
  ASSUME ~Undoing, ~Undoing'
  PROVE  Visits
  BY QuietFacts, QuietNext DEF Visits, RestoredInOrder

(* DisconnectTip *)
LEMMA VisitsDisconnect ==
  ASSUME NEW op, DisconnectTip(op)
  PROVE  Visits
  <1>1. /\ job = Idle \/ job.at = "disconnected"
        /\ job' = [at |-> "resurrect", op |-> op, i |-> 1, hashes |-> <<>>]
    BY DEF DisconnectTip
  <1>2. ~Undoing /\ Undoing'
    BY <1>1 DEF Undoing, Disconnecting, Idle
  <1>3. Restored' = {} /\ NotVisited' = {} /\ Disconnecting'.hashes = <<>>
    <2>1. job'.at = "resurrect" /\ job'.hashes = <<>>
      BY <1>1
    <2>2. ToSet(<<>>) = {}
      BY DEF ToSet
    <2> QED
      BY <2>1, <2>2 DEF Restored, NotVisited, Disconnecting
  <1> QED
    BY <1>2, <1>3, QuietFacts DEF Visits, RestoredInOrder

(* A transaction is put back. *)
LEMMA VisitsResurrectAccept ==
  ASSUME PoolInv, RestoredInOrder, ResurrectAccept
  PROVE  Visits
  <1>1. /\ job.at = "resurrect" /\ Acceptable(Resurrected)
        /\ job' = [at |-> "trim", then |-> [job EXCEPT !.at = "accepted"]] /\ UNCHANGED chainActive
    BY DEF ResurrectAccept, chainVars
  <1>2. PICK b, a : b = Last(chainActive) /\ a = [job EXCEPT !.at = "accepted"]
    OBVIOUS
  <1>3. job \in PuttingBack({"resurrect"}) /\ Disconnecting = job
    BY <1>1, JobFacts DEF PoolInv, IndexInv, Chains, Disconnecting
  <1>4. a.at = "accepted" /\ a.i = job.i /\ a.hashes = job.hashes
    BY <1>2, <1>3 DEF PuttingBack
  <1>5. Disconnecting' = a /\ Undoing /\ Undoing' /\ b = Last(chainActive')
    BY <1>1, <1>2, <1>3, <1>4 DEF Disconnecting, Undoing
  <1>6. /\ Restored = ToSet(job.hashes) /\ NotVisited = Restored
        /\ Restored' = ToSet(job.hashes) \cup {Resurrected} /\ NotVisited' = Restored'
    <2>1. PICK d : d = Disconnecting
      OBVIOUS
    <2>2. Restored = ToSet(d.hashes) /\ NotVisited = Restored
      BY <1>1, <1>2, <1>3, <1>5, <2>1, ProgressFacts
    <2>3. Restored' = ToSet(a.hashes) \cup {Vtx[b][a.i]} /\ NotVisited' = Restored'
      BY <1>4, <1>5, ProgressNext
    <2> QED
      BY <1>2, <1>3, <1>4, <2>1, <2>2, <2>3 DEF Resurrected
  <1>7. Resurrected \notin mapTx
    BY <1>1 DEF Acceptable
  <1>8. RestoredInOrder'
    BY <1>3, <1>4, <1>5 DEF RestoredInOrder, Spends
  <1> QED
    BY <1>6, <1>7, <1>8 DEF Visits

(* Evictions between the transactions that are put back, and their end *)
LEMMA VisitsTrim ==
  ASSUME RestoredInOrder, job.then.at = "accepted", Trim \/ TrimDone
  PROVE  Visits
  <1>1. job.at = "trim" /\ job' \in {job, job.then} /\ UNCHANGED <<chainActive, pcoinsTip>>
    BY DEF Trim, TrimDone, chainVars
  <1>2. UNCHANGED <<Disconnecting, Undoing, Restored>>
    BY <1>1 DEF Disconnecting, Undoing, Restored
  <1>3. NotVisited = Restored /\ NotVisited' = Restored'
    BY <1>1 DEF NotVisited
  <1> QED
    BY <1>2, <1>3 DEF Visits, RestoredInOrder, Spends

(* A transaction of the block is refused, or gone again, *)
LEMMA VisitsRefuse ==
  ASSUME PoolInv, RestoredInOrder, job.at \in {"resurrect", "accepted"}, job' = NextResurrect(job.hashes),
         Resurrected \notin mapTx \/ job.at = "resurrect", UNCHANGED <<chainActive, pcoinsTip>>
  PROVE  Visits
  <1>1. PICK b, d, i, h, t : /\ b = Last(chainActive) /\ d = Disconnecting /\ i = job.i /\ h = job.hashes
                             /\ t = Resurrected
    OBVIOUS
  <1>2. d = job /\ t = Vtx[b][i] /\ Undoing
    BY <1>1 DEF Disconnecting, Resurrected, Undoing
  <1>3. h \in Seq(Txs)
    BY <1>1, JobFacts DEF PoolInv, IndexInv, Chains, PuttingBack
  <1>4. Onwards(b, i, h)
    BY <1>1, <1>3, OnwardsFacts
  <1>5. NotVisited = Restored /\ ToSet(h) \subseteq Restored
    BY <1>1, <1>2, ProgressFacts
  <1>6. RestoredInOrder'
    BY <1>1, <1>2, <1>4 DEF Onwards, RestoredInOrder, Spends
  <1> QED
    BY <1>4, <1>5, <1>6 DEF Visits, Onwards

(* or is in the pool: nothing put back before spends it. *)
LEMMA VisitsRestored ==
  ASSUME PoolInv, RestoredInOrder, job.at = "accepted",
         job' = NextResurrect(Append(job.hashes, Resurrected)), UNCHANGED <<chainActive, pcoinsTip>>
  PROVE  Visits
  <1>1. PICK b, d, i, h, t, g : /\ b = Last(chainActive) /\ d = Disconnecting /\ i = job.i /\ h = job.hashes
                                /\ t = Resurrected /\ g = Append(h, t)
    OBVIOUS
  <1>2. d = job /\ t = Vtx[b][i] /\ Undoing
    BY <1>1 DEF Disconnecting, Resurrected, Undoing
  <1>3. Putting(b, d)
    BY <1>1, <1>2, UndoingFacts
  <1>4. h \in Seq(Txs) /\ t \in Txs /\ ~Spends(t, t) /\ \A x \in ToSet(h) : ~Spends(x, t)
    BY <1>1, <1>2, <1>3 DEF Putting, PuttingBack
  <1>5. /\ g \in Seq(Txs) /\ Len(g) = Len(h) + 1 /\ Len(h) \in Nat /\ g[Len(g)] = t
        /\ \A k \in 1 .. Len(h) : g[k] = h[k] /\ h[k] \in ToSet(h)
        /\ \A k : k \in 1 .. Len(g) <=> k \in 1 .. Len(h) \/ k = Len(g)
    BY <1>1, <1>4 DEF ToSet
  <1>6. ToSet(g) = ToSet(h) \cup {t}
    <2>1. ToSet(g) = {g[k] : k \in 1 .. Len(g)} /\ ToSet(h) = {h[k] : k \in 1 .. Len(h)}
      BY <1>4, <1>5 DEF ToSet
    <2> QED
      BY <1>5, <2>1
  <1>7. Onwards(b, i, g)
    BY <1>1, <1>4, <1>5, OnwardsFacts
  <1>8. NotVisited = Restored /\ Restored = ToSet(h) \cup {t}
    BY <1>1, <1>2, ProgressFacts
  <1>9. ASSUME NEW j \in 1 .. Len(g), NEW k \in 1 .. Len(g), Spends(g[j], g[k])
        PROVE  k < j
    <2>1. \A m, n \in 1 .. Len(h) : Spends(h[m], h[n]) => n < m
      BY <1>1, <1>2 DEF RestoredInOrder
    <2>2. k # Len(g)
      BY <1>4, <1>5, <1>9
    <2>3. CASE j = Len(g)
      BY <1>5, <2>2, <2>3
    <2>4. CASE j # Len(g)
      BY <1>5, <1>9, <2>1, <2>2, <2>4
    <2> QED
      BY <2>3, <2>4
  <1>10. RestoredInOrder'
    BY <1>7, <1>9 DEF Onwards, RestoredInOrder, Spends
  <1> QED
    BY <1>6, <1>7, <1>8, <1>10 DEF Visits, Onwards

(* A step other than UpdateTransactionsFromBlock *)
LEMMA StepVisits ==
  ASSUME PoolInv, RestoredInOrder, Next, ~UpdateTransactionsFromBlock
  PROVE  Visits
  <1>1. job \in Job
    BY DEF PoolInv, IndexInv, Chains
  <1>2. CASE Quiet
    BY <1>1, <1>2, QuietSteps, VisitsQuiet
  <1>3. CASE \E t \in Txs : AcceptToMemoryPool(t)
    <2>1. ~Undoing /\ ~Undoing'
      BY <1>3 DEF AcceptToMemoryPool, Undoing, Disconnecting, Idle
    <2> QED
      BY <2>1, VisitsQuiet
  <1>4. CASE (Trim \/ TrimDone) /\ job.then.at = "accepted"
    BY <1>4, VisitsTrim
  <1>5. CASE \E op \in {"reorg", "invalidate", "replay"} : DisconnectTip(op)
    BY <1>5, VisitsDisconnect
  <1>6. CASE ResurrectAccept
    BY <1>6, VisitsResurrectAccept
  <1>7. CASE ResurrectRefuse
    BY <1>7, VisitsRefuse DEF ResurrectRefuse, chainVars
  <1>8. CASE ResurrectDone
    BY <1>8, VisitsRefuse, VisitsRestored DEF ResurrectDone, chainVars
  <1>9. CASE TipDisconnected
    <2>1. job.at = "update" /\ job.i = 0 /\ job' = [at |-> "disconnected", op |-> job.op]
      BY <1>9 DEF TipDisconnected
    <2>2. ~Undoing' /\ NotVisited = {job.hashes[k] : k \in 1 .. 0}
      BY <2>1 DEF Undoing, Disconnecting, NotVisited
    <2> QED
      BY <2>2, QuietNext, SMTT(30) DEF Visits, RestoredInOrder
  <1>10. CASE (\E b \in Blocks : ConnectTip(b)) \/ RemoveForBlock \/ RemoveConflicts
    <2>1. ~Undoing
      BY <1>10 DEF ConnectTip, RemoveForBlock, RemoveConflicts, Undoing, Disconnecting, Idle
    <2>2. job'.at \in {"remove", "conflicts", "connected"}
      <3>1. CASE \E b \in Blocks : ConnectTip(b)
        BY <3>1 DEF ConnectTip
      <3>2. CASE RemoveForBlock \/ RemoveConflicts
        <4>1. PICK at \in {"remove", "conflicts"} : job \in [at : {at}, op : Ops \cup {"extend"}, i : Nat]
          BY <1>1, <3>2, JobFacts DEF RemoveForBlock, RemoveConflicts
        <4>2. CASE RemoveForBlock
          BY <4>1, <4>2 DEF RemoveForBlock
        <4>3. CASE RemoveConflicts
          <5>1. \/ job' = [at |-> "connected", op |-> job.op]
                \/ job' = [job EXCEPT !.at = "remove", !.i = @ + 1]
            BY <4>3 DEF RemoveConflicts
          <5>2. CASE job' = [job EXCEPT !.at = "remove", !.i = @ + 1]
            BY <4>1, <5>2
          <5> QED
            BY <5>1, <5>2
        <4> QED
          BY <3>2, <4>2, <4>3
      <3> QED
        BY <1>10, <3>1, <3>2
    <2>3. ~Undoing'
      BY <2>2 DEF Undoing, Disconnecting
    <2> QED
      BY <2>1, <2>3, VisitsQuiet
  <1> QED
    BY <1>2, <1>3, <1>4, <1>5, <1>6, <1>7, <1>8, <1>9, <1>10 DEF Next, Quiet

(* When all or none of what was put back is to be visited, the totals      *)
(* should count every descendant,                                          *)
LEMMA CountedWhole ==
  PoolInv /\ (NotVisited = Restored \/ NotVisited = {}) =>
      \A t \in mapTx : Counted(t) = CalculateDescendants({t})
  <1> SUFFICES ASSUME PoolInv, NotVisited = Restored, NEW t \in mapTx, t \in NotVisited
               PROVE  CalculateDescendants({t}) \subseteq Restored
    BY DEF Counted
  <1>1. PICK R : R = CalculateDescendants({t})
    OBVIOUS
  <1>2. Reaches(mapTx, children, t, R)
    BY <1>1, DescendantsReach DEF PoolInv, IndexInv
  <1>3. \A x \in mapTx \cap Restored : children[x] \subseteq mapTx \cap Restored
    <2> SUFFICES ASSUME NEW x \in mapTx \cap Restored, NEW y \in children[x]
                 PROVE  y \in mapTx \cap Restored
      OBVIOUS
    <2>1. y \in mapTx
      BY DEF PoolInv, IndexInv, LinksMutual, SpendersExact, Txs0
    <2> QED
      BY <2>1 DEF PoolInv, LinksComplete
  <1>4. mapTx \cap Restored \in SUBSET mapTx /\ t \in mapTx \cap Restored
    OBVIOUS
  <1> QED
    BY <1>1, <1>2, <1>3, <1>4 DEF Reaches

(* after a step too. *)
LEMMA CountedWholeNext ==
  PoolInv' /\ NotVisited' = Restored' => \A t \in mapTx' : Counted(t)' = CalculateDescendants({t})'
  <1>1. (PoolInv /\ (NotVisited = Restored \/ NotVisited = {}) =>
             \A t \in mapTx : Counted(t) = CalculateDescendants({t}))'
    BY CountedWhole, PTL
  <1> QED
    BY <1>1

(* Packages are right if every one counts all descendants. *)
LEMMA PackagesWhole ==
  ASSUME PoolInv', NotVisited' = Restored', pkg' = [t \in Txs |-> pkg'[t]],
         \A t \in Txs \ mapTx' : pkg'[t] = NoPackage,
         \A t \in mapTx' : \/ pkg'[t] = Counting(NoPackage, CalculateDescendants({t})')
                           \/ t \notin NotVisited' /\ pkg'[t] = NoPackage
  PROVE  PackagesRight'
  <1>1. \A t \in mapTx' : Counted(t)' = CalculateDescendants({t})'
    BY CountedWholeNext
  <1>2. ASSUME NEW t \in mapTx'
        PROVE  \/ pkg'[t] = Counting(NoPackage, Counted(t)')
               \/ t \notin NotVisited' /\ pkg'[t] = NoPackage
    BY <1>1, Zenon
  <1>3. ASSUME NEW t \in mapTx'
        PROVE  Counting(NoPackage, Counted(t))' = Counting(NoPackage, Counted(t)')
    BY DEF Counting, NoPackage
  <1>4. ASSUME NEW t \in mapTx'
        PROVE  \/ pkg'[t] = Counting(NoPackage, Counted(t))'
               \/ t \notin NotVisited' /\ pkg'[t] = NoPackage
    BY <1>2, <1>3, Zenon
  <1>5. NoPackage' = NoPackage
    BY DEF NoPackage
  <1> QED
    BY <1>4, <1>5 DEF PackagesRight

(* Removals: an entry that stays loses exactly the removed descendants. *)
LEMMA PackagesLose ==
  ASSUME PoolInv, PackagesRight, PoolInv', Visits, NEW S \in SUBSET mapTx, RemoveStaged(S),
         \A t \in mapTx \ S : \A x \in S \cap CalculateDescendants({t}) : children[x] \subseteq S
  PROVE  PackagesRight'
  <1>1. SpendersExact /\ LinksMutual /\ LinksReal /\ SpendersExact' /\ LinksMutual' /\ mapTx \subseteq Txs
    BY DEF PoolInv, IndexInv, SpendersExact, Txs0
  <1>2. /\ mapTx' = mapTx \ S
        /\ \A x, y \in mapTx' : y \in children'[x] <=> y \in children[x]
    BY <1>1, RemoveFacts
  <1>3. pkg' = [t \in Txs |-> IF t \in S THEN NoPackage ELSE LessRemoved(t, S)]
    BY DEF RemoveStaged
  <1>4. \A t \in Txs \ mapTx' : pkg'[t] = NoPackage
    <2> SUFFICES ASSUME NEW t \in Txs \ mapTx'
                 PROVE  pkg'[t] = NoPackage
      OBVIOUS
    <2>1. t \in S \/ pkg[t] = NoPackage
      BY <1>2 DEF PackagesRight
    <2> QED
      BY <1>3, <2>1 DEF LessRemoved, IsDirty
  <1>5. ASSUME NEW t \in mapTx'
        PROVE  \/ pkg'[t] = Counting(NoPackage, CalculateDescendants({t})')
               \/ t \notin NotVisited' /\ pkg'[t] = NoPackage
    <2>1. t \in mapTx /\ t \notin S /\ t \in Txs
      BY <1>1, <1>2
    <2>2. pkg'[t] = LessRemoved(t, S)
      BY <1>3, <2>1
    <2>3. CASE pkg[t] = NoPackage
      <3>1. pkg'[t] = NoPackage
        BY <2>2, <2>3 DEF LessRemoved, IsDirty
      <3>2. t \in CalculateDescendants({t})
        BY <1>1, <2>1, DescendantsReach DEF Reaches
      <3>3. pkg[t] # Counting(NoPackage, Counted(t))
        BY <2>1, <2>3, <3>2, CountedWhole, CountingFacts DEF Visits
      <3>4. t \notin NotVisited'
        BY <2>1, <3>3 DEF PackagesRight, Visits
      <3> QED
        BY <3>1, <3>4
    <2>4. CASE pkg[t] # NoPackage
      <3>1. PICK R, Q : R = CalculateDescendants({t}) /\ Q = CalculateDescendants({t})'
        OBVIOUS
      <3>2. pkg[t] = Counting(NoPackage, R)
        BY <2>1, <2>4, <3>1, CountedWhole DEF PackagesRight, Visits
      <3>3. Reaches(mapTx, children, t, R) /\ Reaches(mapTx', children', t, Q)
        BY <1>1, <2>1, <3>1, DescendantsReach, DescendantsReachNext
      <3>4. Q = R \ S
        <4>1. PICK m, c, n, d : m = mapTx /\ c = children /\ n = mapTx' /\ d = children'
          OBVIOUS
        <4>2. /\ S \in SUBSET m /\ n = m \ S /\ t \in n /\ \A x, y \in n : y \in d[x] <=> y \in c[x]
              /\ Reaches(m, c, t, R) /\ Reaches(n, d, t, Q) /\ \A x \in S \cap R : c[x] \subseteq S
          BY <1>2, <2>1, <3>1, <3>3, <4>1
        <4>3. (\A x \in m : c[x] \subseteq m) /\ \A x \in n : d[x] \subseteq n
          BY <1>1, <1>2, <4>1 DEF LinksMutual
        <4> QED
          BY <4>2, <4>3, DescendantsLost
      <3>5. \A v \in S : t \in AncestorsOf(v) <=> v \in R
        BY <1>1, <2>1, <3>1, AncestorIffDescendant
      <3>6. LessRemoved(t, S) = [v \in Txs |-> IF v \in S /\ t \in AncestorsOf(v) THEN pkg[t][v] - 1 ELSE pkg[t][v]]
        BY <2>4 DEF LessRemoved, IsDirty
      <3>7. pkg[t] = [v \in Txs |-> IF v \in R THEN 1 ELSE 0]
        BY <3>2, CountingFacts
      <3>8. LessRemoved(t, S) = [v \in Txs |-> IF v \in Q THEN 1 ELSE 0]
        <4>1. ASSUME NEW v \in Txs
              PROVE  (IF v \in S /\ t \in AncestorsOf(v) THEN pkg[t][v] - 1 ELSE pkg[t][v])
                        = IF v \in Q THEN 1 ELSE 0
          BY <3>4, <3>5, <3>7
        <4> QED
          BY <3>6, <4>1
      <3>9. Counting(NoPackage, Q) = [v \in Txs |-> IF v \in Q THEN 1 ELSE 0]
        BY CountingFacts
      <3>10. pkg'[t] = Counting(NoPackage, Q)
        BY <2>2, <3>8, <3>9
      <3> QED
        BY <3>1, <3>10
    <2> QED
      BY <2>3, <2>4
  <1> QED
    BY <1>3, <1>4, <1>5, PackagesWhole DEF Visits

(* A set that has all descendants can go, *)
LEMMA PackagesLoseBelow ==
  ASSUME PoolInv, PackagesRight, PoolInv', Visits, NEW S \in SUBSET mapTx, RemoveStaged(S),
         \A u \in S : children[u] \subseteq S
  PROVE  PackagesRight'
  BY PackagesLose

(* and so can a transaction of a connected block: it is nobody's           *)
(* descendant, since what it spends is confirmed.                          *)
LEMMA PackagesLoseConnected ==
  ASSUME PoolInv, PackagesRight, PoolInv', Visits, RemoveForBlock
  PROVE  PackagesRight'
  <1>1. job.at = "remove" /\ RemoveStaged({Connected} \cap mapTx)
    BY DEF RemoveForBlock
  <1>2. PICK b, i, c : b = Last(pcoinsTip) /\ i = job.i /\ c = Vtx[b][i]
    OBVIOUS
  <1>3. Doing
    BY <1>1 DEF Doing
  <1>4. TipOf(pcoinsTip, b, chainActive) /\ ~Undoing /\ i \in 1 .. Len(Vtx[b]) /\ Connected = c
    BY <1>1, <1>2, <1>3, DoingFacts
  <1>5. mapTx \subseteq Txs /\ SpendersExact /\ LinksMutual
    BY DEF PoolInv, IndexInv, SpendersExact, Txs0
  <1>6. ASSUME NEW p \in mapTx, Spends(c, p)
        PROVE  FALSE
    <2>1. PICK o \in Vin[c] : o[1] = p
      BY <1>6 DEF Spends
    <2>2. p \in Confirmed(chainActive) \/ \E j \in 1 .. i - 1 : p = Vtx[b][j]
      BY <1>2, <1>4, <2>1 DEF TipOf
    <2>3. \A j \in 1 .. i - 1 : j \in 1 .. Len(Vtx[b]) /\ j \notin i .. Len(Vtx[b])
      BY <1>4 DEF TipOf
    <2>4. \A k \in i .. Len(Vtx[b]) : k \in 1 .. Len(Vtx[b])
      BY <1>4 DEF TipOf
    <2>5. p \in Confirmed(pcoinsTip)
      BY <1>4, <2>2, <2>3 DEF TipOf
    <2>6. ToRemove = {Vtx[b][k] : k \in i .. Len(Vtx[b])}
      BY <1>1, <1>2 DEF ToRemove
    <2>7. PICK k \in i .. Len(Vtx[b]) : p = Vtx[b][k]
      BY <2>5, <2>6 DEF PoolInv, PoolIsUnconfirmed
    <2> QED
      BY <1>4, <2>2, <2>3, <2>4, <2>7 DEF TipOf
  <1>7. ASSUME NEW t \in mapTx, t # c
        PROVE  c \notin CalculateDescendants({t})
    <2>1. PICK R : R = CalculateDescendants({t})
      OBVIOUS
    <2>2. Reaches(mapTx, children, t, R)
      BY <1>5, <2>1, DescendantsReach
    <2>3. \A x \in mapTx : c \in children[x] => Spends(c, x)
      BY <1>4, <1>5, BlockFacts DEF PoolInv, IndexInv, LinksReal, LinksMutual
    <2>4. \A x \in R \ {c} : children[x] \subseteq R \ {c}
      BY <1>6, <2>2, <2>3 DEF Reaches
    <2>5. R \ {c} \in SUBSET mapTx /\ t \in R \ {c}
      BY <1>7, <2>2 DEF Reaches
    <2>6. R \subseteq R \ {c}
      BY <2>2, <2>4, <2>5 DEF Reaches
    <2> QED
      BY <2>1, <2>6
  <1>8. PICK S : S = {c} \cap mapTx
    OBVIOUS
  <1>9. S \in SUBSET mapTx /\ RemoveStaged(S)
    BY <1>1, <1>4, <1>8
  <1>10. \A t \in mapTx \ S : \A x \in S \cap CalculateDescendants({t}) : children[x] \subseteq S
    BY <1>7, <1>8
  <1> QED
    BY <1>9, <1>10, PackagesLose

(* Additions: exactly the ancestors gain the new transaction. *)
LEMMA PackagesGain ==
  ASSUME PoolInv, PackagesRight, PoolInv', Visits, NEW t \in Txs, Acceptable(t), addUnchecked(t, AncestorsToBe(t))
  PROVE  PackagesRight'
  <1>1. SpendersExact /\ LinksMutual /\ LinksReal /\ SpendersExact' /\ LinksMutual' /\ mapTx \subseteq Txs
    BY DEF PoolInv, IndexInv, SpendersExact, Txs0
  <1>2. t \notin mapTx /\ t \notin Generated /\ \A o \in Vin[t] : mapNextTx[o] = NoTx
    BY DEF Acceptable
  <1>3. PICK A, P : A = AncestorsToBe(t) /\ P = ParentsOf(t)
    OBVIOUS
  <1>4. /\ mapTx' = mapTx \cup {t} /\ children'[t] = {}
        /\ children' = [u \in Txs |-> IF u \in P THEN children[u] \cup {t} ELSE children[u]]
        /\ P \in SUBSET mapTx
    BY <1>1, <1>2, <1>3, AddFacts DEF addUnchecked, ParentsOf
  <1>5. pkg' = [u \in Txs |-> CASE u = t -> Counting(NoPackage, {t})
                               [] u \in A /\ ~IsDirty(u) -> Counting(pkg[u], {t})
                               [] OTHER -> pkg[u]]
    BY <1>3 DEF addUnchecked
  <1>6. /\ pkg'[t] = Counting(NoPackage, {t})
        /\ \A u \in Txs : u # t => pkg'[u] = IF u \in A /\ pkg[u] # NoPackage THEN Counting(pkg[u], {t}) ELSE pkg[u]
    <2>2. pkg'[t] = Counting(NoPackage, {t})
      BY <1>2, <1>5 DEF IsDirty, PackagesRight
    <2>3. ASSUME NEW u \in Txs, u # t, u \in A, pkg[u] # NoPackage
          PROVE  pkg'[u] = Counting(pkg[u], {t})
      BY <1>5, <2>3 DEF IsDirty
    <2>4. ASSUME NEW u \in Txs, u # t, ~(u \in A /\ pkg[u] # NoPackage)
          PROVE  pkg'[u] = pkg[u]
      BY <1>5, <2>4 DEF IsDirty
    <2> QED
      BY <2>2, <2>3, <2>4
  <1>7. \A u \in mapTx : u \in A <=> P \cap CalculateDescendants({u}) # {}
    BY <1>1, <1>3, <1>4, AncestorsFacts DEF AncestorsToBe
  <1>8. \A u \in Txs \ mapTx' : pkg'[u] = NoPackage
    BY <1>4, <1>6 DEF PackagesRight
  <1>9. pkg'[t] = Counting(NoPackage, CalculateDescendants({t})')
    <2>1. PICK Q : Q = CalculateDescendants({t})'
      OBVIOUS
    <2>2. Reaches(mapTx', children', t, Q)
      BY <1>1, <1>4, <2>1, DescendantsReachNext
    <2>3. {t} \in SUBSET mapTx' /\ \A x \in {t} : children'[x] \subseteq {t}
      BY <1>4
    <2>4. Q = {t}
      BY <2>2, <2>3 DEF Reaches
    <2> QED
      BY <1>6, <2>1, <2>4
  <1>10. ASSUME NEW u \in mapTx
         PROVE  \/ pkg'[u] = Counting(NoPackage, CalculateDescendants({u})')
                \/ u \notin NotVisited' /\ pkg'[u] = NoPackage
    <2>1. u \in Txs /\ u # t /\ u \in mapTx'
      BY <1>1, <1>2, <1>4
    <2>2. PICK R, Q : R = CalculateDescendants({u}) /\ Q = CalculateDescendants({u})'
      OBVIOUS
    <2>3. Reaches(mapTx, children, u, R) /\ Reaches(mapTx', children', u, Q)
      BY <1>1, <2>1, <2>2, DescendantsReach, DescendantsReachNext
    <2>4. Counted(u) = R
      BY <2>2, CountedWhole DEF Visits
    <2>5. CASE pkg[u] = NoPackage
      <3>1. pkg'[u] = NoPackage
        BY <1>6, <2>1, <2>5
      <3>2. pkg[u] # Counting(NoPackage, Counted(u))
        BY <2>1, <2>3, <2>4, <2>5, CountingFacts DEF Reaches
      <3>3. u \notin NotVisited'
        BY <2>1, <3>2 DEF PackagesRight, Visits
      <3> QED
        BY <3>1, <3>3
    <2>6. CASE pkg[u] # NoPackage
      <3>1. pkg[u] = Counting(NoPackage, R)
        BY <2>4, <2>6 DEF PackagesRight
      <3>2. Q = IF P \cap R # {} THEN R \cup {t} ELSE R
        <4>1. PICK m, c, n, d : m = mapTx /\ c = children /\ n = mapTx' /\ d = children'
          OBVIOUS
        <4>2. u \in m /\ Reaches(m, c, u, R) /\ Reaches(n, d, u, Q)
          BY <2>3, <4>1
        <4>3. Grows(m, c, n, d, t, P)
          BY <1>1, <1>2, <1>4, <4>1 DEF LinksMutual, Grows
        <4>4. (P \cap R # {} => Q = R \cup {t}) /\ (P \cap R = {} => Q = R)
          BY <4>2, <4>3, DescendantsAdded
        <4> QED
          BY <4>4
      <3>3. R \cap {t} = {}
        BY <1>2, <2>3 DEF Reaches
      <3>4. Counting(Counting(NoPackage, R), {t}) = Counting(NoPackage, R \cup {t})
        BY <3>3, CountingFacts
      <3>5. pkg'[u] = Counting(NoPackage, Q)
        BY <1>6, <1>7, <2>1, <2>2, <2>6, <3>1, <3>2, <3>4
      <3> QED
        BY <2>2, <3>5
    <2> QED
      BY <2>5, <2>6
  <1> QED
    BY <1>4, <1>5, <1>8, <1>9, <1>10, PackagesWhole DEF Visits

(* Steps that leave the pool alone *)
LEMMA PackagesSame ==
  ASSUME PoolInv, PackagesRight, PoolInv', Visits, UNCHANGED poolVars
  PROVE  PackagesRight'
  <1>1. UNCHANGED <<mapTx, children, pkg>>
    BY DEF poolVars
  <1>2. \A t \in mapTx : CalculateDescendants({t})' = CalculateDescendants({t})
    BY <1>1 DEF CalculateDescendants, Closure
  <1>3. \A t \in mapTx : Counted(t) = CalculateDescendants({t})
    BY CountedWhole DEF Visits
  <1>4. ASSUME NEW t \in mapTx
        PROVE  \/ pkg'[t] = Counting(NoPackage, CalculateDescendants({t})')
               \/ t \notin NotVisited' /\ pkg'[t] = NoPackage
    <2>1. pkg[t] = Counting(NoPackage, CalculateDescendants({t})) \/ (t \notin NotVisited /\ pkg[t] = NoPackage)
      BY <1>3 DEF PackagesRight
    <2> QED
      BY <1>1, <1>2, <2>1 DEF Visits
  <1>5. pkg' = [t \in Txs |-> pkg'[t]] /\ \A t \in Txs \ mapTx' : pkg'[t] = NoPackage
    BY <1>1 DEF PackagesRight
  <1> QED
    BY <1>1, <1>4, <1>5, PackagesWhole DEF Visits

(* UpdateTransactionsFromBlock has visited all of h after i, and is at t. *)
Visiting(h, i, t) ==
    /\ h \in Seq(Txs) /\ i \in 1 .. Len(h) /\ t = h[i] /\ t \in Txs /\ Undoing /\ Undoing'
    /\ Restored = ToSet(h) /\ Restored' = ToSet(h) /\ RestoredInOrder'
    /\ \A x : x \in Restored <=> \E k \in 1 .. Len(h) : x = h[k]
    /\ \A x : x \in NotVisited <=> \E k \in 1 .. i : x = h[k]
    /\ \A x : x \in NotVisited' <=> x \in NotVisited /\ x # t
    /\ t \in NotVisited /\ t \in Restored
    /\ \A j, k \in 1 .. Len(h) : Spends(h[j], h[k]) => k < j

(* Where UpdateTransactionsFromBlock is *)
LEMMA VisitingFacts ==
  ASSUME PoolInv, RestoredInOrder, UpdateTransactionsFromBlock, NEW h, h = job.hashes, NEW i, i = job.i
  PROVE  Visiting(h, i, h[i])
  <1>1. job.at = "update" /\ job.i > 0 /\ job' = [job EXCEPT !.i = @ - 1] /\ UNCHANGED <<chainActive, pcoinsTip>>
    BY DEF UpdateTransactionsFromBlock, chainVars
  <1>2. job \in PuttingBack({"update"}) /\ Disconnecting = job
    BY <1>1, JobFacts DEF PoolInv, IndexInv, Chains, Disconnecting
  <1>3. job'.at = "update" /\ job'.hashes = h /\ job'.i = i - 1 /\ i \in Nat /\ h \in Seq(Txs)
    BY <1>1, <1>2 DEF PuttingBack
  <1>4. i \in 1 .. Len(h) /\ Len(h) \in Nat
    <2>1. i \in 0 .. Len(h)
      BY <1>1, <1>2 DEF PoolInv, IndexInv, Chains
    <2> QED
      BY <1>1, <1>3, <2>1
  <1>5. Undoing /\ Undoing' /\ Disconnecting' = job'
    BY <1>1, <1>2, <1>3 DEF Undoing, Disconnecting
  <1>6. /\ Restored = ToSet(h) /\ Restored' = ToSet(h)
        /\ NotVisited = {h[k] : k \in 1 .. i} /\ NotVisited' = {h[k] : k \in 1 .. i - 1}
    BY <1>1, <1>2, <1>3, <1>5 DEF Restored, NotVisited
  <1>7. /\ \A j, k \in 1 .. Len(h) : h[j] = h[k] => j = k
        /\ \A j, k \in 1 .. Len(h) : Spends(h[j], h[k]) => k < j
    BY <1>2, <1>5 DEF PoolInv, RestoredInBlock, RestoredInOrder
  <1>8. RestoredInOrder'
    BY <1>3, <1>5, <1>7, SMTT(30) DEF RestoredInOrder, Spends
  <1>9. \A x : x \in Restored <=> \E k \in 1 .. Len(h) : x = h[k]
    BY <1>3, <1>6 DEF ToSet
  <1>10. \A x : x \in NotVisited' <=> x \in NotVisited /\ x # h[i]
    <2>1. \A k : k \in 1 .. i <=> k \in 1 .. i - 1 \/ k = i
      BY <1>4
    <2>2. \A k \in 1 .. i - 1 : k \in 1 .. Len(h) /\ k # i
      BY <1>4
    <2>3. \A k \in 1 .. i - 1 : h[k] # h[i]
      BY <1>4, <1>7, <2>2
    <2> QED
      BY <1>6, <2>1, <2>3
  <1>11. i \in 1 .. i
    BY <1>4
  <1> QED
    BY <1>3, <1>4, <1>5, <1>6, <1>7, <1>8, <1>9, <1>10, <1>11 DEF Visiting

(* The descendants of what was visited were visited, or never put back; a  *)
(* link from t to a transaction that stayed in the pool adds only such     *)
(* descendants.                                                            *)
LEMMA DescendantsUpdated ==
  ASSUME PoolInv, NEW h, NEW i, NEW t, Visiting(h, i, t), t \in mapTx, SpendersExact', LinksMutual', LinksReal',
         UNCHANGED mapTx,
         \A x \in Txs, u \in Txs :
             u \in children'[x] <=> u \in children[x] \/ (x = t /\ u \in mapTx /\ Spends(u, t) /\ u \notin Restored),
         NEW u \in mapTx, NEW R, R = CalculateDescendants({u}), NEW Q, Q = CalculateDescendants({u})'
  PROVE  /\ Q \cap Restored = R \cap Restored
         /\ u \notin NotVisited => Q = R
  <1>1. SpendersExact /\ LinksMutual /\ LinksReal /\ mapTx \subseteq Txs
    BY DEF PoolInv, IndexInv, SpendersExact, Txs0
  <1>2. Reaches(mapTx, children, u, R) /\ Reaches(mapTx, children', u, Q)
    BY <1>1, DescendantsReach, DescendantsReachNext
  <1>3. \A x \in mapTx : children[x] \subseteq mapTx /\ children'[x] \subseteq mapTx
    BY <1>1 DEF LinksMutual
  <1>4. \A x \in mapTx, y \in mapTx : y \in children'[x] => Spends(y, x)
    BY <1>1 DEF LinksReal, Spends
  <1>5. R \subseteq Q
    <2>1. \A x \in Q : children[x] \subseteq Q
      BY <1>1, <1>2, <1>3 DEF Reaches
    <2>2. u \in Q /\ Q \in SUBSET mapTx
      BY <1>2 DEF Reaches
    <2> QED
      BY <1>2, <2>1, <2>2 DEF Reaches
  <1>6. Q \subseteq R \cup (mapTx \ Restored)
    <2> DEFINE D == R \cup (mapTx \ Restored)
    <2>1. u \in D /\ D \in SUBSET mapTx
      BY <1>2 DEF Reaches
    <2>2. ASSUME NEW x \in D, NEW y \in children'[x]
          PROVE  y \in D
      <3>1. x \in mapTx /\ y \in mapTx
        BY <1>3, <2>1
      <3>2. CASE x \in R
        BY <1>1, <1>2, <3>1, <3>2 DEF Reaches
      <3>3. CASE x \notin Restored
        BY <1>4, <3>1, <3>3, RestoredFacts DEF Visiting
      <3> QED
        BY <3>2, <3>3
    <2>3. \A x \in D : children'[x] \subseteq D
      BY <2>2
    <2> HIDE DEF D
    <2>4. Q \subseteq D
      BY <1>2, <2>1, <2>3 DEF Reaches
    <2> QED
      BY <2>4 DEF D
  <1>7. ASSUME u \notin NotVisited
        PROVE  Q = R
    <2> DEFINE D == mapTx \ NotVisited
    <2>1. ASSUME NEW x \in D, NEW y \in children[x]
          PROVE  y \in D
      <3>1. x \in mapTx /\ y \in mapTx /\ Spends(y, x)
        BY <1>1, <1>3, <2>1 DEF LinksReal
      <3>2. SUFFICES ASSUME y \in NotVisited
                     PROVE  x \in NotVisited
        BY <3>1
      <3>3. PICK j \in 1 .. i : y = h[j]
        BY <3>2 DEF Visiting
      <3>4. j \in 1 .. Len(h) /\ i \in Nat
        BY DEF Visiting
      <3>5. x \in Restored
        BY <3>1, <3>3, <3>4, RestoredFacts DEF Visiting
      <3>6. PICK k \in 1 .. Len(h) : x = h[k]
        BY <3>5 DEF Visiting
      <3>7. k < j
        BY <3>1, <3>3, <3>4, <3>6 DEF Visiting
      <3>8. k \in 1 .. i
        BY <3>4, <3>7
      <3> QED
        BY <3>6, <3>8 DEF Visiting
    <2>2. u \in D /\ D \in SUBSET mapTx
      BY <1>7
    <2>3. R \subseteq D
      BY <1>2, <2>1, <2>2 DEF Reaches
    <2>4. t \notin R
      BY <2>3 DEF Visiting
    <2>5. ASSUME NEW x \in R
          PROVE  children'[x] \subseteq R
      <3>1. x # t /\ x \in mapTx /\ children[x] \subseteq R
        BY <1>2, <2>4 DEF Reaches
      <3> QED
        BY <1>1, <1>3, <3>1
    <2>6. Q \subseteq R
      BY <1>2, <2>5 DEF Reaches
    <2> QED
      BY <1>5, <2>6
  <1> QED
    BY <1>5, <1>6, <1>7

(* UpdateTransactionsFromBlock: the totals of the transaction it visits    *)
(* gain the descendants that stayed in the pool, or are dirty, and those   *)
(* of no other transaction change.                                         *)
LEMMA PackagesUpdate ==
  ASSUME PoolInv, RestoredInOrder, PackagesRight, PoolInv', UpdateTransactionsFromBlock
  PROVE  RestoredInOrder' /\ PackagesRight'
  <1>1. PICK h, i, t : h = job.hashes /\ i = job.i /\ t = h[i]
    OBVIOUS
  <1>2. Visiting(h, i, t)
    BY <1>1, VisitingFacts
  <1>3. SpendersExact /\ LinksMutual /\ LinksReal /\ Chains /\ mapTx \subseteq Txs
    BY DEF PoolInv, IndexInv, SpendersExact, Txs0
  <1>4. CASE t \notin mapTx
    <2>1. UNCHANGED <<mapTx, children, pkg>>
      BY <1>1, <1>4 DEF UpdateTransactionsFromBlock, poolVars
    <2>2. \A u \in mapTx : Counted(u)' = Counted(u)
      BY <1>2, <1>4, <2>1 DEF Counted, CalculateDescendants, Closure, Visiting
    <2>3. ASSUME NEW u \in mapTx
          PROVE  \/ pkg'[u] = Counting(NoPackage, Counted(u)')
                 \/ u \notin NotVisited' /\ pkg'[u] = NoPackage
      <3>1. u \notin NotVisited => u \notin NotVisited'
        BY <1>2 DEF Visiting
      <3> QED
        BY <2>1, <2>2, <3>1 DEF PackagesRight
    <2>4. RestoredInOrder'
      BY <1>2 DEF Visiting
    <2>5. pkg' = [u \in Txs |-> pkg'[u]] /\ \A u \in Txs \ mapTx' : pkg'[u] = NoPackage
      BY <2>1 DEF PackagesRight
    <2> QED
      BY <2>1, <2>3, <2>4, <2>5 DEF PackagesRight, Counting, NoPackage
  <1>5. CASE t \in mapTx
    <2>1. /\ SpendersExact' /\ LinksMutual' /\ LinksReal' /\ UNCHANGED mapTx
          /\ \A x \in Txs, u \in Txs :
                u \in children'[x] <=> u \in children[x] \/ (x = t /\ u \in mapTx /\ Spends(u, t) /\ u \notin Restored)
      BY <1>1, <1>2, <1>3, <1>5, UpdateFacts DEF Visiting
    <2>2. pkg' = [pkg EXCEPT ![t] = UpdateForDescendants(t, children', ToSet(h))]
      BY <1>1, <1>5 DEF UpdateTransactionsFromBlock
    <2>3. t \in Txs /\ Restored = ToSet(h) /\ t \in Restored /\ t \in NotVisited
      BY <1>2 DEF Visiting
    <2>4. /\ pkg' = [u \in Txs |-> pkg'[u]]
          /\ pkg'[t] = UpdateForDescendants(t, children', ToSet(h))
          /\ \A u \in Txs : u # t => pkg'[u] = pkg[u]
      BY <2>2, <2>3 DEF PackagesRight
    <2>5. \A u \in Txs \ mapTx' : pkg'[u] = NoPackage
      BY <1>5, <2>1, <2>4 DEF PackagesRight
    <2>6. ASSUME NEW u \in mapTx, u # t
          PROVE  \/ pkg'[u] = Counting(NoPackage, Counted(u)')
                 \/ u \notin NotVisited' /\ pkg'[u] = NoPackage
      <3>1. PICK R, Q : R = CalculateDescendants({u}) /\ Q = CalculateDescendants({u})'
        OBVIOUS
      <3>2. Q \cap Restored = R \cap Restored /\ (u \notin NotVisited => Q = R)
        BY <1>2, <1>5, <2>1, <3>1, DescendantsUpdated
      <3>3. (u \in NotVisited' <=> u \in NotVisited) /\ Restored' = Restored
        BY <1>2, <2>6 DEF Visiting
      <3>4. Counted(u)' = IF u \in NotVisited' THEN Q \cap Restored' ELSE Q
        BY <3>1 DEF Counted
      <3>5. Counted(u) = IF u \in NotVisited THEN R \cap Restored ELSE R
        BY <3>1 DEF Counted
      <3>6. Counted(u)' = Counted(u)
        BY <3>2, <3>3, <3>4, <3>5
      <3>7. pkg'[u] = pkg[u]
        BY <1>3, <2>4, <2>6
      <3> QED
        BY <3>3, <3>6, <3>7 DEF PackagesRight
    <2>7. \/ pkg'[t] = Counting(NoPackage, Counted(t)')
          \/ t \notin NotVisited' /\ pkg'[t] = NoPackage
      <3>1. PICK R, Q, E : /\ R = CalculateDescendants({t}) /\ Q = CalculateDescendants({t})'
                           /\ E = Closure(children'[t], children')
        OBVIOUS
      <3>2. t \notin NotVisited'
        BY <1>2 DEF Visiting
      <3>3. Counted(t)' = Q
        BY <3>1, <3>2 DEF Counted
      <3>4. Q \cap Restored = R \cap Restored
        BY <1>2, <1>5, <2>1, <3>1, DescendantsUpdated
      <3>5. Reaches(mapTx, children', t, Q) /\ Reaches(mapTx, children, t, R)
        BY <1>3, <1>5, <2>1, <3>1, DescendantsReach, DescendantsReachNext
      <3>6. pkg[t] = Counting(NoPackage, R \cap Restored)
        BY <1>5, <2>3, <3>1 DEF PackagesRight, Counted
      <3>7. Q = {t} \cup E
        <4>1. PICK c : c = children'
          OBVIOUS
        <4>2. \A x \in mapTx : c[x] \subseteq mapTx
          BY <1>3, <2>1, <4>1 DEF LinksMutual
        <4>3. c[t] \in SUBSET mapTx /\ E = Closure(c[t], c)
          BY <1>5, <3>1, <4>1, <4>2
        <4>4. /\ c[t] \subseteq E /\ E \subseteq mapTx /\ \A x \in E : c[x] \subseteq E
              /\ \A D \in SUBSET mapTx : c[t] \subseteq D /\ (\A x \in D : c[x] \subseteq D) => E \subseteq D
          BY <1>3, <4>2, <4>3, ClosureFacts
        <4>5. Reaches(mapTx, c, t, Q)
          BY <3>5, <4>1
        <4>6. E \subseteq Q
          BY <4>4, <4>5 DEF Reaches
        <4>7. Q \subseteq {t} \cup E
          <5>1. PICK D : D = {t} \cup E
            OBVIOUS
          <5>2. D \in SUBSET mapTx /\ t \in D /\ \A x \in D : c[x] \subseteq D
            BY <1>5, <4>4, <5>1
          <5> QED
            BY <4>5, <5>1, <5>2 DEF Reaches
        <4> QED
          BY <4>5, <4>6, <4>7 DEF Reaches
      <3>8. pkg'[t] = NoPackage \/ pkg'[t] = Counting(pkg[t], E \ Restored)
        BY <2>3, <2>4, <3>1 DEF UpdateForDescendants
      <3>9. PICK V, W : V = R \cap Restored /\ W = E \ Restored
        OBVIOUS
      <3>10. V \cap W = {} /\ V \cup W = Q
        BY <2>3, <3>4, <3>7, <3>9
      <3>11. Counting(Counting(NoPackage, V), W) = Counting(NoPackage, V \cup W)
        BY <3>10, CountingFacts
      <3> QED
        BY <3>2, <3>3, <3>6, <3>8, <3>9, <3>10, <3>11
    <2>8. RestoredInOrder'
      BY <1>2 DEF Visiting
    <2>9. \A u \in mapTx' : \/ pkg'[u] = Counting(NoPackage, Counted(u)')
                            \/ u \notin NotVisited' /\ pkg'[u] = NoPackage
      BY <2>1, <2>6, <2>7
    <2> QED
      BY <2>4, <2>5, <2>8, <2>9 DEF PackagesRight, Counting, NoPackage
  <1> QED
    BY <1>4, <1>5

-----------------------------------------------------------------------------
(* Every step keeps the totals right. *)
LEMMA PackagesNext ==
  ASSUME PackagesInv, EvictsFamilies, [Next]_vars
  PROVE  PackagesInv'
  <1>1. PoolInv /\ RestoredInOrder /\ PackagesRight /\ PoolInv'
    BY PoolNext DEF PackagesInv
  <1>2. CASE UNCHANGED vars
    <2>1. UNCHANGED <<mapTx, children, pkg, chainActive, pcoinsTip, job>>
      BY <1>2 DEF vars, poolVars, chainVars
    <2>2. UNCHANGED <<Disconnecting, Undoing, Restored, NotVisited>>
      BY <2>1 DEF Disconnecting, Undoing, Restored, NotVisited
    <2>3. \A t \in mapTx : Counted(t)' = Counted(t)
      BY <2>1, <2>2 DEF Counted, CalculateDescendants, Closure
    <2>4. RestoredInOrder'
      BY <1>1, <2>2 DEF RestoredInOrder, Spends
    <2>5. PackagesRight'
      BY <1>1, <2>1, <2>2, <2>3 DEF PackagesRight, Counting, NoPackage
    <2> QED
      BY <1>1, <2>4, <2>5 DEF PackagesInv
  <1>3. CASE UpdateTransactionsFromBlock
    BY <1>1, <1>3, PackagesUpdate DEF PackagesInv
  <1>4. CASE Next /\ ~UpdateTransactionsFromBlock
    <2>1. Visits
      BY <1>1, <1>4, StepVisits
    <2>2. PoolSame \/ PoolLoses \/ PoolGains
      BY <1>1, <1>4, StepKinds DEF PoolInv, IndexInv, PoolLinks
    <2>3. PackagesRight'
      <3>1. CASE PoolSame
        BY <1>1, <2>1, <3>1, PackagesSame DEF PoolSame
      <3>2. CASE PoolLoses
        BY <1>1, <2>1, <3>2, PackagesLoseBelow, PackagesLoseConnected DEF PoolLoses
      <3>3. CASE PoolGains
        BY <1>1, <2>1, <3>3, PackagesGain DEF PoolGains
      <3> QED
        BY <2>2, <3>1, <3>2, <3>3
    <2> QED
      BY <1>1, <2>1, <2>3 DEF PackagesInv, Visits
  <1> QED
    BY <1>2, <1>3, <1>4

(* As long as evictions inside a reorganisation take whole families, every *)
(* entry is dirty or counts exactly its descendants, at every step; one    *)
(* that was put back and is still to be visited is never dirty.            *)
THEOREM PoolPackagesInvariant == Spec /\ []EvictsFamilies => []PackagesInv
  <1>1. Init => PackagesInv
    <2> SUFFICES ASSUME Init
                 PROVE  PackagesInv
      OBVIOUS
    <2>1. PoolInv
      BY PoolInit
    <2>2. mapTx = {} /\ job = Idle /\ pkg = [t \in Txs |-> NoPackage]
      BY DEF Init
    <2>3. ~Undoing
      BY <2>2 DEF Undoing, Disconnecting, Idle
    <2>4. PackagesRight
      BY <2>2 DEF PackagesRight
    <2> QED
      BY <2>1, <2>3, <2>4 DEF PackagesInv, RestoredInOrder
  <1>2. PackagesInv /\ EvictsFamilies /\ [Next]_vars => PackagesInv'
    BY PackagesNext
  <1> QED
    BY <1>1, <1>2, PTL DEF Spec

(* The totals with descendants that decide what TrimToSize evicts count    *)
(* every descendant once.                                                  *)
THEOREM PoolPackagesExact == Spec /\ []EvictsFamilies => []PackagesExact
  <1>1. PackagesInv => PackagesExact
    BY DEF PackagesInv, PackagesRight, PackagesExact, Counted, IsDirty
  <1> QED
    BY <1>1, PoolPackagesInvariant, PTL

(* Links and totals are of transactions of the pool, and no total counts a *)
(* transaction a negative number of times (CTxMemPoolEntry::UpdateState).  *)
THEOREM PoolTypeOK == Spec /\ []EvictsFamilies => []TypeOK
  <1>1. PackagesInv => TypeOK
    <2> SUFFICES ASSUME PackagesInv
                 PROVE  TypeOK
      OBVIOUS
    <2>1. SpendersExact /\ LinksMutual /\ Chains /\ PackagesRight /\ unpurged \in BOOLEAN
      BY DEF PackagesInv, PoolInv, IndexInv
    <2>2. chainActive \in Seq(Blocks) /\ pcoinsTip \in Seq(Blocks)
      BY <2>1 DEF Chains, ValidChain
    <2>3. mapTx \subseteq Txs /\ mapTx \subseteq Txs \ Generated /\ mapNextTx \in [Outpoints -> Txs \cup {NoTx}]
      BY <2>1 DEF SpendersExact, Txs0
    <2>4. parents \in [Txs -> SUBSET mapTx] /\ children \in [Txs -> SUBSET mapTx]
      BY <2>1 DEF LinksMutual
    <2>5. \A t \in Txs : pkg[t] = NoPackage \/ \E S : pkg[t] = Counting(NoPackage, S)
      BY <2>1 DEF PackagesRight
    <2>6. \A t \in Txs : pkg[t] \in [Txs -> Nat]
      <3>1. NoPackage \in [Txs -> Nat] /\ \A S : Counting(NoPackage, S) \in [Txs -> Nat]
        BY CountingFacts
      <3> QED
        BY <2>5, <3>1
    <2>7. pkg \in [Txs -> [Txs -> Nat]]
      <3>1. pkg = [t \in Txs |-> pkg[t]]
        BY <2>1 DEF PackagesRight
      <3> QED
        BY <2>6, <3>1
    <2>8. \A t \in Txs \ mapTx : parents[t] = {} /\ children[t] = {} /\ pkg[t] = NoPackage
      <3> SUFFICES ASSUME NEW t \in Txs, t \notin mapTx
                   PROVE  parents[t] = {} /\ children[t] = {} /\ pkg[t] = NoPackage
        OBVIOUS
      <3>1. \A u \in Txs : t \notin parents[u] /\ t \notin children[u]
        BY <2>4
      <3>2. parents[t] = {} /\ children[t] = {}
        BY <2>1, <2>3, <2>4, <3>1 DEF LinksMutual
      <3> QED
        BY <2>1, <3>2 DEF PackagesRight
    <2> QED
      BY <2>1, <2>2, <2>3, <2>4, <2>7, <2>8 DEF TypeOK
  <1> QED
    BY <1>1, PoolPackagesInvariant, PTL

-----------------------------------------------------------------------------
(* Sums of sizes: a sum over S of the sizes of sets is the size of their   *)
(* disjoint union.                                                         *)
Pairs(S, F) == {p \in S \X UNION {F[t] : t \in S} : p[2] \in F[p[1]]}
One(s) == CHOOSE x \in s : TRUE
SumBy(g, S, F) ==
    g = [s \in SUBSET S |-> IF s = {} THEN 0 ELSE Cardinality(F[One(s)]) + g[s \ {One(s)}]]
Finite(S, F) == IsFiniteSet(S) /\ \A t \in S : IsFiniteSet(F[t])

(* The pairs of a member of S and a member of its set *)
LEMMA PairsIs ==
  ASSUME NEW S, NEW F, NEW t, NEW u
  PROVE  <<t, u>> \in Pairs(S, F) <=> t \in S /\ u \in F[t]
  BY DEF Pairs

(* There are finitely many of them, *)
LEMMA PairsFinite ==
  ASSUME NEW S, NEW F, Finite(S, F)
  PROVE  IsFiniteSet(Pairs(S, F)) /\ Cardinality(Pairs(S, F)) \in Nat
  <1> DEFINE U == {F[t] : t \in S}
  <1>1. IsFiniteSet(U)
    <2> DEFINE f == [t \in S |-> F[t]]
    <2>1. f \in Surjection(S, U)
      BY DEF Surjection
    <2> HIDE DEF f, U
    <2> QED
      BY <2>1, FS_Surjection DEF Finite
  <1>2. IsFiniteSet(UNION U)
    <2>1. \A T \in U : IsFiniteSet(T)
      BY DEF Finite
    <2> HIDE DEF U
    <2> QED
      BY <1>1, <2>1, FS_UNION
  <1>3. IsFiniteSet(S \X UNION U)
    <2> HIDE DEF U
    <2> QED
      BY <1>2, FS_Product DEF Finite
  <1>4. Pairs(S, F) \in SUBSET (S \X UNION U)
    BY DEF Pairs
  <1> HIDE DEF U
  <1>5. IsFiniteSet(Pairs(S, F))
    BY <1>3, <1>4, FS_Subset
  <1> QED
    BY <1>5, FS_CardinalityType

(* and a member of S brings as many as its set has. *)
LEMMA PairsLess ==
  ASSUME NEW S, NEW F, Finite(S, F), NEW x \in S
  PROVE  Cardinality(Pairs(S, F)) = Cardinality(F[x]) + Cardinality(Pairs(S \ {x}, F))
  <1>1. Finite(S \ {x}, F)
    BY FS_RemoveElement DEF Finite
  <1>2. PICK P : P = Pairs(S \ {x}, F)
    OBVIOUS
  <1>3. PICK Q : Q = {x} \X F[x]
    OBVIOUS
  <1>4. IsFiniteSet(P) /\ Cardinality(P) \in Nat
    BY <1>1, <1>2, PairsFinite
  <1>5. IsFiniteSet(Q) /\ Cardinality(Q) = Cardinality(F[x]) /\ Cardinality(Q) \in Nat
    <2>1. IsFiniteSet({x}) /\ Cardinality({x}) = 1
      BY FS_Singleton
    <2>2. IsFiniteSet(F[x]) /\ Cardinality(F[x]) \in Nat
      BY FS_CardinalityType DEF Finite
    <2>3. IsFiniteSet(Q) /\ Cardinality(Q) = Cardinality({x}) * Cardinality(F[x])
      BY <1>3, <2>1, <2>2, FS_Product
    <2> QED
      BY <2>1, <2>2, <2>3
  <1>6. Pairs(S, F) = P \cup Q
    BY <1>2, <1>3 DEF Pairs
  <1>7. P \cap Q = {}
    BY <1>2, <1>3 DEF Pairs
  <1>8. Cardinality(P \cup Q) = Cardinality(P) + Cardinality(Q) - Cardinality({})
    BY <1>4, <1>5, <1>7, FS_Union
  <1> QED
    BY <1>2, <1>4, <1>5, <1>6, <1>8, FS_EmptySet

(* A function that is defined by the recursion of MapThenSumSet gives      *)
(* their number, by induction over the finite subsets of S,                *)
LEMMA SumIs ==
  ASSUME NEW S, NEW F, Finite(S, F), NEW g, SumBy(g, S, F)
  PROVE  g[S] = Cardinality(Pairs(S, F))
  <1> DEFINE B == {s \in FiniteSubsetsOf(S) : g[s] # Cardinality(Pairs(s, F))}
             R == StrictSubsetOrdering(S)
  <1>1. SUFFICES ASSUME B # {}
                 PROVE  FALSE
    <2>1. S \in FiniteSubsetsOf(S)
      BY DEF FiniteSubsetsOf, Finite
    <2> QED
      BY <2>1
  <1>2. IsWellFoundedOn(R, FiniteSubsetsOf(S))
    BY FS_StrictSubsetOrderingWellFounded
  <1>3. PICK s \in B : \A r \in B : ~(<<r, s>> \in R)
    <2>1. B \in SUBSET FiniteSubsetsOf(S)
      OBVIOUS
    <2> HIDE DEF B, R
    <2> QED
      BY <1>1, <1>2, <2>1, WFMin
  <1>4. s \in SUBSET S /\ IsFiniteSet(s) /\ g[s] # Cardinality(Pairs(s, F))
    BY <1>3 DEF FiniteSubsetsOf
  <1>5. CASE s = {}
    <2>1. g[s] = 0
      BY <1>4, <1>5 DEF SumBy
    <2>2. Pairs(s, F) = {}
      BY <1>5 DEF Pairs
    <2> QED
      BY <1>4, <2>1, <2>2, FS_EmptySet
  <1>6. CASE s # {}
    <2>1. PICK x : x = One(s)
      OBVIOUS
    <2>2. x \in s
      BY <1>6, <2>1 DEF One
    <2>3. g[s] = Cardinality(F[x]) + g[s \ {x}]
      BY <1>4, <1>6, <2>1 DEF SumBy
    <2>4. PICK r : r = s \ {x}
      OBVIOUS
    <2>5. r \in FiniteSubsetsOf(S) /\ <<r, s>> \in R
      BY <1>4, <2>2, <2>4, FS_RemoveElement DEF FiniteSubsetsOf, StrictSubsetOrdering
    <2>6. g[r] = Cardinality(Pairs(r, F))
      BY <1>3, <2>5
    <2>7. Finite(s, F)
      BY <1>4 DEF Finite
    <2> QED
      BY <1>4, <2>2, <2>3, <2>4, <2>6, <2>7, PairsLess
  <1> QED
    BY <1>5, <1>6

(* and there is one. *)
LEMMA SumExists ==
  ASSUME NEW S, NEW F, Finite(S, F)
  PROVE  \E g : SumBy(g, S, F)
  <1>1. PICK g : g = [s \in SUBSET S |-> Cardinality(Pairs(s, F))]
    OBVIOUS
  <1>2. ASSUME NEW s \in SUBSET S
        PROVE  g[s] = IF s = {} THEN 0 ELSE Cardinality(F[One(s)]) + g[s \ {One(s)}]
    <2>1. CASE s = {}
      <3>1. Pairs(s, F) = {}
        BY <2>1 DEF Pairs
      <3> QED
        BY <1>1, <2>1, <3>1, FS_EmptySet
    <2>2. CASE s # {}
      <3>1. PICK x : x = One(s)
        OBVIOUS
      <3>2. x \in s
        BY <2>2, <3>1 DEF One
      <3>3. Finite(s, F)
        BY FS_Subset DEF Finite
      <3>4. Cardinality(Pairs(s, F)) = Cardinality(F[x]) + Cardinality(Pairs(s \ {x}, F))
        BY <3>2, <3>3, PairsLess
      <3>5. g[s] = Cardinality(Pairs(s, F)) /\ g[s \ {x}] = Cardinality(Pairs(s \ {x}, F))
        BY <1>1
      <3> QED
        BY <2>2, <3>1, <3>4, <3>5
    <2> QED
      BY <2>1, <2>2
  <1>3. g = [s \in SUBSET S |-> IF s = {} THEN 0 ELSE Cardinality(F[One(s)]) + g[s \ {One(s)}]]
    BY <1>1, <1>2
  <1> QED
    BY <1>3 DEF SumBy

(* The sum over mapLinks is the number of links. *)
LEMMA LinkCountIs ==
  ASSUME NEW S, NEW links, Finite(S, links)
  PROVE  LinkCount(S, links) = Cardinality(Pairs(S, links))
  <1> DEFINE h == CHOOSE h : h = [s \in SUBSET S |-> IF s = {} THEN 0
                                     ELSE Cardinality(links[One(s)]) + h[s \ {One(s)}]]
  <1>1. LinkCount(S, links) = h[S]
    BY DEF LinkCount, MapThenSumSet, MapThenFoldSet, One
  <1>2. SumBy(h, S, links)
    <2>1. PICK g : SumBy(g, S, links)
      BY SumExists
    <2> QED
      BY <2>1 DEF SumBy
  <1> HIDE DEF h
  <1> QED
    BY <1>1, <1>2, SumIs

(* A transaction as so many units *)
Units == [t \in Txs |-> 1 .. Size[t]]

(* The sum of sizes is the number of units. *)
LEMMA SizeOfIs ==
  ASSUME NEW S \in SUBSET Txs, IsFiniteSet(S)
  PROVE  Finite(S, Units) /\ SizeOf(S) = Cardinality(Pairs(S, Units))
  <1> DEFINE h == CHOOSE h : h = [s \in SUBSET S |-> IF s = {} THEN 0
                                     ELSE Size[One(s)] + h[s \ {One(s)}]]
  <1>1. SizeOf(S) = h[S]
    BY DEF SizeOf, MapThenSumSet, MapThenFoldSet, One
  <1>2. \A t \in Txs : IsFiniteSet(Units[t]) /\ Cardinality(Units[t]) = Size[t] /\ Size[t] \in Nat
    <2> TAKE t \in Txs
    <2>1. Size[t] \in Nat /\ Size[t] > 0
      BY TxAssumption
    <2>2. Units[t] = 1 .. Size[t]
      BY DEF Units
    <2> QED
      BY <2>1, <2>2, FS_Interval
  <1>3. Finite(S, Units)
    BY <1>2 DEF Finite
  <1>4. PICK g : SumBy(g, S, Units)
    BY <1>3, SumExists
  <1>5. \A s \in SUBSET S : s # {} => One(s) \in Txs
    BY DEF One
  <1>6. g = [s \in SUBSET S |-> IF s = {} THEN 0 ELSE Size[One(s)] + g[s \ {One(s)}]]
    <2>1. \A s \in SUBSET S : g[s] = IF s = {} THEN 0 ELSE Size[One(s)] + g[s \ {One(s)}]
      BY <1>2, <1>4, <1>5 DEF SumBy
    <2>2. g = [s \in SUBSET S |-> g[s]]
      BY <1>4 DEF SumBy
    <2> QED
      BY <2>1, <2>2
  <1>7. h = [s \in SUBSET S |-> IF s = {} THEN 0 ELSE Size[One(s)] + h[s \ {One(s)}]]
    BY <1>6
  <1> HIDE DEF h
  <1>8. SumBy(h, S, Units)
    <2>1. \A s \in SUBSET S : h[s] = IF s = {} THEN 0 ELSE Cardinality(Units[One(s)]) + h[s \ {One(s)}]
      BY <1>2, <1>5, <1>7
    <2>2. h = [s \in SUBSET S |-> h[s]]
      BY <1>7
    <2> QED
      BY <2>1, <2>2 DEF SumBy
  <1> QED
    BY <1>1, <1>3, <1>8, SumIs
-----------------------------------------------------------------------------
Mirrored(A, P, Q) ==
    /\ P \subseteq A \X A /\ Q \subseteq A \X A
    /\ \A t \in A, u \in A : <<t, u>> \in P <=> <<u, t>> \in Q

(* Pairs are as many as their reversals. *)
LEMMA SwapCount ==
  ASSUME NEW A, NEW P, NEW Q, Mirrored(A, P, Q), IsFiniteSet(P)
  PROVE  IsFiniteSet(Q) /\ Cardinality(Q) = Cardinality(P)
  <1>1. PICK f : f = [p \in P |-> <<p[2], p[1]>>]
    OBVIOUS
  <1>2. f \in Bijection(P, Q)
    <2>1. f \in [P -> Q]
      BY <1>1 DEF Mirrored
    <2>2. \A p, q \in P : f[p] = f[q] => p = q
      BY <1>1 DEF Mirrored
    <2>3. \A q \in Q : \E p \in P : f[p] = q
      <3> TAKE q \in Q
      <3>1. PICK u \in A, t \in A : q = <<u, t>>
        BY DEF Mirrored
      <3>2. <<t, u>> \in P /\ f[<<t, u>>] = q
        BY <1>1, <3>1 DEF Mirrored
      <3> QED
        BY <3>2
    <2> QED
      BY <2>1, <2>2, <2>3 DEF Bijection, Injection, Surjection, IsInjective
  <1> QED
    BY <1>2, FS_Bijection DEF ExistsBijection

(* Sizes of sets that have no element in common add up. *)
LEMMA JoinCount ==
  ASSUME NEW P, NEW Q, NEW R, IsFiniteSet(P), IsFiniteSet(Q), R = P \cup Q, P \cap Q = {}
  PROVE  IsFiniteSet(R) /\ Cardinality(R) = Cardinality(P) + Cardinality(Q)
  <1>1. IsFiniteSet(R) /\ Cardinality(R) = Cardinality(P) + Cardinality(Q) - Cardinality({})
    BY FS_Union
  <1>2. Cardinality(P) \in Nat /\ Cardinality(Q) \in Nat
    BY FS_CardinalityType
  <1> QED
    BY <1>1, <1>2, FS_EmptySet

(* Every link is in both maps of mapLinks, so that both sums are the       *)
(* number of links.                                                        *)
LEMMA LinksBoth ==
  ASSUME NEW m \in SUBSET Txs, IsFiniteSet(m), NEW p \in [Txs -> SUBSET m], NEW c \in [Txs -> SUBSET m],
         \A t, u \in Txs : u \in c[t] <=> t \in p[u]
  PROVE  /\ Finite(m, p) /\ Finite(m, c)
         /\ LinkCount(m, p) = Cardinality(Pairs(m, p)) /\ LinkCount(m, p) \in Nat
         /\ LinkCount(m, c) = Cardinality(Pairs(m, p))
  <1>1. Finite(m, p) /\ Finite(m, c)
    <2>1. \A t \in m : p[t] \in SUBSET m /\ c[t] \in SUBSET m
      OBVIOUS
    <2> QED
      BY <2>1, FS_Subset DEF Finite
  <1>2. Pairs(m, p) \in SUBSET (m \X m) /\ Pairs(m, c) \in SUBSET (m \X m)
    BY DEF Pairs
  <1>3. \A t \in m, u \in m : <<t, u>> \in Pairs(m, p) <=> <<u, t>> \in Pairs(m, c)
    BY PairsIs
  <1>4. IsFiniteSet(Pairs(m, p)) /\ Cardinality(Pairs(m, p)) \in Nat
    BY <1>1, PairsFinite
  <1>5. Cardinality(Pairs(m, c)) = Cardinality(Pairs(m, p))
    <2>1. Mirrored(m, Pairs(m, p), Pairs(m, c))
      BY <1>2, <1>3 DEF Mirrored
    <2> QED
      BY <1>4, <2>1, SwapCount
  <1> QED
    BY <1>1, <1>4, <1>5, LinkCountIs

(* The size of the pool with one more transaction, *)
LEMMA SizeMore ==
  ASSUME NEW m \in SUBSET Txs, IsFiniteSet(m), NEW t \in Txs, t \notin m
  PROVE  SizeOf(m \cup {t}) = SizeOf(m) + Size[t] /\ SizeOf(m) \in Nat /\ Size[t] \in Nat
  <1>1. PICK n : n = m \cup {t}
    OBVIOUS
  <1>2. n \in SUBSET Txs /\ IsFiniteSet(n) /\ t \in n /\ n \ {t} = m
    BY <1>1, FS_AddElement
  <1>3. /\ Finite(n, Units) /\ SizeOf(n) = Cardinality(Pairs(n, Units))
        /\ Finite(m, Units) /\ SizeOf(m) = Cardinality(Pairs(m, Units))
    BY <1>2, SizeOfIs
  <1>4. Cardinality(Pairs(n, Units)) = Cardinality(Units[t]) + Cardinality(Pairs(m, Units))
    BY <1>2, <1>3, PairsLess
  <1>5. Size[t] \in Nat /\ Cardinality(Units[t]) = Size[t]
    <2>1. Size[t] \in Nat /\ Size[t] > 0
      BY TxAssumption
    <2>2. Units[t] = 1 .. Size[t]
      BY DEF Units
    <2> QED
      BY <2>1, <2>2, FS_Interval
  <1>6. Cardinality(Pairs(m, Units)) \in Nat
    BY <1>3, PairsFinite
  <1> QED
    BY <1>1, <1>3, <1>4, <1>5, <1>6

(* and with some less. *)
LEMMA SizeLess ==
  ASSUME NEW m \in SUBSET Txs, IsFiniteSet(m), NEW S \in SUBSET m
  PROVE  /\ SizeOf(m \ S) = SizeOf(m) - SizeOf(S)
         /\ SizeOf(m) \in Nat /\ SizeOf(S) \in Nat /\ SizeOf(m \ S) \in Nat
  <1>1. PICK n : n = m \ S
    OBVIOUS
  <1>2. n \in SUBSET Txs /\ IsFiniteSet(n) /\ S \in SUBSET Txs /\ IsFiniteSet(S)
    <2>1. n \in SUBSET m
      BY <1>1
    <2> QED
      BY <2>1, FS_Subset
  <1>3. /\ Finite(n, Units) /\ SizeOf(n) = Cardinality(Pairs(n, Units))
        /\ Finite(m, Units) /\ SizeOf(m) = Cardinality(Pairs(m, Units))
        /\ Finite(S, Units) /\ SizeOf(S) = Cardinality(Pairs(S, Units))
    BY <1>2, SizeOfIs
  <1>4. Pairs(m, Units) = Pairs(n, Units) \cup Pairs(S, Units)
    BY <1>1 DEF Pairs
  <1>5. Pairs(n, Units) \cap Pairs(S, Units) = {}
    BY <1>1 DEF Pairs
  <1>6. /\ IsFiniteSet(Pairs(n, Units)) /\ Cardinality(Pairs(n, Units)) \in Nat
        /\ IsFiniteSet(Pairs(S, Units)) /\ Cardinality(Pairs(S, Units)) \in Nat
    BY <1>3, PairsFinite
  <1>7. Cardinality(Pairs(m, Units)) = Cardinality(Pairs(n, Units)) + Cardinality(Pairs(S, Units))
    BY <1>4, <1>5, <1>6, JoinCount
  <1> QED
    BY <1>1, <1>3, <1>6, <1>7

-----------------------------------------------------------------------------
AccountInv == IsFiniteSet(mapTx) /\ AccountingExact

(* The sums of AccountingExact in terms of the set of links, before a step *)
LEMMA AccountBy ==
  ASSUME SpendersExact, LinksMutual, IsFiniteSet(mapTx)
  PROVE  /\ mapTx \in SUBSET Txs /\ Finite(mapTx, parents) /\ Finite(mapTx, children)
         /\ LinkCount(mapTx, parents) = Cardinality(Pairs(mapTx, parents))
         /\ LinkCount(mapTx, children) = Cardinality(Pairs(mapTx, parents))
         /\ Cardinality(Pairs(mapTx, parents)) \in Nat /\ IsFiniteSet(Pairs(mapTx, parents))
  <1>1. mapTx \in SUBSET Txs
    BY DEF SpendersExact, Txs0
  <1>2. /\ Finite(mapTx, parents) /\ Finite(mapTx, children)
        /\ LinkCount(mapTx, parents) = Cardinality(Pairs(mapTx, parents))
        /\ LinkCount(mapTx, children) = Cardinality(Pairs(mapTx, parents))
    BY <1>1, LinksBoth DEF LinksMutual
  <1> QED
    BY <1>1, <1>2, PairsFinite

(* and after it *)
LEMMA AccountByNext ==
  ASSUME SpendersExact', LinksMutual', IsFiniteSet(mapTx')
  PROVE  /\ mapTx' \in SUBSET Txs /\ Finite(mapTx', parents') /\ Finite(mapTx', children')
         /\ LinkCount(mapTx', parents') = Cardinality(Pairs(mapTx', parents'))
         /\ LinkCount(mapTx', children') = Cardinality(Pairs(mapTx', parents'))
         /\ Cardinality(Pairs(mapTx', parents')) \in Nat /\ IsFiniteSet(Pairs(mapTx', parents'))
  <1>1. mapTx' \in SUBSET Txs
    BY DEF SpendersExact, Txs0
  <1>2. /\ Finite(mapTx', parents') /\ Finite(mapTx', children')
        /\ LinkCount(mapTx', parents') = Cardinality(Pairs(mapTx', parents'))
        /\ LinkCount(mapTx', children') = Cardinality(Pairs(mapTx', parents'))
    BY <1>1, LinksBoth DEF LinksMutual
  <1> QED
    BY <1>1, <1>2, PairsFinite

(* addUnchecked adds the usage of the entry and of its links to both       *)
(* sides.                                                                  *)
LEMMA AccountGain ==
  ASSUME SpendersExact, LinksMutual, SpendersExact', LinksMutual', AccountInv,
         NEW t \in Txs, t \notin mapTx, NEW A, addUnchecked(t, A)
  PROVE  AccountInv'
  <1>1. PICK ps : ps = ParentsOf(t)
    OBVIOUS
  <1>2. /\ mapTx' = mapTx \cup {t} /\ parents' = [parents EXCEPT ![t] = ps]
        /\ cachedInnerUsage' = cachedInnerUsage + Size[t] + 2 * Cardinality(ps)
        /\ totalTxSize' = totalTxSize + Size[t]
    BY <1>1 DEF addUnchecked
  <1>3. IsFiniteSet(mapTx) /\ IsFiniteSet(mapTx')
    BY <1>2, FS_AddElement DEF AccountInv
  <1>4. mapTx \in SUBSET Txs /\ parents \in [Txs -> SUBSET mapTx]
    BY DEF LinksMutual, SpendersExact, Txs0
  <1>5. PICK now : now = Pairs(mapTx', parents')
    OBVIOUS
  <1>6. PICK was : was = Pairs(mapTx, parents)
    OBVIOUS
  <1>7. parents'[t] = ps /\ \A u \in mapTx : parents'[u] = parents[u]
    BY <1>2, <1>4
  <1>8. Finite(mapTx', parents') /\ t \in mapTx' /\ mapTx' \ {t} = mapTx
    BY <1>2, <1>3, AccountByNext
  <1>9. Cardinality(now) = Cardinality(ps) + Cardinality(was)
    <2>1. Cardinality(now) = Cardinality(parents'[t]) + Cardinality(Pairs(mapTx' \ {t}, parents'))
      BY <1>5, <1>8, PairsLess
    <2>2. Pairs(mapTx, parents') = was
      BY <1>6, <1>7 DEF Pairs
    <2> QED
      BY <1>7, <1>8, <2>1, <2>2
  <1>10. Cardinality(ps) \in Nat
    <2>1. ps \in SUBSET mapTx
      BY <1>1 DEF ParentsOf
    <2> QED
      BY <1>3, <2>1, FS_Subset, FS_CardinalityType
  <1>11. SizeOf(mapTx') = SizeOf(mapTx) + Size[t] /\ SizeOf(mapTx) \in Nat /\ Size[t] \in Nat
    BY <1>2, <1>3, <1>4, SizeMore
  <1>12. /\ LinkCount(mapTx, parents) = Cardinality(was) /\ LinkCount(mapTx, children) = Cardinality(was)
         /\ Cardinality(was) \in Nat
    BY <1>3, <1>6, AccountBy
  <1>13. LinkCount(mapTx', parents') = Cardinality(now) /\ LinkCount(mapTx', children') = Cardinality(now)
    BY <1>3, <1>5, AccountByNext
  <1>14. /\ totalTxSize = SizeOf(mapTx)
         /\ cachedInnerUsage = SizeOf(mapTx) + LinkCount(mapTx, parents) + LinkCount(mapTx, children)
    BY DEF AccountInv, AccountingExact
  <1>15. totalTxSize' = SizeOf(mapTx')
    BY <1>2, <1>11, <1>14
  <1>16. cachedInnerUsage' = SizeOf(mapTx') + LinkCount(mapTx', parents') + LinkCount(mapTx', children')
    BY <1>2, <1>9, <1>10, <1>11, <1>12, <1>13, <1>14
  <1> QED
    BY <1>3, <1>15, <1>16 DEF AccountInv, AccountingExact

(* UpdateTransactionsFromBlock adds that of the links it makes. *)
LEMMA AccountLinks ==
  ASSUME Chains, SpendersExact, LinksMutual, SpendersExact', LinksMutual', AccountInv,
         UpdateTransactionsFromBlock, NEW t, t = job.hashes[job.i], t \in mapTx
  PROVE  AccountInv'
  <1>1. PICK kids : kids = NewChildren(t, ToSet(job.hashes))
    OBVIOUS
  <1>2. /\ mapTx' = mapTx /\ totalTxSize' = totalTxSize
        /\ parents' = [u \in Txs |-> IF u \in kids THEN parents[u] \cup {t} ELSE parents[u]]
        /\ cachedInnerUsage' = cachedInnerUsage + Cardinality(kids \ children[t])
                                 + Cardinality({u \in kids : t \notin parents[u]})
    BY <1>1 DEF UpdateTransactionsFromBlock
  <1>3. mapTx \in SUBSET Txs /\ parents \in [Txs -> SUBSET mapTx] /\ t \in Txs
    BY DEF LinksMutual, SpendersExact, Txs0
  <1>4. kids \subseteq mapTx
    <2>1. ChildrenOf(t) = {u \in mapTx : Spends(u, t)}
      BY <1>3, ChildrenFacts
    <2> QED
      BY <1>1, <2>1 DEF NewChildren
  <1>5. PICK new : new = kids \ children[t]
    OBVIOUS
  <1>6. new = {u \in kids : t \notin parents[u]}
    BY <1>3, <1>4, <1>5 DEF LinksMutual
  <1>7. IsFiniteSet(mapTx) /\ IsFiniteSet(new) /\ Cardinality(new) \in Nat
    <2>1. new \in SUBSET mapTx
      BY <1>4, <1>5
    <2> QED
      BY <2>1, FS_Subset, FS_CardinalityType DEF AccountInv
  <1>8. PICK now : now = Pairs(mapTx', parents')
    OBVIOUS
  <1>9. PICK was : was = Pairs(mapTx, parents)
    OBVIOUS
  <1>10. PICK more : more = new \X {t}
    OBVIOUS
  <1>11. IsFiniteSet(more) /\ Cardinality(more) = Cardinality(new)
    <2>1. IsFiniteSet({t}) /\ Cardinality({t}) = 1
      BY FS_Singleton
    <2>2. IsFiniteSet(more) /\ Cardinality(more) = Cardinality(new) * Cardinality({t})
      BY <1>7, <1>10, <2>1, FS_Product
    <2> QED
      BY <1>7, <2>1, <2>2
  <1>12. now = was \cup more
    <2>1. now \subseteq mapTx \X mapTx /\ was \subseteq mapTx \X mapTx /\ more \subseteq mapTx \X mapTx
      <3>1. parents' \in [Txs -> SUBSET mapTx]
        BY <1>2 DEF LinksMutual
      <3> QED
        BY <1>2, <1>3, <1>4, <1>5, <1>8, <1>9, <1>10, <3>1 DEF Pairs
    <2>2. \A u, v \in mapTx : <<u, v>> \in now <=> <<u, v>> \in was \cup more
      <3> TAKE u, v \in mapTx
      <3>1. <<u, v>> \in now <=> v \in parents'[u]
        BY <1>2, <1>8, PairsIs
      <3>2. <<u, v>> \in was <=> v \in parents[u]
        BY <1>9, PairsIs
      <3>3. <<u, v>> \in more <=> u \in kids /\ t \notin parents[u] /\ v = t
        BY <1>6, <1>10
      <3>4. parents'[u] = IF u \in kids THEN parents[u] \cup {t} ELSE parents[u]
        BY <1>2, <1>3
      <3> QED
        BY <3>1, <3>2, <3>3, <3>4
    <2> QED
      BY <2>1, <2>2
  <1>13. was \cap more = {}
    <2>1. \A u \in new : <<u, t>> \notin was
      BY <1>6, <1>9, PairsIs
    <2> QED
      BY <1>10, <2>1
  <1>14. /\ LinkCount(mapTx, parents) = Cardinality(was) /\ LinkCount(mapTx, children) = Cardinality(was)
         /\ Cardinality(was) \in Nat /\ IsFiniteSet(was)
    BY <1>7, <1>9, AccountBy
  <1>15. LinkCount(mapTx', parents') = Cardinality(now) /\ LinkCount(mapTx', children') = Cardinality(now)
    BY <1>2, <1>7, <1>8, AccountByNext
  <1>16. Cardinality(now) = Cardinality(was) + Cardinality(new)
    BY <1>11, <1>12, <1>13, <1>14, JoinCount
  <1>17. /\ totalTxSize = SizeOf(mapTx)
         /\ cachedInnerUsage = SizeOf(mapTx) + LinkCount(mapTx, parents) + LinkCount(mapTx, children)
    BY DEF AccountInv, AccountingExact
  <1>18. SizeOf(mapTx) \in Nat
    BY <1>3, <1>7, SizeLess
  <1>19. cachedInnerUsage' = SizeOf(mapTx') + LinkCount(mapTx', parents') + LinkCount(mapTx', children')
    <2>1. cachedInnerUsage' = cachedInnerUsage + Cardinality(new) + Cardinality(new)
      BY <1>2, <1>5, <1>6
    <2>2. SizeOf(mapTx') = SizeOf(mapTx)
      BY <1>2
    <2> QED
      BY <1>7, <1>14, <1>15, <1>16, <1>17, <1>18, <2>1, <2>2
  <1> QED
    BY <1>2, <1>7, <1>17, <1>19 DEF AccountInv, AccountingExact

(* RemoveStaged gives back that of the entries, of the links to their      *)
(* parents, and of the links to children that stay: each link once at      *)
(* either end, although UpdateChild, UpdateParent and removeUnchecked find *)
(* them at different moments.                                              *)
LEMMA AccountLose ==
  ASSUME SpendersExact, LinksMutual, SpendersExact', LinksMutual', AccountInv,
         NEW S \in SUBSET mapTx, RemoveStaged(S)
  PROVE  AccountInv'
  <1>1. PICK staying : staying = [t \in Txs |-> children[t] \ {r \in S : t \in parents[r]}]
    OBVIOUS
  <1>2. /\ mapTx' = mapTx \ S
        /\ parents' = [t \in Txs |-> IF t \in S THEN {} ELSE parents[t] \ {r \in S : t \in staying[r]}]
        /\ cachedInnerUsage' = cachedInnerUsage - FreedUsage(S, staying)
        /\ totalTxSize' = totalTxSize - SizeOf(S)
    BY <1>1 DEF RemoveStaged
  <1>3. /\ mapTx \in SUBSET Txs /\ parents \in [Txs -> SUBSET mapTx] /\ children \in [Txs -> SUBSET mapTx]
        /\ \A t, u \in Txs : u \in children[t] <=> t \in parents[u]
    BY DEF LinksMutual, SpendersExact, Txs0
  <1>4. IsFiniteSet(mapTx) /\ IsFiniteSet(mapTx') /\ IsFiniteSet(S)
    <2>1. mapTx' \in SUBSET mapTx
      BY <1>2
    <2> QED
      BY <2>1, FS_Subset DEF AccountInv
  <1>5. \A r \in Txs : staying[r] = children[r] \ S
    BY <1>1, <1>3
  <1>6. \A t \in mapTx \ S : parents'[t] = parents[t] \ S
    BY <1>2, <1>3, <1>5
  <1>7. PICK now : now = Pairs(mapTx', parents')
    OBVIOUS
  <1>8. PICK was : was = Pairs(mapTx, parents)
    OBVIOUS
  <1>9. PICK up : up = Pairs(S, parents)
    OBVIOUS
  <1>10. PICK down : down = {p \in was : p[1] \notin S /\ p[2] \in S}
    OBVIOUS
  <1>11. /\ LinkCount(mapTx, parents) = Cardinality(was) /\ LinkCount(mapTx, children) = Cardinality(was)
         /\ Cardinality(was) \in Nat /\ IsFiniteSet(was) /\ Finite(mapTx, parents) /\ Finite(mapTx, children)
    BY <1>4, <1>8, AccountBy
  <1>12. /\ LinkCount(mapTx', parents') = Cardinality(now) /\ LinkCount(mapTx', children') = Cardinality(now)
         /\ Cardinality(now) \in Nat /\ IsFiniteSet(now)
    BY <1>4, <1>7, AccountByNext
  <1>13. LinkCount(S, parents) = Cardinality(up) /\ IsFiniteSet(up) /\ Cardinality(up) \in Nat
    <2>1. Finite(S, parents)
      BY <1>4, <1>11 DEF Finite
    <2> QED
      BY <1>9, <2>1, LinkCountIs, PairsFinite
  <1>14. was \subseteq mapTx \X mapTx
    BY <1>3, <1>8 DEF Pairs
  <1>15. IsFiniteSet(down) /\ Cardinality(down) \in Nat
    <2>1. down \in SUBSET was
      BY <1>10
    <2> QED
      BY <1>11, <2>1, FS_Subset, FS_CardinalityType
  <1>16. LinkCount(S, staying) = Cardinality(down)
    <2>1. \A r \in S : staying[r] \in SUBSET mapTx
      BY <1>3, <1>5
    <2>2. Finite(S, staying)
      BY <1>4, <2>1, FS_Subset DEF Finite
    <2>3. Pairs(S, staying) \subseteq mapTx \X mapTx
      BY <2>1 DEF Pairs
    <2>4. \A t \in mapTx, u \in mapTx : <<t, u>> \in down <=> <<u, t>> \in Pairs(S, staying)
      <3> TAKE t \in mapTx, u \in mapTx
      <3>1. <<t, u>> \in down <=> u \in parents[t] /\ t \notin S /\ u \in S
        BY <1>8, <1>10, PairsIs
      <3>2. <<u, t>> \in Pairs(S, staying) <=> u \in S /\ t \in staying[u]
        BY PairsIs
      <3> QED
        BY <1>3, <1>5, <3>1, <3>2
    <2>5. Mirrored(mapTx, down, Pairs(S, staying))
      BY <1>10, <1>14, <2>3, <2>4 DEF Mirrored
    <2> QED
      BY <1>15, <2>2, <2>5, SwapCount, LinkCountIs
  <1>17. PICK gone : gone = up \cup down
    OBVIOUS
  <1>18. was = now \cup gone /\ now \cap gone = {} /\ up \cap down = {}
    <2>1. \A t, u \in mapTx : <<t, u>> \in was <=> u \in parents[t]
      BY <1>8, PairsIs
    <2>2. \A t, u \in mapTx : <<t, u>> \in now <=> t \notin S /\ u \notin S /\ u \in parents[t]
      <3> TAKE t, u \in mapTx
      <3>1. <<t, u>> \in now <=> t \in mapTx \ S /\ u \in parents'[t]
        BY <1>2, <1>7, PairsIs
      <3> QED
        BY <1>6, <3>1
    <2>3. \A t, u \in mapTx : <<t, u>> \in up <=> t \in S /\ u \in parents[t]
      BY <1>9, PairsIs
    <2>4. \A t, u \in mapTx : <<t, u>> \in down <=> u \in parents[t] /\ t \notin S /\ u \in S
      BY <1>10, <2>1
    <2>5. now \subseteq mapTx \X mapTx /\ up \subseteq mapTx \X mapTx /\ down \subseteq mapTx \X mapTx
      <3>1. parents' \in [Txs -> SUBSET mapTx]
        BY <1>2 DEF LinksMutual
      <3> QED
        BY <1>2, <1>3, <1>7, <1>9, <1>10, <1>14, <3>1 DEF Pairs
    <2>6. was = now \cup gone
      BY <1>14, <1>17, <2>1, <2>2, <2>3, <2>4, <2>5
    <2>7. now \cap gone = {}
      BY <1>17, <2>2, <2>3, <2>4, <2>5
    <2>8. up \cap down = {}
      BY <2>3, <2>4, <2>5
    <2> QED
      BY <2>6, <2>7, <2>8
  <1>19. IsFiniteSet(gone) /\ Cardinality(gone) = Cardinality(up) + Cardinality(down)
    BY <1>13, <1>15, <1>17, <1>18, JoinCount
  <1>20. Cardinality(was) = Cardinality(now) + Cardinality(gone)
    BY <1>12, <1>18, <1>19, JoinCount
  <1>21. /\ SizeOf(mapTx') = SizeOf(mapTx) - SizeOf(S)
         /\ SizeOf(mapTx) \in Nat /\ SizeOf(S) \in Nat /\ SizeOf(mapTx') \in Nat
    BY <1>2, <1>3, <1>4, SizeLess
  <1>22. /\ totalTxSize = SizeOf(mapTx)
         /\ cachedInnerUsage = SizeOf(mapTx) + LinkCount(mapTx, parents) + LinkCount(mapTx, children)
    BY DEF AccountInv, AccountingExact
  <1>23. totalTxSize' = SizeOf(mapTx')
    BY <1>2, <1>21, <1>22
  <1>24. FreedUsage(S, staying) = 2 * Cardinality(up) + 2 * Cardinality(down) + SizeOf(S)
    BY <1>13, <1>15, <1>16, <1>21 DEF FreedUsage
  <1>25. cachedInnerUsage' = SizeOf(mapTx') + LinkCount(mapTx', parents') + LinkCount(mapTx', children')
    BY <1>2, <1>11, <1>12, <1>13, <1>15, <1>19, <1>20, <1>21, <1>22, <1>24
  <1> QED
    BY <1>4, <1>23, <1>25 DEF AccountInv, AccountingExact

(* Every step keeps the accounts. *)
LEMMA AccountNext ==
  ASSUME Chains, SpendersExact, LinksMutual, LinksReal, SpendersExact', LinksMutual', AccountInv, [Next]_vars
  PROVE  AccountInv'
  <1>1. CASE PoolSame \/ UNCHANGED vars
    <2>1. UNCHANGED <<mapTx, parents, children, cachedInnerUsage, totalTxSize>>
      BY <1>1 DEF PoolSame, poolVars, vars
    <2> QED
      BY <2>1 DEF AccountInv, AccountingExact
  <1>2. CASE PoolLoses
    BY <1>2, AccountLose DEF PoolLoses
  <1>3. CASE PoolGains
    <2>1. PICK t \in Txs : Acceptable(t) /\ addUnchecked(t, AncestorsToBe(t))
      BY <1>3 DEF PoolGains
    <2>2. t \notin mapTx
      BY <2>1 DEF Acceptable
    <2> QED
      BY <2>1, <2>2, AccountGain
  <1>4. CASE PoolLinks
    BY <1>4, AccountLinks DEF PoolLinks
  <1> QED
    BY <1>1, <1>2, <1>3, <1>4, StepKinds

(* Whatever is added, removed, evicted, put back or linked, totalTxSize    *)
(* and cachedInnerUsage, which addUnchecked, removeUnchecked, UpdateChild  *)
(* and UpdateParent adjust one by one, are the sums over the entries and   *)
(* links of the pool. The pool is finite, so that there are sums.          *)
THEOREM PoolAccountingExact == Spec => []AccountInv
  <1>1. Init => AccountInv
    <2> SUFFICES ASSUME Init
                 PROVE  AccountInv
      OBVIOUS
    <2>1. mapTx = {} /\ totalTxSize = 0 /\ cachedInnerUsage = 0
      BY DEF Init
    <2>2. SizeOf({}) = 0 /\ \A links : LinkCount({}, links) = 0
      <3>1. IsFiniteSet({}) /\ Cardinality({}) = 0
        BY FS_EmptySet
      <3>2. \A F : Finite({}, F) /\ Pairs({}, F) = {}
        BY <3>1 DEF Finite, Pairs
      <3> QED
        BY <3>1, <3>2, SizeOfIs, LinkCountIs
    <2> QED
      BY <2>1, <2>2, FS_EmptySet DEF AccountInv, AccountingExact
  <1>2. IndexInv /\ IndexInv' /\ AccountInv /\ [Next]_vars => AccountInv'
    BY AccountNext DEF IndexInv
  <1> QED
    BY <1>1, <1>2, PoolIndexInvariant, PTL DEF Spec

(* With the packages, every total the pool keeps is exact, as long as what *)
(* is evicted in the middle of DisconnectTip goes with its descendants.    *)
THEOREM PoolTotalsExact == Spec /\ []EvictsFamilies => []TotalsExact
  <1>1. PackagesExact /\ AccountInv => TotalsExact
    BY DEF TotalsExact, AccountInv
  <1> QED
    BY <1>1, PoolPackagesExact, PoolAccountingExact, PTL
=============================================================================
