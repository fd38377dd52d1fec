------------------------------ MODULE MemPool -------------------------------
(***************************************************************************)
(* The memory pool (txmempool.cpp) and the code of main.cpp that fills and *)
(* empties it: AcceptToMemoryPool, the transactions that DisconnectTip     *)
(* puts back, the ones that ConnectTip removes, and the repairs after a    *)
(* reorganisation.                                                         *)
(*                                                                         *)
(* Everything here runs under cs_main, but CTxMemPool::cs is released      *)
(* between the steps, so that the intermediate states are visible to       *)
(* readers.  Loops are one step per iteration; job says where the holder   *)
(* of cs_main is.                                                          *)
(*                                                                         *)
(* The package totals of an entry (count, size and fees with descendants)  *)
(* change together: pkg[t][u] is how often u is included in those of t,    *)
(* and a dirty entry (count 0) includes nothing.  Scripts, signatures and  *)
(* relay policy are an oracle.  Zerocoin spends, which have no outpoints,  *)
(* priorities and the fee estimator are left out.                          *)
(***************************************************************************)
EXTENDS Integers, Sequences, FiniteSets, FiniteSetsExt, SequencesExt

CONSTANTS
    NoTx,
    Txs,                \* transactions, the ones of blocks only included
    Generated,          \* coinbases and coinstakes
    Vout,               \* outpoints <<t, n>> a transaction creates
    Vin,                \* outpoints a transaction spends
    Fee, Size,
    FinalFrom,          \* first block height at which a transaction is final
    Blocks, Base,       \* Base stands for the chain up to it, which never changes
    Prev, Vtx,          \* parent and transactions of a block
    Maturity,           \* nCoinbaseMaturity
    LimitAncestors, LimitDescendants,
    MaxToVisit,         \* maxDescendantsToVisit, 100 in the code
    SizeLimit           \* -maxmempool

Outpoints == UNION {Vout[t] : t \in Txs}

ASSUME TxAssumption ==
    /\ NoTx \notin Txs /\ Generated \subseteq Txs
    /\ Vout \in [Txs -> SUBSET (Txs \X Nat)] /\ \A t \in Txs : \A o \in Vout[t] : o[1] = t
    /\ Vin \in [Txs -> SUBSET Outpoints] /\ \A t \in Txs \ Generated : Vin[t] # {}
    /\ Fee \in [Txs -> Nat] /\ Size \in [Txs -> Nat \ {0}] /\ FinalFrom \in [Txs -> Nat]
ASSUME BlockAssumption ==
    /\ Base \in Blocks /\ Prev \in [Blocks \ {Base} -> Blocks]
    /\ Vtx \in [Blocks -> Seq(Txs)] /\ \A b \in Blocks : Len(Vtx[b]) > 0
    /\ \A k \in DOMAIN Vtx[Base] :
          Vin[Vtx[Base][k]] \subseteq UNION {Vout[Vtx[Base][j]] : j \in DOMAIN Vtx[Base]}
ASSUME LimitAssumption ==
    /\ Maturity \in Nat /\ LimitAncestors \in Nat /\ LimitDescendants \in Nat
    /\ MaxToVisit \in Nat /\ SizeLimit \in Nat

VARIABLES
    mapTx,              \* the transactions of the pool
    mapNextTx,          \* the spender of an outpoint in the pool
    parents, children,  \* mapLinks
    pkg,                \* what the totals with descendants include
    cachedInnerUsage, totalTxSize,
    chainActive,        \* the active chain, from Base
    pcoinsTip,          \* the blocks the coin view has applied
    job,                \* what the holder of cs_main is doing
    unpurged            \* history: blocks were disconnected without removeForReorg

poolVars  == <<mapTx, mapNextTx, parents, children, pkg, cachedInnerUsage, totalTxSize>>
chainVars == <<chainActive, pcoinsTip>>
vars == <<poolVars, chainVars, job, unpurged>>

-----------------------------------------------------------------------------
(* Links *)

(* The least set that holds S and, with a transaction, its successors.     *)
Closure(S, succ) ==
    {u \in Txs : \A C \in SUBSET mapTx : (S \subseteq C /\ \A v \in C : succ[v] \subseteq C) => u \in C}

(* CalculateDescendants, of every member of S *)
CalculateDescendants(S) == Closure(S, children)

(* GetMemPoolParents and GetMemPoolChildren, as a search through mapTx and *)
(* mapNextTx would find them                                               *)
ParentsOf(t)  == {o[1] : o \in Vin[t]} \cap mapTx
ChildrenOf(t) == {mapNextTx[o] : o \in Vout[t]} \ {NoTx}

(* CalculateMemPoolAncestors with fSearchForParents = false *)
AncestorsOf(t) == Closure(parents[t], parents)

NoPackage == [u \in Txs |-> 0]
Counting(p, S) == [u \in Txs |-> IF u \in S THEN p[u] + 1 ELSE p[u]]
IsDirty(t) == pkg[t] = NoPackage
CountWithDescendants(t) == MapThenSumSet(LAMBDA u : pkg[t][u], Txs)
SizeWithDescendants(t) == IF IsDirty(t) THEN Size[t] ELSE MapThenSumSet(LAMBDA u : pkg[t][u] * Size[u], Txs)
FeesWithDescendants(t) == IF IsDirty(t) THEN Fee[t]  ELSE MapThenSumSet(LAMBDA u : pkg[t][u] * Fee[u], Txs)

SizeOf(S) == MapThenSumSet(LAMBDA t : Size[t], S)
LinkCount(S, links) == MapThenSumSet(LAMBDA t : Cardinality(links[t]), S)

(* Estimate of the memory in use: entries, mapNextTx, mapLinks and cachedInnerUsage *)
DynamicMemoryUsage ==
    2 * Cardinality(mapTx) + Cardinality({o \in Outpoints : mapNextTx[o] # NoTx}) + cachedInnerUsage

-----------------------------------------------------------------------------
(* Additions and removals *)

(* addUnchecked, with the ancestors that AcceptToMemoryPool calculated: t  *)
(* is taken to have no children.                                           *)
addUnchecked(t, ancestors) ==
    LET ps == ParentsOf(t) IN
    /\ mapTx' = mapTx \cup {t}
    /\ mapNextTx' = [o \in Outpoints |-> IF o \in Vin[t] THEN t ELSE mapNextTx[o]]
    /\ parents' = [parents EXCEPT ![t] = ps]
    /\ children' = [u \in Txs |-> IF u \in ps THEN children[u] \cup {t} ELSE children[u]]
    /\ pkg' = [u \in Txs |-> CASE u = t -> Counting(NoPackage, {t})
                               [] u \in ancestors /\ ~IsDirty(u) -> Counting(pkg[u], {t})
                               [] OTHER -> pkg[u]]
    /\ cachedInnerUsage' = cachedInnerUsage + Size[t] + 2 * Cardinality(ps)
    /\ totalTxSize' = totalTxSize + Size[t]

(* Mutant: the ancestors are searched for through the inputs, not the      *)
(* links, in the middle of a reorganisation too.                           *)
LessRemoved_Searches(u, S) ==
    IF IsDirty(u) THEN pkg[u]
    ELSE LET found == Closure({u}, [w \in Txs |-> IF w \in mapTx THEN ChildrenOf(w) ELSE {}])
         IN  [v \in Txs |-> IF v \in S /\ v \in found THEN pkg[u][v] - 1 ELSE pkg[u][v]]

(* The totals of u after UpdateForRemoveFromMempool(S): the ancestors that *)
(* the links know lose every removed transaction.                          *)
LessRemoved(u, S) ==
    IF IsDirty(u) THEN pkg[u]
    ELSE [v \in Txs |-> IF v \in S /\ u \in AncestorsOf(v) THEN pkg[u][v] - 1 ELSE pkg[u][v]]

(* Mutant: the links to children that stay are not given back. *)
FreedUsage_NoChildren(S, staying) == SizeOf(S) + 2 * LinkCount(S, parents) + LinkCount(S, staying)

(* What UpdateChild and UpdateParent give back for the links they sever,   *)
(* and removeUnchecked for the entry and the links it still has            *)
FreedUsage(S, staying) ==
    LinkCount(S, parents) + LinkCount(S, staying)
        + SizeOf(S) + LinkCount(S, parents) + LinkCount(S, staying)

(* RemoveStaged: UpdateAncestorsOf takes the removed out of the children   *)
(* of their parents, UpdateChildrenForRemoval out of the parents of the    *)
(* children that stay, and removeUnchecked gives back what is left.        *)
RemoveStaged(S) ==
    LET staying == [t \in Txs |-> children[t] \ {r \in S : t \in parents[r]}] IN
    /\ mapTx' = mapTx \ S
    /\ mapNextTx' = [o \in Outpoints |-> IF \E r \in S : o \in Vin[r] THEN NoTx ELSE mapNextTx[o]]
    /\ children' = [t \in Txs |-> IF t \in S THEN {} ELSE staying[t]]
    /\ parents' = [t \in Txs |-> IF t \in S THEN {} ELSE parents[t] \ {r \in S : t \in staying[r]}]
    /\ pkg' = [t \in Txs |-> IF t \in S THEN NoPackage ELSE LessRemoved(t, S)]
    /\ cachedInnerUsage' = cachedInnerUsage - FreedUsage(S, staying)
    /\ totalTxSize' = totalTxSize - SizeOf(S)

(* Mutant: the children of a transaction that is not in the pool stay. *)
Removal_Present(t) == CalculateDescendants({t} \cap mapTx)

(* What remove(t, fRecursive = true) removes: t, or its children when it   *)
(* is not in the pool, with all descendants.                               *)
Removal(t) == CalculateDescendants(IF t \in mapTx THEN {t} ELSE ChildrenOf(t))

-----------------------------------------------------------------------------
(* The coin view and AcceptToMemoryPool *)

Confirmed(blocks) == UNION {ToSet(Vtx[b]) : b \in ToSet(blocks)}

(* Unspent outputs after the given transactions, or blocks *)
Unspent(txs) == (UNION {Vout[t] : t \in txs}) \ (UNION {Vin[t] : t \in txs})
Coins(blocks) == Unspent(Confirmed(blocks))

(* Height of a confirmed transaction, Base being at height 1 *)
HeightOf(blocks, t) == CHOOSE h \in DOMAIN blocks : t \in ToSet(Vtx[blocks[h]])

(* Consensus::CheckTxInputs: a generated coin needs Maturity blocks before *)
(* a block at the given height may spend it.                               *)
Immature(blocks, o, height) ==
    o[1] \in Generated /\ height - HeightOf(blocks, o[1]) < Maturity

(* CCoinsViewMemPool: outputs of the pool, or unspent coins *)
Available(o) == o[1] \in mapTx \/ o \in Coins(pcoinsTip)

(* CalculateMemPoolAncestors with fSearchForParents = true *)
AncestorsToBe(t) == Closure(ParentsOf(t), parents)

WithinLimits(t) ==
    /\ Cardinality(AncestorsToBe(t)) + 1 <= LimitAncestors
    /\ \A u \in AncestorsToBe(t) : CountWithDescendants(u) + 1 <= LimitDescendants

(* The tests of AcceptToMemoryPoolWorker.  The height of CheckFinalTx is   *)
(* the active chain's, that of CheckInputs the coin view's.                *)
Acceptable(t) ==
    /\ t \notin Generated /\ t \notin mapTx
    /\ FinalFrom[t] <= Len(chainActive) + 1
    /\ \A o \in Vin[t] : mapNextTx[o] = NoTx
    /\ Vout[t] \cap Coins(pcoinsTip) = {}
    /\ \A o \in Vin[t] :
          /\ Available(o)
          /\ o[1] \in mapTx \/ ~Immature(pcoinsTip, o, Len(pcoinsTip) + 1)
    /\ WithinLimits(t)

Idle == [at |-> "idle"]

Init ==
    /\ mapTx = {} /\ mapNextTx = [o \in Outpoints |-> NoTx]
    /\ parents = [t \in Txs |-> {}] /\ children = [t \in Txs |-> {}]
    /\ pkg = [t \in Txs |-> NoPackage]
    /\ cachedInnerUsage = 0 /\ totalTxSize = 0
    /\ chainActive = <<Base>> /\ pcoinsTip = <<Base>>
    /\ job = Idle /\ unpurged = FALSE

(* AcceptToMemoryPool of a transaction from the network or the wallet.     *)
(* LimitMempoolSize follows.                                               *)
AcceptToMemoryPool(t) ==
    /\ job = Idle /\ Acceptable(t)
    /\ addUnchecked(t, AncestorsToBe(t))
    /\ job' = [at |-> "expire", then |-> Idle]
    /\ UNCHANGED <<chainVars, unpurged>>

-----------------------------------------------------------------------------
(* LimitMempoolSize *)

(* Expire: the clock decides which entries are too old. *)
Expire ==
    /\ job.at = "expire"
    /\ \E old \in SUBSET mapTx : RemoveStaged(CalculateDescendants(old))
    /\ job' = [at |-> "trim", then |-> job.then]
    /\ UNCHANGED <<chainVars, unpurged>>

(* CompareTxMemPoolEntryByFee: by the better of the own fee rate and that  *)
(* of the package, which Rate gives as fees and size.                      *)
Rate(t) ==
    IF FeesWithDescendants(t) * Size[t] > Fee[t] * SizeWithDescendants(t)
    THEN <<FeesWithDescendants(t), SizeWithDescendants(t)>> ELSE <<Fee[t], Size[t]>>

Cheapest(t) == \A u \in mapTx : Rate(t)[1] * Rate(u)[2] <= Rate(u)[1] * Rate(t)[2]

(* One turn of the loop of TrimToSize *)
Trim ==
    /\ job.at = "trim" /\ DynamicMemoryUsage > SizeLimit
    /\ \E t \in mapTx : Cheapest(t) /\ RemoveStaged(CalculateDescendants({t}))
    /\ UNCHANGED <<chainVars, job, unpurged>>

TrimDone ==
    /\ job.at = "trim" /\ DynamicMemoryUsage <= SizeLimit
    /\ job' = job.then
    /\ UNCHANGED <<poolVars, chainVars, unpurged>>

-----------------------------------------------------------------------------
(* DisconnectTip *)

(* The coin view goes back one block before chainActive does.  Called by   *)
(* ActivateBestChainStep ("reorg"), InvalidateBlock and DisconnectBlocks   *)
(* ("replay").                                                             *)
DisconnectTip(op) ==
    /\ job = Idle \/ (job.at = "disconnected" /\ job.op = op)
    /\ Len(chainActive) > 1
    /\ pcoinsTip' = Front(pcoinsTip)
    /\ job' = [at |-> "resurrect", op |-> op, i |-> 1, hashes |-> <<>>]
    /\ unpurged' = TRUE
    /\ UNCHANGED <<poolVars, chainActive>>

Resurrected == Vtx[Last(chainActive)][job.i]
NextResurrect(hashes) ==
    IF job.i = Len(Vtx[Last(chainActive)])
    THEN [at |-> "update", op |-> job.op, i |-> Len(hashes), hashes |-> hashes]
    ELSE [at |-> "resurrect", op |-> job.op, i |-> job.i + 1, hashes |-> hashes]

(* AcceptToMemoryPool takes the transaction back.  fOverrideMempoolLimit   *)
(* skips LimitMempoolSize, but not the TrimToSize that follows it.         *)
ResurrectAccept ==
    /\ job.at = "resurrect" /\ Acceptable(Resurrected)
    /\ addUnchecked(Resurrected, AncestorsToBe(Resurrected))
    /\ job' = [at |-> "trim", then |-> [job EXCEPT !.at = "accepted"]]
    /\ UNCHANGED <<chainVars, unpurged>>

(* It is refused, by the tests above or by policy, or generated: what      *)
(* depends on it goes.                                                     *)
ResurrectRefuse ==
    /\ job.at = "resurrect"
    /\ RemoveStaged(Removal(Resurrected))
    /\ job' = NextResurrect(job.hashes)
    /\ UNCHANGED <<chainVars, unpurged>>

(* TrimToSize may have removed it again. *)
ResurrectDone ==
    /\ job.at = "accepted"
    /\ \/ /\ Resurrected \in mapTx
          /\ job' = NextResurrect(Append(job.hashes, Resurrected))
          /\ UNCHANGED poolVars
       \/ /\ Resurrected \notin mapTx
          /\ RemoveStaged(Removal(Resurrected))
          /\ job' = NextResurrect(job.hashes)
    /\ UNCHANGED <<chainVars, unpurged>>

(* UpdateForDescendants: the totals of t with the descendants that are not *)
(* counted yet; dirty when one of them is, or when there are too many.     *)
UpdateForDescendants(t, links, exclude) ==
    LET descendants == Closure(links[t], links)
        new == descendants \ exclude
    IN  IF \/ \E u \in descendants : IsDirty(u)
           \/ Cardinality(new \ links[t]) > MaxToVisit
        THEN NoPackage ELSE Counting(pkg[t], new)

(* Mutant: the children in the pool are not found. *)
NewChildren_None(t, included) == {}

NewChildren(t, included) == ChildrenOf(t) \ included

(* UpdateTransactionsFromBlock, last transaction first: the children that  *)
(* were in the pool before are linked.                                     *)
UpdateTransactionsFromBlock ==
    /\ job.at = "update" /\ job.i > 0
    /\ LET t        == job.hashes[job.i]
           included == ToSet(job.hashes)
           kids     == NewChildren(t, included)
           links    == [children EXCEPT ![t] = @ \cup kids]
       IN  IF t \notin mapTx THEN UNCHANGED poolVars
           ELSE /\ children' = links
                /\ parents' = [u \in Txs |-> IF u \in kids THEN parents[u] \cup {t} ELSE parents[u]]
                /\ cachedInnerUsage' = cachedInnerUsage + Cardinality(kids \ children[t])
                                         + Cardinality({u \in kids : t \notin parents[u]})
                /\ pkg' = [pkg EXCEPT ![t] = UpdateForDescendants(t, links, included)]
                /\ UNCHANGED <<mapTx, mapNextTx, totalTxSize>>
    /\ job' = [job EXCEPT !.i = @ - 1]
    /\ UNCHANGED <<chainVars, unpurged>>

(* UpdateTip *)
TipDisconnected ==
    /\ job.at = "update" /\ job.i = 0
    /\ chainActive' = pcoinsTip
    /\ job' = [at |-> "disconnected", op |-> job.op]
    /\ UNCHANGED <<poolVars, pcoinsTip, unpurged>>

-----------------------------------------------------------------------------
(* ConnectTip *)

(* ConnectBlock, as far as it decides what a block may spend: HaveInputs,  *)
(* one transaction after the other.  The height in a coinbase, or a spent  *)
(* input, keeps a transaction from being in a chain twice.                 *)
ConnectBlock(b, blocks) ==
    \A k \in DOMAIN Vtx[b] :
        LET before == Confirmed(blocks) \cup {Vtx[b][j] : j \in 1 .. k - 1}
        IN  Vtx[b][k] \notin before /\ Vin[Vtx[b][k]] \subseteq Unspent(before)

(* ConnectBlock has accepted b and its coins are flushed to pcoinsTip. *)
ConnectTip(b) ==
    /\ job = Idle \/ job.at = "connected" \/ (job.at = "disconnected" /\ job.op = "reorg")
    /\ b # Base /\ Prev[b] = Last(chainActive) /\ ConnectBlock(b, pcoinsTip)
    /\ pcoinsTip' = Append(pcoinsTip, b)
    /\ job' = [at |-> "remove", op |-> IF job = Idle THEN "extend" ELSE job.op, i |-> 1]
    /\ UNCHANGED <<poolVars, chainActive, unpurged>>

Connected == Vtx[Last(pcoinsTip)][job.i]

(* removeForBlock: the transaction leaves the pool, not its children, *)
RemoveForBlock ==
    /\ job.at = "remove"
    /\ RemoveStaged({Connected} \cap mapTx)
    /\ job' = [job EXCEPT !.at = "conflicts"]
    /\ UNCHANGED <<chainVars, unpurged>>

(* and removeConflicts takes whatever spends its inputs. *)
RemoveConflicts ==
    /\ job.at = "conflicts"
    /\ RemoveStaged(CalculateDescendants({mapNextTx[o] : o \in Vin[Connected]} \ {NoTx, Connected}))
    /\ IF job.i = Len(Vtx[Last(pcoinsTip)])
       THEN chainActive' = pcoinsTip /\ job' = [at |-> "connected", op |-> job.op]
       ELSE UNCHANGED chainActive /\ job' = [job EXCEPT !.at = "remove", !.i = @ + 1]
    /\ UNCHANGED <<pcoinsTip, unpurged>>

-----------------------------------------------------------------------------
(* What follows a change of the chain *)

Limit(then) == [at |-> "expire", then |-> then]
Purge(then) == [at |-> "purge", then |-> then]

(* The end of ActivateBestChainStep, also when a block was found invalid *)
StepDone ==
    /\ job.at \in {"connected", "disconnected"} /\ job.op \in {"extend", "reorg"}
    /\ job' = IF job.op = "reorg" THEN Purge(Limit(Idle)) ELSE Idle
    /\ UNCHANGED <<poolVars, chainVars, unpurged>>

(* A system error ends ActivateBestChainStep at once. *)
StepFails ==
    /\ job.at \in {"connected", "disconnected"} /\ job.op = "reorg"
    /\ job' = Idle
    /\ UNCHANGED <<poolVars, chainVars, unpurged>>

(* InvalidateBlock limits the pool when every block is disconnected, and   *)
(* not when one cannot be.                                                 *)
InvalidateDone ==
    /\ job.at = "disconnected" /\ job.op = "invalidate"
    /\ job' \in {Limit(Purge(Idle)), Purge(Idle)}
    /\ UNCHANGED <<poolVars, chainVars, unpurged>>

(* DisconnectBlocks repairs nothing. *)
ReplayDone ==
    /\ job.at = "disconnected" /\ job.op = "replay"
    /\ job' = Idle
    /\ UNCHANGED <<poolVars, chainVars, unpurged>>

(* Mutant: transactions that are not final any more stay. *)
NoLongerValid_NotFinal(t) ==
    /\ \E o \in Vin[t] : o[1] \in Generated
    /\ \E o \in Vin[t] : /\ o[1] \notin mapTx
                         /\ \/ o \notin Coins(pcoinsTip)
                            \/ Immature(pcoinsTip, o, Len(chainActive) + 1)

(* removeForReorg collects what is not final any more, and spenders of     *)
(* generated coins that are gone or not mature any more,                   *)
NoLongerValid(t) ==
    \/ FinalFrom[t] > Len(chainActive) + 1
    \/ /\ \E o \in Vin[t] : o[1] \in Generated
       /\ \E o \in Vin[t] : /\ o[1] \notin mapTx
                            /\ \/ o \notin Coins(pcoinsTip)
                               \/ Immature(pcoinsTip, o, Len(chainActive) + 1)

RemoveForReorg ==
    /\ job.at = "purge"
    /\ job' = [at |-> "purging", todo |-> {t \in mapTx : NoLongerValid(t)}, then |-> job.then]
    /\ UNCHANGED <<poolVars, chainVars, unpurged>>

(* and removes each with its descendants. *)
PurgeOne ==
    /\ job.at = "purging"
    /\ \E t \in job.todo : RemoveStaged(Removal(t)) /\ job' = [job EXCEPT !.todo = @ \ {t}]
    /\ UNCHANGED <<chainVars, unpurged>>

PurgeDone ==
    /\ job.at = "purging" /\ job.todo = {}
    /\ job' = job.then /\ unpurged' = FALSE
    /\ UNCHANGED <<poolVars, chainVars>>

Next ==
    \/ \E t \in Txs : AcceptToMemoryPool(t)
    \/ Expire \/ Trim \/ TrimDone
    \/ \E op \in {"reorg", "invalidate", "replay"} : DisconnectTip(op)
    \/ ResurrectAccept \/ ResurrectRefuse \/ ResurrectDone
    \/ UpdateTransactionsFromBlock \/ TipDisconnected
    \/ \E b \in Blocks : ConnectTip(b)
    \/ RemoveForBlock \/ RemoveConflicts
    \/ StepDone \/ StepFails \/ InvalidateDone \/ ReplayDone
    \/ RemoveForReorg \/ PurgeOne \/ PurgeDone

Spec == Init /\ [][Next]_vars

-----------------------------------------------------------------------------
(* Properties *)

(* The state is well typed; a transaction outside the pool has no links    *)
(* and no totals, and no total counts a transaction a negative number of   *)
(* times (the assertions of CTxMemPoolEntry::UpdateState).                 *)
TypeOK ==
    /\ mapTx \subseteq Txs \ Generated
    /\ mapNextTx \in [Outpoints -> Txs \cup {NoTx}]
    /\ parents \in [Txs -> SUBSET mapTx] /\ children \in [Txs -> SUBSET mapTx]
    /\ pkg \in [Txs -> [Txs -> Nat]]
    /\ \A t \in Txs \ mapTx : parents[t] = {} /\ children[t] = {} /\ pkg[t] = NoPackage
    /\ chainActive \in Seq(Blocks) /\ pcoinsTip \in Seq(Blocks) /\ unpurged \in BOOLEAN

(* The transactions that DisconnectTip has put back, and those of them     *)
(* that UpdateTransactionsFromBlock has still to visit                     *)
Disconnecting == IF job.at = "trim" THEN job.then ELSE job
Restored ==
    CASE Disconnecting.at \in {"resurrect", "update"} -> ToSet(Disconnecting.hashes)
      [] Disconnecting.at = "accepted" ->
             ToSet(Disconnecting.hashes) \cup {Vtx[Last(chainActive)][Disconnecting.i]}
      [] OTHER -> {}
NotVisited == IF job.at = "update" THEN {job.hashes[k] : k \in 1..job.i} ELSE Restored

(* The children that t is not linked to yet *)
Unlinked(t) == IF t \in NotVisited THEN ChildrenOf(t) \ Restored ELSE {}

(* mapNextTx names exactly the spenders in the pool, and mapLinks agrees   *)
(* with it (the assertions of CTxMemPool::check): at every moment the only *)
(* missing links are those from a transaction that DisconnectTip has just  *)
(* put back to the children that stayed in the pool without it, which the  *)
(* comments of addUnchecked and UpdateForRemoveFromMempool rely on.        *)
LinksExact ==
    /\ \A o \in Outpoints, t \in Txs : mapNextTx[o] = t <=> t \in mapTx /\ o \in Vin[t]
    /\ \A t \in mapTx : /\ children[t] = ChildrenOf(t) \ Unlinked(t)
                        /\ parents[t] = {p \in ParentsOf(t) : t \notin Unlinked(p)}

(* The totals of an entry that is not dirty count the transaction and each *)
(* of its descendants once, whatever was added, removed, put back, trimmed *)
(* or expired before; they decide what TrimToSize evicts and which         *)
(* transactions are refused for too many descendants.  Only a transaction  *)
(* that UpdateTransactionsFromBlock has still to visit lacks those that    *)
(* stayed in the pool without it.                                          *)
PackagesExact ==
    \A t \in mapTx :
        LET descendants == CalculateDescendants({t})
            counted == IF t \in NotVisited THEN descendants \cap Restored ELSE descendants
        IN  IsDirty(t) \/ pkg[t] = Counting(NoPackage, counted)

(* cachedInnerUsage and totalTxSize, unsigned numbers adjusted in seven    *)
(* places, are exact at every step.                                        *)
AccountingExact ==
    /\ totalTxSize = SizeOf(mapTx)
    /\ cachedInnerUsage = SizeOf(mapTx) + LinkCount(mapTx, parents) + LinkCount(mapTx, children)

(* Every total the pool keeps, of its entries and of itself, is exact. *)
TotalsExact == PackagesExact /\ AccountingExact

(* The chain and its coin view agree and no block is half undone. *)
Settled == chainActive = pcoinsTip /\ Restored = {}

(* Every input of a transaction of the pool is an unspent coin or an       *)
(* output of another one in the pool (CTxMemPool::check), after every      *)
(* connected or disconnected block.                                        *)
InputsAvailable == Settled => \A t \in mapTx : \A o \in Vin[t] : Available(o)

(* Every transaction of the pool may be in the next block: it is final and *)
(* spends only mature coins, unless blocks were disconnected by a caller   *)
(* that does not call removeForReorg.                                      *)
PoolIsMinable ==
    job = Idle /\ ~unpurged =>
        \A t \in mapTx :
            /\ FinalFrom[t] <= Len(chainActive) + 1
            /\ \A o \in Vin[t] : o[1] \in mapTx \/ ~Immature(pcoinsTip, o, Len(pcoinsTip) + 1)
=============================================================================
