----------------------------- MODULE ChainState -----------------------------
(***************************************************************************)
(* The block tree and the active chain of main.cpp: which blocks are       *)
(* known, have data, are linked to genesis or have failed, the candidates  *)
(* for the tip, and how threads move the tip.                              *)
(*                                                                         *)
(* A step is what a thread does between two points at which another        *)
(* thread, or a crash, can observe the state: a critical section of        *)
(* cs_main, cut at every block that is connected or disconnected, since    *)
(* these write to disk.  pindexBestInvalid and pindexBestHeader, which     *)
(* only feed warnings and RPC answers, are left out; coins, mempool and    *)
(* wallets are other components.                                           *)
(***************************************************************************)
EXTENDS Integers, FiniteSets, FiniteSetsExt

CONSTANTS
    Threads,        \* message handler, RPC and mining threads
    None,           \* no thread, no block
    Genesis,
    Blocks,         \* every block of the run but Genesis
    Parent,         \* hashPrevBlock of a block
    nChainWork,     \* of a block: its parent's and GetBlockProof of its own
    Stake,          \* proof of stake blocks
    BadContext,     \* blocks ContextualCheckBlock finds invalid
    BadConnect,     \* blocks ConnectBlock finds invalid
    maxReorg,       \* -maxreorg
    Address,        \* the address of a block's CBlockIndex
    Invalidatable,  \* blocks an operator calls invalidateblock on
    Reconsiderable, \* blocks an operator calls reconsiderblock on
    Checkpointed,   \* blocks that match a checkpoint
    Faults,         \* what may meet a system error: an operation before it flushes; FlushStateToDisk
                    \* ("flush"), but for the batch of the block index, which "write" lets a step
                    \* lose and "periodic" a periodic flush
    MaxCalls,       \* bound: RPC calls
    MaxCrashes      \* bound: crashes

Tree == Blocks \cup {Genesis}

(* The ancestors of a block, itself included: what is reached through      *)
(* pprev, the least set with the block that holds the parent of each of    *)
(* its blocks.                                                             *)
HasParents(S) == \A b \in S \ {Genesis} : Parent[b] \in S
Ancestors == [b \in Tree |-> {a \in Tree : \A S \in SUBSET Tree : b \in S /\ HasParents(S) => a \in S}]

ASSUME TreeAssumption ==
    /\ Genesis \notin Blocks /\ None \notin Tree \cup Threads /\ IsFiniteSet(Blocks)
    /\ Parent \in [Blocks -> Tree]
    /\ \A b \in Blocks : Genesis \in Ancestors[b]
ASSUME BlockAssumption ==
    /\ nChainWork \in [Tree -> Nat] /\ \A b \in Blocks : nChainWork[b] > nChainWork[Parent[b]]
    /\ Address \in [Tree -> Nat] /\ \A a, b \in Tree : a # b => Address[a] # Address[b]
    /\ Stake \cup BadContext \cup BadConnect \subseteq Blocks
    /\ Invalidatable \cup Reconsiderable \cup Checkpointed \subseteq Blocks
ASSUME BoundAssumption ==
    /\ maxReorg \in Nat /\ MaxCalls \in Nat /\ MaxCrashes \in Nat
    /\ Faults \subseteq {"connect", "disconnect", "invalidate", "flush", "write", "periodic"}

VARIABLES
    index,          \* mapBlockIndex
    data,           \* blocks with BLOCK_HAVE_DATA
    linked,         \* blocks with nChainTx # 0
    failedValid,    \* blocks with BLOCK_FAILED_VALID
    failedChild,    \* blocks with BLOCK_FAILED_CHILD
    nSequenceId,    \* of every block
    unlinked,       \* mapBlocksUnlinked: B for every pair <<Parent[B], B>>
    candidates,     \* setBlockIndexCandidates
    tip,            \* chainActive.Tip()
    coinsBest,      \* pcoinsTip->GetBestBlock()
    dirty,          \* setDirtyBlockIndex
    disk,           \* the block tree database, and the tip of the coin database
    lock,           \* the holder of cs_main
    pc,             \* where each thread is
    goal,           \* pindexMostWork, or the argument of InvalidateBlock
    oldTip,         \* pindexOldTip of ActivateBestChainStep
    calls, crashes, \* bounded counters
    gaveUp,         \* history: "step" when ActivateBestChainStep met a system error and nothing has
                    \* found the tip best since, "invalidate" when InvalidateBlock met one
    lost            \* history: "yes" when a batch of the block index was lost since the last start,
                    \* "before" when one was lost earlier, or else "no"

treeVars   == <<index, data, linked, failedValid, failedChild, nSequenceId, unlinked>>
threadVars == <<pc, goal, oldTip>>
vars == <<treeVars, candidates, tip, coinsBest, dirty, disk, lock, threadVars, calls, crashes, gaveUp, lost>>

-----------------------------------------------------------------------------
(* nHeight of a block. *)
Height == [b \in Tree |-> Cardinality(Ancestors[b]) - 1]

(* CBlockIndexWorkComparator under sequence numbers seq: a sorts below b.  *)
WorseWith(seq, a, b) ==
    \/ nChainWork[a] < nChainWork[b]
    \/ nChainWork[a] = nChainWork[b] /\ seq[a] > seq[b]
    \/ nChainWork[a] = nChainWork[b] /\ seq[a] = seq[b] /\ Address[a] > Address[b]

Worse(a, b) == WorseWith(nSequenceId, a, b)

Active == Ancestors[tip]
Failed == failedValid \cup failedChild

FindFork(b) == CHOOSE a \in Active \cap Ancestors[b] :
                   \A c \in Active \cap Ancestors[b] : Height[c] <= Height[a]

(* Mutant: the tip itself is pruned. *)
Pruned_Tip(cands, t) == {c \in cands : Worse(t, c)}

(* PruneBlockIndexCandidates, when the tip is t. *)
Pruned(cands, t) == {c \in cands : ~Worse(c, t)}

-----------------------------------------------------------------------------
(* Mutant: the block index is not written before the coins. *)
IndexWritten_Not(d, fv, fc) == disk

(* WriteBatchSync of the dirty entries d of the block index. *)
IndexWritten(d, fv, fc) ==
    [disk EXCEPT !.index = @ \cup d, !.data = (@ \ d) \cup (data \cap d),
                 !.failedValid = (@ \ d) \cup (fv \cap d),
                 !.failedChild = (@ \ d) \cup (fc \cap d)]

(* FlushStateToDisk(FLUSH_STATE_ALWAYS): the block index, then the coins.   *)
FlushAll(d, fv, fc, t) ==
    /\ disk' = [IndexWritten(d, fv, fc) EXCEPT !.tip = t]
    /\ dirty' = {}

(* FlushStateToDisk in a mode other than ALWAYS: nothing is due, or the    *)
(* block index, or the coins too.                                          *)
FlushIfDue(d, fv, fc, t) ==
    \/ disk' = disk /\ dirty' = d
    \/ disk' = IndexWritten(d, fv, fc) /\ dirty' = {}
    \/ FlushAll(d, fv, fc, t)

(* FlushStateToDisk returns false, and the node is asked to shut down:     *)
(* before anything is written, once the index is written, or when          *)
(* WriteBatchSync throws, after setDirtyBlockIndex was emptied.  (Bound: a *)
(* restart is left.)                                                       *)
FlushFails(d, fv, fc, loss) ==
    /\ crashes < MaxCrashes
    /\ \/ "flush" \in Faults /\ disk' = disk /\ dirty' = d /\ lost' = lost
       \/ "flush" \in Faults /\ disk' = IndexWritten(d, fv, fc) /\ dirty' = {} /\ lost' = lost
       \/ loss \in Faults /\ d # {} /\ disk' = disk /\ dirty' = {} /\ lost' = "yes"

-----------------------------------------------------------------------------
Init ==
    /\ index = {Genesis} /\ data = {Genesis} /\ linked = {Genesis}
    /\ failedValid = {} /\ failedChild = {} /\ unlinked = {}
    /\ nSequenceId = [b \in Tree |-> 0]
    /\ candidates = {Genesis} /\ tip = Genesis /\ coinsBest = Genesis
    /\ dirty = {}
    /\ disk = [index |-> {Genesis}, data |-> {Genesis}, failedValid |-> {}, failedChild |-> {},
               tip |-> Genesis]
    /\ lock = None
    /\ pc = [t \in Threads |-> "idle"]
    /\ goal = [t \in Threads |-> None] /\ oldTip = [t \in Threads |-> None]
    /\ calls = 0 /\ crashes = 0 /\ gaveUp = {} /\ lost = "no"

(* Thread t leaves its critical section and goes to label. *)
Release(t, label) ==
    /\ lock' = None
    /\ pc' = [pc EXCEPT ![t] = label]
    /\ goal' = [goal EXCEPT ![t] = None]
    /\ oldTip' = [oldTip EXCEPT ![t] = None]

-----------------------------------------------------------------------------
(* AcceptBlock, as ProcessNewBlock calls it: b's parent is known and has   *)
(* not failed, and b itself has not.                                       *)
MayAccept(t, b) ==
    /\ pc[t] = "idle" /\ lock = None
    /\ Parent[b] \in index \ Failed
    /\ b \notin Failed
    /\ b \in index \/ Height[tip] - Height[b] < maxReorg

(* Mutant: the limit is met one block late. *)
ForkIsShort_Late(b) ==
    LET fork == Ancestors[Parent[b]] \ Active
    IN  b \in Stake /\ Parent[b] # tip
            => Cardinality(fork) <= maxReorg /\ fork \cup {FindFork(b)} \subseteq data

(* A proof of stake block that does not extend the tip: the fork it        *)
(* extends is on disk and is not too long.                                 *)
ForkIsShort(b) ==
    LET fork == Ancestors[Parent[b]] \ Active
    IN  b \in Stake /\ Parent[b] # tip
            => Cardinality(fork) < maxReorg /\ fork \cup {FindFork(b)} \subseteq data

(* The block is already on disk: ActivateBestChain is called all the same. *)
AcceptDuplicate(t, b) ==
    /\ MayAccept(t, b) /\ b \in data
    /\ pc' = [pc EXCEPT ![t] = "activate"]
    /\ UNCHANGED <<treeVars, candidates, tip, coinsBest, dirty, disk, lock, goal, oldTip, calls,
                   crashes, gaveUp, lost>>

(* Mutant: the block is marked without an entry in the index. *)
AcceptInvalid_NoHeader(t, b) ==
    /\ MayAccept(t, b) /\ b \notin data /\ b \in BadContext
    /\ failedValid' = failedValid \cup {b}
    /\ UNCHANGED <<index, dirty, data, linked, failedChild, nSequenceId, unlinked, candidates, tip,
                   coinsBest, disk, lock, threadVars, calls, crashes, gaveUp, lost>>

(* The header is added; ContextualCheckBlock finds the block invalid. *)
AcceptInvalid(t, b) ==
    /\ MayAccept(t, b) /\ b \notin data /\ b \in BadContext
    /\ index' = index \cup {b}
    /\ failedValid' = failedValid \cup {b}
    /\ dirty' = dirty \cup {b}
    /\ UNCHANGED <<data, linked, failedChild, nSequenceId, unlinked, candidates, tip, coinsBest,
                   disk, lock, threadVars, calls, crashes, gaveUp, lost>>

(* The header is added; the stake's inputs or the fork are refused, or     *)
(* there is no disk space, and the block is not marked.                    *)
AcceptRejected(t, b) ==
    /\ MayAccept(t, b) /\ b \notin data \cup BadContext
    /\ index' = index \cup {b}
    /\ dirty' = IF b \in index THEN dirty ELSE dirty \cup {b}
    /\ UNCHANGED <<data, linked, failedValid, failedChild, nSequenceId, unlinked, candidates, tip,
                   coinsBest, disk, lock, threadVars, calls, crashes, gaveUp, lost>>

(* Mutant: the descendants that were waiting for b are left waiting. *)
NewlyLinked_Alone(b) == IF Parent[b] \in linked THEN {b} ELSE {}

(* Mutant: b is linked whether or not its parent is. *)
NewlyLinked_Always(b) == {b}

(* The blocks ReceivedBlockTransactions links when b arrives: b and the    *)
(* descendants mapBlocksUnlinked leads to.                                 *)
NewlyLinked(b) ==
    IF Parent[b] \in linked
    THEN {c \in unlinked \cup {b} : b \in Ancestors[c] /\ Ancestors[c] \ Ancestors[b] \subseteq unlinked}
    ELSE {}

(* mapBlocksUnlinked once b has arrived and the blocks new are linked. *)
StillUnlinked(b, new) == IF new = {} THEN unlinked \cup {b} ELSE unlinked \ new

(* The sequence numbers they may get: in the order of a breadth first walk.*)
Numberings(S) ==
    LET first == 1 + Max({nSequenceId[b] : b \in Tree})
    IN  {f \in [S -> first .. first + Cardinality(S) - 1] :
            \A c, d \in S : c # d => f[c] # f[d] /\ (Height[c] < Height[d] => f[c] < f[d])}

(* The block is written to disk; ReceivedBlockTransactions; then           *)
(* ProcessNewBlock calls ActivateBestChain.                                *)
AcceptStored(t, b) ==
    LET new == NewlyLinked(b)
    IN  /\ MayAccept(t, b) /\ b \notin data \cup BadContext
        /\ ForkIsShort(b)
        /\ index' = index \cup {b}
        /\ data' = data \cup {b}
        /\ dirty' = dirty \cup {b}
        /\ linked' = linked \cup new
        /\ unlinked' = StillUnlinked(b, new)
        /\ \E f \in Numberings(new) :
               LET seq == [c \in Tree |-> IF c \in new THEN f[c] ELSE nSequenceId[c]]
               IN  /\ nSequenceId' = seq
                   /\ candidates' = candidates \cup {c \in new : ~WorseWith(seq, c, tip)}
        /\ pc' = [pc EXCEPT ![t] = "activate"]
        /\ UNCHANGED <<failedValid, failedChild, tip, coinsBest, disk, lock, goal, oldTip, calls,
                       crashes, gaveUp, lost>>

-----------------------------------------------------------------------------
(* FindMostWorkChain.  The blocks off the active chain on c's path, and    *)
(* those above the last failed one.                                        *)
Path(c) == Ancestors[c] \ Active
Usable(c) == Path(c) \cap Failed = {}
AboveFailed(c) == {b \in Path(c) : (Ancestors[c] \ Ancestors[Parent[b]]) \cap Failed = {}}

(* The candidates found unusable before the best usable one. *)
Skipped == {c \in candidates : ~Usable(c) /\ \A d \in candidates : Usable(d) => Worse(d, c)}

(* A thread in ActivateBestChain gets cs_main: FindMostWorkChain marks and *)
(* drops the candidates it skips (marks are not made dirty), and the call  *)
(* returns, or a step towards the best candidate begins.                   *)
FindMostWorkChain(t) ==
    LET marked == UNION {AboveFailed(c) : c \in Skipped}
        lastFailed == UNION {{b \in Path(c) \cap Failed :
                                 (Ancestors[c] \ Ancestors[b]) \cap Failed = {}} : c \in Skipped}
        left == candidates \ (marked \cup lastFailed)
        best == {c \in left : \A d \in left : ~Worse(c, d)}
    IN  /\ pc[t] = "activate" /\ lock = None
        /\ failedChild' = failedChild \cup marked
        /\ candidates' = left
        /\ \/ /\ best \subseteq {tip}
              /\ Release(t, "idle")
              /\ gaveUp' = gaveUp \ {"step"}
           \/ \E b \in best \ {tip} :
                 /\ lock' = t
                 /\ pc' = [pc EXCEPT ![t] = "step"]
                 /\ goal' = [goal EXCEPT ![t] = b]
                 /\ oldTip' = [oldTip EXCEPT ![t] = tip]
                 /\ gaveUp' = gaveUp
        /\ UNCHANGED <<index, data, linked, failedValid, nSequenceId, unlinked, tip, coinsBest,
                       dirty, disk, calls, crashes, lost>>

-----------------------------------------------------------------------------
(* ActivateBestChainStep towards goal[t], with cs_main held throughout.    *)
(* The next block to connect once the tip is the fork.                     *)
InStep(t) == pc[t] = "step" /\ lock = t
AtFork(t) == tip \in Ancestors[goal[t]]
NextBlock(t) == CHOOSE b \in Ancestors[goal[t]] : b # Genesis /\ Parent[b] = tip

(* The assertion of ConnectBlock and DisconnectBlock that the coins are    *)
(* those of the tip: a thread that finds them elsewhere ends the process,  *)
(* see CrashAndRestart.                                                    *)
CoinsAtTip == coinsBest = tip

(* A tip that is not on goal's chain is disconnected: DisconnectTip always *)
(* flushes.                                                                *)
DisconnectTip(t) ==
    /\ InStep(t) /\ ~AtFork(t) /\ CoinsAtTip
    /\ FlushAll(dirty, failedValid, failedChild, Parent[tip])
    /\ tip' = Parent[tip] /\ coinsBest' = Parent[tip]
    /\ UNCHANGED <<treeVars, candidates, lock, threadVars, calls, crashes, gaveUp, lost>>

(* ConnectTip: the step ends when the new tip has more work than the old   *)
(* one, or is the goal.                                                    *)
ConnectTip(t) ==
    /\ InStep(t) /\ AtFork(t) /\ CoinsAtTip /\ NextBlock(t) \notin BadConnect
    /\ FlushIfDue(dirty \cup {NextBlock(t)}, failedValid, failedChild, NextBlock(t))
    /\ tip' = NextBlock(t) /\ coinsBest' = NextBlock(t)
    /\ candidates' = Pruned(candidates, NextBlock(t))
    /\ IF NextBlock(t) = goal[t] \/ nChainWork[NextBlock(t)] > nChainWork[oldTip[t]]
       THEN /\ lock' = None
            /\ pc' = [pc EXCEPT ![t] = "test"]
            /\ oldTip' = [oldTip EXCEPT ![t] = None]
       ELSE UNCHANGED <<lock, pc, oldTip>>
    /\ UNCHANGED <<treeVars, goal, calls, crashes, gaveUp, lost>>

(* Mutant: the block that failed to connect stays a candidate. *)
InvalidBlockFound_Kept(b) ==
    /\ failedValid' = failedValid
    /\ dirty' = dirty \cup {b}
    /\ candidates' = candidates

InvalidBlockFound(b) ==
    /\ failedValid' = failedValid \cup {b}
    /\ dirty' = dirty \cup {b}
    /\ candidates' = candidates \ {b}

(* ConnectBlock finds the block invalid: the step ends where it is. *)
ConnectInvalid(t) ==
    /\ InStep(t) /\ AtFork(t) /\ CoinsAtTip /\ NextBlock(t) \in BadConnect
    /\ InvalidBlockFound(NextBlock(t))
    /\ lock' = None
    /\ pc' = [pc EXCEPT ![t] = "test"]
    /\ oldTip' = [oldTip EXCEPT ![t] = None]
    /\ UNCHANGED <<index, data, linked, failedChild, nSequenceId, unlinked, tip, coinsBest, disk,
                   goal, calls, crashes, gaveUp, lost>>

(* A system error in DisconnectTip or ConnectTip before the coins have     *)
(* moved: ActivateBestChain returns false and leaves the chain where it is *)
(* (ConnectBlock may have made its block dirty).                           *)
StepFails(t) ==
    /\ InStep(t)
    /\ \/ ~AtFork(t) /\ "disconnect" \in Faults /\ dirty' = dirty
       \/ AtFork(t) /\ "connect" \in Faults /\ dirty' \in {dirty, dirty \cup {NextBlock(t)}}
    /\ Release(t, "idle")
    /\ gaveUp' = gaveUp \cup {"step"}
    /\ UNCHANGED <<treeVars, candidates, tip, coinsBest, disk, calls, crashes, lost>>

(* The flush of DisconnectTip or ConnectTip fails: view.Flush() has moved  *)
(* the coins, and the tip stays behind.                                    *)
StepFlushFails(t) ==
    /\ InStep(t) /\ CoinsAtTip
    /\ \/ /\ ~AtFork(t)
          /\ FlushFails(dirty, failedValid, failedChild, "write")
          /\ coinsBest' = Parent[tip]
       \/ /\ AtFork(t) /\ NextBlock(t) \notin BadConnect
          /\ FlushFails(dirty \cup {NextBlock(t)}, failedValid, failedChild, "write")
          /\ coinsBest' = NextBlock(t)
    /\ Release(t, "idle")
    /\ gaveUp' = gaveUp \cup {"step"}
    /\ UNCHANGED <<treeVars, candidates, tip, calls, crashes>>

(* Mutant: one step is enough. *)
MoreToDo_Never(t) == FALSE

(* The condition of the loop of ActivateBestChain, tested without cs_main. *)
MoreToDo(t) == goal[t] # tip

(* After the last step ActivateBestChain may flush. *)
TestLoop(t) ==
    /\ pc[t] = "test"
    /\ pc' = [pc EXCEPT ![t] = IF MoreToDo(t) THEN "activate" ELSE "idle"]
    /\ goal' = [goal EXCEPT ![t] = None]
    /\ UNCHANGED <<treeVars, candidates, tip, coinsBest, dirty, disk, lock, oldTip, calls, crashes,
                   gaveUp, lost>>

(* FlushStateToDisk(FLUSH_STATE_PERIODIC), after ActivateBestChain and     *)
(* after messages, and FlushStateToDisk() when the node shuts down.  The   *)
(* coins are written with their own best block.                            *)
PeriodicFlush ==
    /\ lock = None
    /\ FlushIfDue(dirty, failedValid, failedChild, coinsBest)
    /\ UNCHANGED <<treeVars, candidates, tip, coinsBest, lock, threadVars, calls, crashes, gaveUp,
                   lost>>

PeriodicFlushFails ==
    /\ lock = None
    /\ FlushFails(dirty, failedValid, failedChild, "periodic")
    /\ UNCHANGED <<treeVars, candidates, tip, coinsBest, lock, threadVars, calls, crashes, gaveUp>>

-----------------------------------------------------------------------------
(* The RPC invalidateblock: InvalidateBlock, whose loop disconnects the    *)
(* tip while b is active, and then ActivateBestChain.                      *)
BeginInvalidate(t, b) ==
    /\ pc[t] = "idle" /\ lock = None /\ calls < MaxCalls
    /\ b \in Invalidatable \cap index
    /\ failedValid' = failedValid \cup {b}
    /\ dirty' = dirty \cup {b}
    /\ candidates' = candidates \ {b}
    /\ lock' = t
    /\ pc' = [pc EXCEPT ![t] = "invalidate"]
    /\ goal' = [goal EXCEPT ![t] = b]
    /\ calls' = calls + 1
    /\ UNCHANGED <<index, data, linked, failedChild, nSequenceId, unlinked, tip, coinsBest, disk,
                   oldTip, crashes, gaveUp, lost>>

InvalidateTip(t) ==
    /\ pc[t] = "invalidate" /\ goal[t] \in Active /\ CoinsAtTip
    /\ failedChild' = failedChild \cup {tip}
    /\ candidates' = candidates \ {tip}
    /\ FlushAll(dirty \cup {tip}, failedValid, failedChild', Parent[tip])
    /\ tip' = Parent[tip] /\ coinsBest' = Parent[tip]
    /\ UNCHANGED <<index, data, linked, failedValid, nSequenceId, unlinked, lock, threadVars, calls,
                   crashes, gaveUp, lost>>

(* DisconnectTip meets a system error, before the coins have moved or in   *)
(* its flush: InvalidateBlock returns, and ActivateBestChain follows.      *)
InvalidateFails(t) ==
    /\ pc[t] = "invalidate" /\ goal[t] \in Active
    /\ failedChild' = failedChild \cup {tip}
    /\ candidates' = candidates \ {tip}
    /\ \/ "invalidate" \in Faults /\ dirty' = dirty \cup {tip} /\ UNCHANGED <<coinsBest, disk, lost>>
       \/ /\ CoinsAtTip
          /\ FlushFails(dirty \cup {tip}, failedValid, failedChild', "write")
          /\ coinsBest' = Parent[tip]
    /\ Release(t, "activate")
    /\ gaveUp' = gaveUp \cup {"invalidate"}
    /\ UNCHANGED <<index, data, linked, failedValid, nSequenceId, unlinked, tip, calls, crashes>>

(* The candidates InvalidateBlock puts back. *)
Restored(t) == {b \in (linked \cap data) \ Failed : ~Worse(b, t)}

EndInvalidate(t) ==
    /\ pc[t] = "invalidate" /\ goal[t] \notin Active
    /\ candidates' = candidates \cup Restored(tip)
    /\ Release(t, "activate")
    /\ UNCHANGED <<treeVars, tip, coinsBest, dirty, disk, calls, crashes, gaveUp, lost>>

ChildFlagsLeft(cleared) == failedChild \ cleared

(* Mutant: no block is made a candidate again. *)
Requalified_None(below) == {}

(* The descendants ReconsiderBlock makes candidates again. *)
Requalified(below) == {c \in below \cap linked \cap data : Worse(tip, c)}

(* ReconsiderBlock(b): b's descendants, then its ancestors. *)
Reconsider(b) ==
    LET below == {c \in index : (c \in Failed \/ c \notin data) /\ b \in Ancestors[c]}
        cleared == below \cup (Ancestors[b] \cap Failed)
    IN  /\ failedValid' = failedValid \ cleared
        /\ failedChild' = ChildFlagsLeft(cleared)
        /\ dirty' = dirty \cup cleared
        /\ candidates' = candidates \cup Requalified(below)

(* The RPC reconsiderblock, and the ActivateBestChain that follows. *)
ReconsiderBlock(t, b) ==
    /\ pc[t] = "idle" /\ lock = None /\ calls < MaxCalls
    /\ b \in Reconsiderable \cap index
    /\ Reconsider(b)
    /\ calls' = calls + 1
    /\ pc' = [pc EXCEPT ![t] = "activate"]
    /\ UNCHANGED <<index, data, linked, nSequenceId, unlinked, tip, coinsBest, disk, lock, goal,
                   oldTip, crashes, gaveUp, lost>>

(* AcceptBlock of a block whose parent has failed but matches a            *)
(* checkpoint: the parent is reconsidered, the block itself dropped.       *)
ReconsiderCheckpoint(t, b) ==
    /\ pc[t] = "idle" /\ lock = None
    /\ Parent[b] \in Failed \cap Checkpointed
    /\ Reconsider(Parent[b])
    /\ pc' = [pc EXCEPT ![t] = "activate"]
    /\ UNCHANGED <<index, data, linked, nSequenceId, unlinked, tip, coinsBest, disk, lock, goal,
                   oldTip, calls, crashes, gaveUp, lost>>

-----------------------------------------------------------------------------
(* What LoadBlockIndexDB derives from the block index on disk, with every  *)
(* sequence number 0.                                                      *)
Unnumbered == [b \in Tree |-> 0]

LoadedLinked(d) == {b \in d.index : Ancestors[b] \subseteq d.data}

LoadedUnlinked(d) == d.data \ LoadedLinked(d)

(* Mutant: only the tip is a candidate. *)
LoadedCandidates_Tip(d) == {d.tip}

LoadedCandidates(d) ==
    {b \in LoadedLinked(d) \ (d.failedValid \cup d.failedChild) : ~WorseWith(Unnumbered, b, d.tip)}

(* The node starts from d: the coins' best block is in the index, its      *)
(* chain has its data, and every entry has its parent.  (Without, the      *)
(* assertions of PruneBlockIndexCandidates and ConnectBlock or VerifyDB    *)
(* stop it, and what is left is -reindex.)                                 *)
Starts(d) == Ancestors[d.tip] \subseteq d.data /\ HasParents(d.index)

(* The start of the process: LoadBlockIndexDB, then ActivateBestChain.     *)
LoadBlockIndexDB(t, d) ==
    /\ index' = d.index /\ data' = d.data
    /\ failedValid' = d.failedValid /\ failedChild' = d.failedChild
    /\ linked' = LoadedLinked(d)
    /\ unlinked' = LoadedUnlinked(d)
    /\ nSequenceId' = Unnumbered
    /\ tip' = d.tip /\ coinsBest' = d.tip
    /\ candidates' = LoadedCandidates(d)
    /\ dirty' = {}
    /\ disk' = d
    /\ lock' = None
    /\ pc' = [u \in Threads |-> IF u = t THEN "activate" ELSE "idle"]
    /\ goal' = [u \in Threads |-> None] /\ oldTip' = [u \in Threads |-> None]
    /\ gaveUp' = gaveUp \ {"step"}
    /\ lost' = IF lost = "no" THEN "no" ELSE "before"

(* The process ends and starts again: it has shut down (after              *)
(* PeriodicFlush), failed an assertion or died, perhaps between the two    *)
(* writes of a flush.                                                      *)
CrashAndRestart(t) ==
    /\ crashes < MaxCrashes
    /\ crashes' = crashes + 1
    /\ \E d \in {disk, IndexWritten(dirty, failedValid, failedChild)} :
          Starts(d) /\ LoadBlockIndexDB(t, d)
    /\ UNCHANGED calls

-----------------------------------------------------------------------------
ActivateBestChain(t) ==
    \/ FindMostWorkChain(t) \/ DisconnectTip(t) \/ ConnectTip(t) \/ ConnectInvalid(t) \/ TestLoop(t)

InvalidateLoop(t) == InvalidateTip(t) \/ InvalidateFails(t) \/ EndInvalidate(t)

Next ==
    \/ \E t \in Threads : \/ ActivateBestChain(t) \/ StepFails(t) \/ StepFlushFails(t)
                          \/ InvalidateLoop(t) \/ CrashAndRestart(t)
    \/ \E t \in Threads, b \in Blocks :
          \/ AcceptDuplicate(t, b) \/ AcceptInvalid(t, b) \/ AcceptRejected(t, b) \/ AcceptStored(t, b)
          \/ BeginInvalidate(t, b) \/ ReconsiderBlock(t, b) \/ ReconsiderCheckpoint(t, b)
    \/ PeriodicFlush \/ PeriodicFlushFails

Fairness == \A t \in Threads : WF_vars(ActivateBestChain(t)) /\ WF_vars(InvalidateLoop(t))

Spec == Init /\ [][Next]_vars /\ Fairness

-----------------------------------------------------------------------------
(* What the variables may hold: every set of blocks is part of the index,  *)
(* and only blocks of the index are written.                               *)
TypeOK ==
    /\ index \subseteq Tree /\ data \subseteq index /\ linked \subseteq data
    /\ failedValid \subseteq index /\ failedChild \subseteq index
    /\ nSequenceId \in [Tree -> Nat]
    /\ unlinked \subseteq index /\ candidates \subseteq index /\ dirty \subseteq index
    /\ tip \in index /\ coinsBest \in index
    /\ disk \in [index : SUBSET Tree, data : SUBSET Tree, failedValid : SUBSET Tree,
                 failedChild : SUBSET Tree, tip : Tree]
    /\ lock \in Threads \cup {None}
    /\ pc \in [Threads -> {"idle", "activate", "step", "test", "invalidate"}]
    /\ goal \in [Threads -> Tree \cup {None}] /\ oldTip \in [Threads -> Tree \cup {None}]
    /\ calls \in 0..MaxCalls /\ crashes \in 0..MaxCrashes
    /\ gaveUp \subseteq {"step", "invalidate"} /\ lost \in {"no", "yes", "before"}

(* nChainTx is set exactly when the block and all its ancestors have data. *)
LinkedExact == linked = {b \in index : Ancestors[b] \subseteq data}

(* mapBlocksUnlinked holds the blocks with data that wait for an           *)
(* ancestor's, so that ReceivedBlockTransactions will find them.           *)
UnlinkedExact ==
    /\ unlinked \subseteq data \ linked
    /\ \A b \in data \ linked : Ancestors[b] \cap failedValid = {} => b \in unlinked

(* The tree can be connected (the assertions of CheckBlockIndex): the      *)
(* links and the blocks waiting for one are right in whatever order the    *)
(* data came, and across restarts.                                         *)
TreeExact == LinkedExact /\ UnlinkedExact

(* There is a candidate, none is worse than the tip, and each one can be   *)
(* reached.                                                                *)
CandidatesSound ==
    /\ candidates \subseteq linked
    /\ lock = None => \A c \in candidates : ~Worse(c, tip)
    /\ lock = None /\ gaveUp = {} => candidates # {}

(* The assertion of PruneBlockIndexCandidates, after a block is connected  *)
(* and when the block index is loaded: "Either the current tip or a        *)
(* successor of it we're working towards is left".                         *)
PruneLeavesCandidate ==
    [][\A t \in Threads : ConnectTip(t) \/ CrashAndRestart(t) => candidates' # {}]_vars

(* Whatever reorganisation, failure or restart has happened, a block that  *)
(* is better than the tip and not known to be invalid can still be chosen: *)
(* it, or a better usable block, is a candidate.  (Not so after an         *)
(* invalidateblock that a system error has cut short.)                     *)
NoBetterChainForgotten ==
    lock = None /\ "invalidate" \notin gaveUp =>
        \A b \in linked : Worse(tip, b) /\ Ancestors[b] \cap Failed = {}
            => \E c \in candidates : Usable(c) /\ ~Worse(c, b)

(* setBlockIndexCandidates holds what ActivateBestChain may need, and      *)
(* nothing that would mislead it.                                          *)
CandidatesExact == CandidatesSound /\ NoBetterChainForgotten

(* The active chain has data throughout, and no block ConnectBlock refuses *)
(* or that is marked failed, unless an invalidateblock was cut short by a  *)
(* system error.                                                           *)
ActiveChainSound ==
    /\ Active \subseteq linked /\ Active \cap BadConnect = {}
    /\ lock = None /\ "invalidate" \notin gaveUp => Active \cap Failed = {}

(* When every ActivateBestChain has returned, the last of them without a   *)
(* system error, no better chain is known.                                 *)
BestChainActive ==
    (\A t \in Threads : pc[t] = "idle") /\ gaveUp = {} =>
        \A b \in linked : Ancestors[b] \cap Failed = {} => ~Worse(tip, b)

(* CheckBlockIndex: "The failed mask cannot be set for blocks without      *)
(* invalid parents."                                                       *)
FailuresHaveCause == \A b \in Failed : Ancestors[b] \cap failedValid # {}

(* After invalidateblock and reconsiderblock in any order every part of    *)
(* the chain state is right again: flags, candidates and the active chain. *)
ChainRepaired == FailuresHaveCause /\ CandidatesExact /\ ActiveChainSound /\ BestChainActive

(* Whatever has failed or crashed, and whenever the process ends, the node *)
(* starts again from what is on disk: the coin database is not ahead of    *)
(* the block index.  (Not so once a batch of the block index is lost: the  *)
(* entries are not dirty any more, and the next flush writes the coins     *)
(* without them.)                                                          *)
DiskRecoverable == lost # "yes" => Starts(disk)

(* The limit of -maxreorg: the active chain is never left for a branch of *)
(* stake blocks that is longer than maxReorg, although the length is       *)
(* checked when a block arrives and used when it is connected, perhaps     *)
(* after other reorganisations.  (Not so after one that is cut short, or   *)
(* whose blocks are lost with a batch of the index: then the node goes     *)
(* back to the branch it was leaving, however long.)                       *)
ForkLengthBounded ==
    lost = "no" =>
        \A t \in Threads : oldTip[t] # None /\ goal[t] \in Stake /\ oldTip[t] \notin Ancestors[goal[t]]
            => Cardinality(Ancestors[goal[t]] \ Ancestors[oldTip[t]]) <= maxReorg

(* ActivateBestChain returns: every round makes progress. *)
ActivationReturns == \A t \in Threads : pc[t] = "activate" ~> pc[t] = "idle"
=============================================================================
