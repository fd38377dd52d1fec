-------------------------- MODULE ChainStateProofs --------------------------
(***************************************************************************)
(* Theorems about ChainState, for every finite tree of blocks and every    *)
(* set of threads.                                                         *)
(*                                                                         *)
(* Two invariants are proved.  TreeInv needs no condition: types, links,   *)
(* and what is on disk, of which less is said once a batch of the block    *)
(* index is lost.  ChainInv adds that the best chain is found and never    *)
(* lost; it needs the conditions NoCrashWhileInvalidating and              *)
(* RootsReconsidered, without which the code does lose it.  The limit of   *)
(* -maxreorg rests on it, and is kept as long as no reorganisation is cut  *)
(* short.                                                                  *)
(***************************************************************************)
EXTENDS ChainState, FiniteSetTheorems, NaturalsInduction, TLAPS

(* The blocks that may be found, or declared, invalid themselves. *)
Culprits == Invalidatable \cup BadContext \cup BadConnect

(* The process never restarts, or no block is ever invalidated: a restart  *)
(* may find the chain of an invalidateblock half disconnected.             *)
NoCrashWhileInvalidating == MaxCrashes = 0 \/ Invalidatable = {}

(* Only the root of what failed is reconsidered. *)
RootsReconsidered ==
    \A b \in Reconsiderable \cup Checkpointed : (Ancestors[b] \ {b}) \cap Culprits = {}

(* No batch of the block index is lost: FlushStateToDisk does not fail, or *)
(* not there.                                                              *)
NoBatchLost == MaxCrashes = 0 \/ {"write", "periodic"} \cap Faults = {}

DiskFailed == disk.failedValid \cup disk.failedChild

-----------------------------------------------------------------------------
(* The two halves of TypeOK: the blocks and the threads. *)
BlocksTyped ==
    /\ index \subseteq Tree /\ data \subseteq index /\ linked \subseteq data
    /\ failedValid \subseteq index /\ failedChild \subseteq index
    /\ nSequenceId \in [Tree -> Nat]
    /\ unlinked \subseteq index /\ candidates \subseteq index /\ dirty \subseteq index
    /\ tip \in index
    /\ disk \in [index : SUBSET Tree, data : SUBSET Tree, failedValid : SUBSET Tree,
                 failedChild : SUBSET Tree, tip : Tree]

ThreadsTyped ==
    /\ lock \in Threads \cup {None}
    /\ pc \in [Threads -> {"idle", "activate", "step", "test", "invalidate"}]
    /\ goal \in [Threads -> Tree \cup {None}] /\ oldTip \in [Threads -> Tree \cup {None}]
    /\ calls \in 0..MaxCalls /\ crashes \in 0..MaxCrashes /\ gaveUp \subseteq {"step", "invalidate"}

(* cs_main is held by a thread in the middle of a step, towards a block    *)
(* that can be reached, or of InvalidateBlock.                             *)
LockExact ==
    \A t \in Threads :
        /\ pc[t] \in {"step", "invalidate"} <=> lock = t
        /\ pc[t] = "step" => goal[t] \in linked \ Active
        /\ pc[t] = "invalidate" => goal[t] \in Invalidatable \cap failedValid

WaitingExact == unlinked = data \ linked

IndexClosed == HasParents(index)

TipLinked == tip \in linked /\ candidates \subseteq linked

NoneWorse == \A c \in candidates : ~Worse(c, tip)

LossTyped == lost \in {"no", "yes", "before"} /\ (NoBatchLost => lost = "no")

(* The disk is behind the memory: by what is dirty, unless a batch is lost.*)
DiskBehind ==
    /\ LossTyped
    /\ disk.index \subseteq index /\ disk.data \subseteq data
    /\ disk.data \subseteq disk.index /\ DiskFailed \subseteq disk.index
    /\ lost # "yes" => data \ dirty \subseteq disk.data /\ index \ dirty \subseteq disk.index

(* The coins, in memory and on disk, are of chains that connect. *)
CoinsLinked == coinsBest \in linked
NoBadConnected == (Active \cup Ancestors[coinsBest] \cup Ancestors[disk.tip]) \cap BadConnect = {}

TreeInv ==
    /\ BlocksTyped /\ ThreadsTyped /\ LockExact /\ LinkedExact /\ WaitingExact /\ IndexClosed
    /\ TipLinked /\ NoneWorse /\ DiskBehind /\ DiskRecoverable /\ CoinsLinked /\ NoBadConnected

-----------------------------------------------------------------------------
(* Nothing fails without a block that is invalid itself. *)
FailedByCulprit == \A b \in Failed \cup DiskFailed : Ancestors[b] \cap Culprits # {}

(* The flags on disk are those in memory but for what is dirty. *)
FlagsBehind ==
    /\ DiskFailed \ dirty \subseteq Failed
    /\ failedValid \ dirty \subseteq disk.failedValid
    /\ \A b \in DiskFailed : Ancestors[b] \cap disk.failedValid # {}

(* A block that ContextualCheckBlock refuses has no data. *)
ContextChecked == BadContext \cap data = {}

(* Where no block is invalidated, no invalidateblock is cut short. *)
NoneCutShort == Invalidatable = {} => "invalidate" \notin gaveUp

(* The active chain has not failed; inside InvalidateBlock, only from the  *)
(* invalidated block on.                                                   *)
ActiveNotFailed ==
    "invalidate" \notin gaveUp =>
        /\ lock = None => Active \cap Failed = {}
        /\ \A t \in Threads :
              /\ pc[t] = "step" => (Active \cup Ancestors[goal[t]]) \cap Failed = {}
              /\ pc[t] = "invalidate" => \A b \in Active \cap Failed : goal[t] \in Ancestors[b]

Invalidating == \E t \in Threads : pc[t] = "invalidate"

(* m bounds what was forgotten: it can be connected, and every block that  *)
(* is as good as m and not marked is a candidate, like m itself.           *)
Bounds(m) ==
    /\ m \in candidates
    /\ Ancestors[m] \cap (BadConnect \cup Failed) = {}
    /\ \A b \in linked \ Failed : ~Worse(b, m) => b \in candidates

NoneForgotten == "invalidate" \notin gaveUp /\ ~Invalidating => \E m \in linked : Bounds(m)

(* No chain that can be connected is better than that of b. *)
IsBest(b) == \A c \in linked : Ancestors[c] \cap Failed = {} => ~Worse(b, c)

(* A step goes towards a candidate, and towards the best. *)
GoalKept == \A t \in Threads : pc[t] = "step" => goal[t] \in candidates
GoalBest == "invalidate" \notin gaveUp => \A t \in Threads : pc[t] = "step" => IsBest(goal[t])

(* Whenever a better chain is known some thread will look for it. *)
Searching ==
    \E t \in Threads : \/ pc[t] \in {"activate", "step", "invalidate"}
                       \/ pc[t] = "test" /\ goal[t] # tip
TipBest == gaveUp = {} /\ ~Searching => IsBest(tip)

(* The cause of a failure may be in a lost batch. *)
FlagsInv == FailedByCulprit /\ ContextChecked /\ (lost = "no" => FlagsBehind /\ FailuresHaveCause)

ChainInv ==
    /\ TreeInv /\ FlagsInv /\ NoneCutShort /\ ActiveNotFailed /\ NoneForgotten
    /\ GoalKept /\ GoalBest /\ TipBest

-----------------------------------------------------------------------------
(* Blocks with all their parents: a set that has the parent of each of its *)
(* blocks has all the ancestors of each.                                   *)
LEMMA AncestorsLeast ==
  ASSUME NEW b \in Tree, NEW S \in SUBSET Tree, b \in S, HasParents(S)
  PROVE  Ancestors[b] \subseteq S
  BY DEF Ancestors

(* A block is its own ancestor, its ancestors are blocks, and so are their *)
(* parents.                                                                *)
LEMMA AncestorsType ==
  ASSUME NEW b \in Tree
  PROVE  b \in Ancestors[b] /\ Ancestors[b] \in SUBSET Tree /\ HasParents(Ancestors[b])
  <1>1. b \in Ancestors[b] /\ Ancestors[b] \in SUBSET Tree
    BY DEF Ancestors
  <1>2. ASSUME NEW c \in Ancestors[b] \ {Genesis}
        PROVE  Parent[c] \in Ancestors[b]
    <2>1. c \in Blocks /\ Parent[c] \in Tree
      BY <1>1, TreeAssumption DEF Tree
    <2>2. ASSUME NEW S \in SUBSET Tree, b \in S, HasParents(S)
          PROVE  Parent[c] \in S
      BY <2>2, c \in S DEF Ancestors, HasParents
    <2> QED
      BY <2>1, <2>2 DEF Ancestors
  <1> QED
    BY <1>1, <1>2 DEF HasParents

(* The ancestors of an ancestor are ancestors. *)
LEMMA AncestorsTransitive ==
  ASSUME NEW b \in Tree, NEW a \in Ancestors[b]
  PROVE  a \in Tree /\ Ancestors[a] \subseteq Ancestors[b]
  <1>1. a \in Tree
    BY AncestorsType
  <1> QED
    BY <1>1, AncestorsType, AncestorsLeast

(* Genesis has no other ancestor and is an ancestor of every block. *)
LEMMA AncestorsGenesis ==
  Genesis \in Tree /\ Ancestors[Genesis] = {Genesis} /\ \A b \in Tree : Genesis \in Ancestors[b]
  <1>1. Genesis \in Tree /\ {Genesis} \in SUBSET Tree /\ HasParents({Genesis})
    BY DEF Tree, HasParents
  <1>2. Ancestors[Genesis] = {Genesis}
    BY <1>1, AncestorsType, AncestorsLeast
  <1> QED
    BY <1>1, <1>2, TreeAssumption DEF Tree

(* The ancestors of a block are the block and those of its parent. *)
LEMMA AncestorsParent ==
  ASSUME NEW b \in Blocks
  PROVE  /\ b \in Tree /\ Parent[b] \in Tree /\ b # Genesis
         /\ Ancestors[b] = {b} \cup Ancestors[Parent[b]]
         /\ b \notin Ancestors[Parent[b]]
  <1>1. b \in Tree /\ Parent[b] \in Tree /\ b # Genesis
    BY TreeAssumption DEF Tree
  <1>2. Ancestors[b] \subseteq {b} \cup Ancestors[Parent[b]]
    <2> DEFINE S == {b} \cup Ancestors[Parent[b]]
    <2>1. S \in SUBSET Tree /\ b \in S
      BY <1>1, AncestorsType
    <2>2. HasParents(S)
      BY <1>1, AncestorsType DEF HasParents
    <2> QED
      BY <1>1, <2>1, <2>2, AncestorsLeast
  <1>3. Parent[b] \in Ancestors[b]
    BY <1>1, AncestorsType DEF HasParents
  <1>4. Ancestors[b] = {b} \cup Ancestors[Parent[b]]
    BY <1>1, <1>2, <1>3, AncestorsType, AncestorsTransitive
  <1>5. ASSUME b \in Ancestors[Parent[b]]
        PROVE  FALSE
    <2> DEFINE S == {c \in Ancestors[b] : b \in Ancestors[c]}
    <2>1. S \in SUBSET Tree /\ b \in S
      BY <1>1, AncestorsType
    <2>2. ASSUME NEW c \in S \ {Genesis}
          PROVE  Parent[c] \in S
      <3>1. c \in Tree /\ Parent[c] \in Ancestors[b] /\ Parent[c] \in Tree
        BY <1>1, AncestorsType DEF HasParents
      <3>2. b \in Ancestors[Parent[c]]
        <4> DEFINE R == {c} \cup Ancestors[Parent[c]]
        <4>1. R \in SUBSET Tree /\ c \in R /\ HasParents(R)
          BY <3>1, AncestorsType DEF HasParents
        <4>2. Ancestors[c] \subseteq R
          BY <3>1, <4>1, AncestorsLeast
        <4> QED
          BY <1>5, <4>2
      <3> QED
        BY <3>1, <3>2
    <2>3. HasParents(S)
      BY <2>2 DEF HasParents
    <2>4. Genesis \in S
      BY <1>1, <2>1, <2>3, AncestorsLeast, AncestorsGenesis
    <2> QED
      BY <1>1, <2>4, AncestorsGenesis
  <1> QED
    BY <1>1, <1>4, <1>5

(* No two blocks are each other's ancestors. *)
LEMMA AncestorsAcyclic ==
  ASSUME NEW a \in Tree, NEW b \in Tree, a \in Ancestors[b], b \in Ancestors[a]
  PROVE  a = b
  <1> SUFFICES ASSUME a # b PROVE FALSE
    OBVIOUS
  <1>1. a \in Blocks
    BY AncestorsGenesis DEF Tree
  <1>2. b \in Ancestors[Parent[a]] /\ Parent[a] \in Tree
    BY <1>1, AncestorsParent
  <1>3. a \in Ancestors[Parent[a]]
    BY <1>2, AncestorsTransitive
  <1> QED
    BY <1>1, <1>3, AncestorsParent

(* The ancestors of a block form a chain. *)
LEMMA AncestorsLinear ==
  ASSUME NEW c \in Tree, NEW a \in Ancestors[c], NEW b \in Ancestors[c]
  PROVE  a \in Ancestors[b] \/ b \in Ancestors[a]
  <1> DEFINE S == {x \in Ancestors[c] : a \in Ancestors[x] \/ x \in Ancestors[a]}
  <1>1. a \in Tree /\ S \in SUBSET Tree /\ c \in S
    BY AncestorsType
  <1>2. ASSUME NEW x \in S \ {Genesis}
        PROVE  Parent[x] \in S
    <2>1. x \in Blocks /\ x \in Tree /\ Parent[x] \in Ancestors[c]
      BY <1>1, AncestorsType DEF HasParents, Tree
    <2>2. Parent[x] \in Tree /\ Ancestors[x] = {x} \cup Ancestors[Parent[x]]
      BY <2>1, AncestorsParent
    <2>3. CASE a \in Ancestors[x]
      BY <2>1, <2>2, <2>3, <1>1, AncestorsType
    <2>4. CASE x \in Ancestors[a]
      BY <2>1, <2>4, <1>1, AncestorsType DEF HasParents
    <2> QED
      BY <2>3, <2>4
  <1>3. HasParents(S)
    BY <1>2 DEF HasParents
  <1>4. Ancestors[c] \subseteq S
    BY <1>1, <1>3, AncestorsLeast
  <1> QED
    BY <1>4

(* A block below another on its chain has a child on that chain. *)
LEMMA AncestorsChild ==
  ASSUME NEW b \in Tree, NEW a \in Ancestors[b], a # b
  PROVE  \E c \in Ancestors[b] : c # Genesis /\ Parent[c] = a
  <1> SUFFICES ASSUME \A c \in Ancestors[b] : c # Genesis => Parent[c] # a
               PROVE  FALSE
    OBVIOUS
  <1> DEFINE S == Ancestors[b] \ {a}
  <1>1. S \in SUBSET Tree /\ b \in S /\ HasParents(S)
    BY AncestorsType DEF HasParents
  <1> QED
    BY <1>1, AncestorsLeast

-----------------------------------------------------------------------------
(* CBlockIndexWorkComparator is a strict linear order. *)
LEMMA WorseOrder ==
  ASSUME NEW seq \in [Tree -> Nat], NEW a \in Tree, NEW b \in Tree
  PROVE  /\ ~WorseWith(seq, a, a)
         /\ ~(WorseWith(seq, a, b) /\ WorseWith(seq, b, a))
         /\ a # b => WorseWith(seq, a, b) \/ WorseWith(seq, b, a)
         /\ \A c \in Tree : WorseWith(seq, a, b) /\ WorseWith(seq, b, c) => WorseWith(seq, a, c)
  <1>1. \A x \in Tree : nChainWork[x] \in Nat /\ seq[x] \in Nat /\ Address[x] \in Nat
    BY BlockAssumption
  <1>2. a # b => Address[a] # Address[b]
    BY BlockAssumption
  <1> QED
    BY <1>1, <1>2 DEF WorseWith

(* A block is better than its parent. *)
LEMMA ParentWorse ==
  ASSUME NEW seq, NEW b \in Blocks
  PROVE  WorseWith(seq, Parent[b], b)
  BY BlockAssumption DEF WorseWith

(* The same of a block and all that it descends from. *)
LEMMA AncestorsWorse ==
  ASSUME NEW seq \in [Tree -> Nat], NEW b \in Tree, NEW a \in Ancestors[b]
  PROVE  a = b \/ WorseWith(seq, a, b)
  <1> DEFINE S == {x \in Ancestors[b] : x = b \/ WorseWith(seq, x, b)}
  <1>1. S \in SUBSET Tree /\ b \in S
    BY AncestorsType
  <1>2. ASSUME NEW x \in S \ {Genesis}
        PROVE  Parent[x] \in S
    <2>1. x \in Blocks /\ x \in Tree /\ Parent[x] \in Ancestors[b] /\ Parent[x] \in Tree
      BY AncestorsType DEF HasParents, Tree
    <2>2. WorseWith(seq, Parent[x], x)
      BY <2>1, ParentWorse
    <2> QED
      BY <2>1, <2>2, WorseOrder
  <1>3. HasParents(S)
    BY <1>2 DEF HasParents
  <1> QED
    BY <1>1, <1>3, AncestorsLeast

(* The least element of a set of natural numbers, from which induction on  *)
(* a number follows as an argument about a least counterexample.           *)
LEMMA LeastNat ==
  ASSUME NEW T, T \subseteq Nat, T # {}
  PROVE  \E n \in T : \A m \in T : n <= m
  <1> DEFINE R == OpToRel(<, Nat)
  <1>1. IsWellFoundedOn(R, Nat)
    BY NatLessThanWellFounded
  <1>2. \A x, y \in Nat : <<y, x>> \in R <=> y < x
    BY DEF OpToRel
  <1> HIDE DEF R
  <1>3. PICK x \in T : \A y \in T : ~ (<<y, x>> \in R)
    BY <1>1, WFMin
  <1>4. \A y \in T : ~(y < x)
    BY <1>2, <1>3
  <1> QED
    BY <1>4

(* Every set of blocks has a greatest one in every strict order R.         *)
LEMMA GreatestExists ==
  ASSUME NEW R, NEW C \in SUBSET Tree, C # {},
         \A a \in Tree : <<a, a>> \notin R,
         \A a, b, c \in Tree : <<a, b>> \in R /\ <<b, c>> \in R => <<a, c>> \in R
  PROVE  \E b \in C : \A c \in C : <<b, c>> \notin R
  <1> DEFINE Best(S) == \E b \in S : \A c \in S : <<b, c>> \notin R
             Sizes == {n \in Nat : \E S \in SUBSET Tree : S # {} /\ Cardinality(S) = n /\ ~Best(S)}
  <1>1. IsFiniteSet(Tree)
    BY TreeAssumption, FS_AddElement DEF Tree
  <1>2. ASSUME NEW S \in SUBSET Tree
        PROVE  IsFiniteSet(S) /\ Cardinality(S) \in Nat
    BY <1>1, FS_Subset, FS_CardinalityType
  <1> SUFFICES ASSUME ~Best(C) PROVE FALSE
    OBVIOUS
  <1>3. Cardinality(C) \in Sizes
    BY <1>2
  <1>4. PICK n \in Sizes : \A m \in Sizes : n <= m
    <2>1. Sizes \subseteq Nat /\ Sizes # {}
      BY <1>3
    <2> HIDE DEF Sizes
    <2> QED
      BY <2>1, LeastNat
  <1>5. PICK S \in SUBSET Tree : S # {} /\ Cardinality(S) = n /\ ~Best(S)
    BY <1>4
  <1>6. PICK x \in S : TRUE
    BY <1>5
  <1>7. Cardinality(S \ {x}) = n - 1
    BY <1>2, <1>5, FS_RemoveElement
  <1>8. n \in Nat /\ n - 1 \notin Sizes
    <2>1. n \in Nat
      BY <1>4
    <2> HIDE DEF Sizes
    <2> QED
      BY <1>4, <2>1
  <1>9. CASE S \ {x} = {}
    BY <1>5, <1>6, <1>9, S = {x}
  <1>10. CASE S \ {x} # {}
    <2>1. n - 1 \in Nat /\ S \ {x} \in SUBSET Tree
      BY <1>2, <1>7
    <2>2. Best(S \ {x})
      <3> HIDE DEF Best
      <3> QED
        BY <1>7, <1>8, <1>10, <2>1
    <2>3. PICK b \in S \ {x} : \A c \in S \ {x} : <<b, c>> \notin R
      BY <2>2
    <2>4. CASE <<b, x>> \in R
      BY <1>5, <1>6, <2>3, <2>4
    <2>5. CASE <<b, x>> \notin R
      BY <1>5, <2>3, <2>5
    <2> QED
      BY <2>4, <2>5
  <1> QED
    BY <1>9, <1>10

(* FindMostWorkChain finds a best block in every set of blocks. *)
LEMMA BestExists ==
  ASSUME NEW seq \in [Tree -> Nat], NEW C \in SUBSET Tree, C # {}
  PROVE  \E b \in C : \A c \in C : ~WorseWith(seq, b, c)
  <1> DEFINE R == {p \in Tree \X Tree : WorseWith(seq, p[1], p[2])}
  <1>1. \A a, b \in Tree : <<a, b>> \in R <=> WorseWith(seq, a, b)
    OBVIOUS
  <1> HIDE DEF R
  <1>2. \A a \in Tree : <<a, a>> \notin R
    BY <1>1, WorseOrder
  <1>3. \A a, b, c \in Tree : <<a, b>> \in R /\ <<b, c>> \in R => <<a, c>> \in R
    BY <1>1, WorseOrder
  <1>4. \E b \in C : \A c \in C : <<b, c>> \notin R
    BY <1>2, <1>3, GreatestExists
  <1> QED
    BY <1>1, <1>4

(* The greatest of the sequence numbers, as nBlockSequenceId counts them.  *)
LEMMA MaxSequence ==
  ASSUME NEW seq \in [Tree -> Nat]
  PROVE  Max({seq[b] : b \in Tree}) \in Nat
  <1> DEFINE R == {p \in Tree \X Tree : seq[p[1]] < seq[p[2]]}
  <1>1. \A a, b \in Tree : <<a, b>> \in R <=> seq[a] < seq[b]
    OBVIOUS
  <1> HIDE DEF R
  <1>2. \A a \in Tree : seq[a] \in Nat /\ <<a, a>> \notin R
    BY <1>1
  <1>3. \A a, b, c \in Tree : <<a, b>> \in R /\ <<b, c>> \in R => <<a, c>> \in R
    BY <1>1, <1>2
  <1>4. PICK b \in Tree : \A c \in Tree : <<b, c>> \notin R
    BY <1>2, <1>3, GreatestExists, AncestorsGenesis, Tree # {}
  <1>5. ASSUME NEW a \in Tree
        PROVE  seq[a] \in Nat /\ seq[b] >= seq[a]
    <2>1. ~(seq[b] < seq[a])
      BY <1>1, <1>4
    <2>2. seq[a] \in Nat /\ seq[b] \in Nat
      OBVIOUS
    <2> QED
      BY <2>1, <2>2
  <1>6. seq[b] \in {seq[a] : a \in Tree} /\ \A y \in {seq[a] : a \in Tree} : seq[b] >= y
    BY <1>5
  <1> QED
    BY <1>2, <1>6 DEF Max

-----------------------------------------------------------------------------
(* What is on disk after the batch of the block index.                     *)
LEMMA IndexWrittenFields ==
  ASSUME BlocksTyped, NEW d, NEW fv, NEW fc, d \subseteq Tree
  PROVE  LET D == IndexWritten(d, fv, fc)
         IN  /\ D \in [index : SUBSET Tree, data : SUBSET Tree, failedValid : SUBSET Tree,
                       failedChild : SUBSET Tree, tip : Tree]
             /\ D.index = disk.index \cup d
             /\ D.data = (disk.data \ d) \cup (data \cap d)
             /\ D.failedValid = (disk.failedValid \ d) \cup (fv \cap d)
             /\ D.failedChild = (disk.failedChild \ d) \cup (fc \cap d)
             /\ D.tip = disk.tip
             /\ \A t \in Tree : LET E == [D EXCEPT !.tip = t]
                                IN  /\ E \in [index : SUBSET Tree, data : SUBSET Tree,
                                              failedValid : SUBSET Tree, failedChild : SUBSET Tree, tip : Tree]
                                    /\ E.index = D.index /\ E.data = D.data /\ E.tip = t
                                    /\ E.failedValid = D.failedValid /\ E.failedChild = D.failedChild
  BY DEF BlocksTyped, IndexWritten

(* A block index that may be on disk: disk is one, and what it becomes     *)
(* when the index is written too.                                          *)
Loadable(d) ==
    /\ d \in [index : SUBSET Tree, data : SUBSET Tree, failedValid : SUBSET Tree,
              failedChild : SUBSET Tree, tip : Tree]
    /\ d.index \subseteq index /\ d.data \subseteq data
    /\ d.data \subseteq d.index /\ d.failedValid \cup d.failedChild \subseteq d.index
    /\ Ancestors[d.tip] \cap BadConnect = {}

(* The index may be written alone, or followed by the coins of a linked    *)
(* block t: unless a batch is lost, the node starts from what is written.  *)
LEMMA WrittenLoadable ==
  ASSUME TreeInv, NEW d, NEW fv, NEW fc, dirty \subseteq d, d \subseteq index,
         fv \subseteq index, fc \subseteq index
  PROVE  LET D == IndexWritten(d, fv, fc)
         IN  /\ Loadable(disk) /\ Loadable(D)
             /\ lost # "yes" => Starts(D) /\ data \subseteq D.data /\ index \subseteq D.index
             /\ \A t \in linked : Ancestors[t] \cap BadConnect = {} =>
                   LET E == [D EXCEPT !.tip = t]
                   IN  /\ Loadable(E) /\ E.data = D.data /\ E.index = D.index
                       /\ lost # "yes" => Starts(E)
  <1> USE DEF TreeInv
  <1> DEFINE D == IndexWritten(d, fv, fc)
  <1>1. Loadable(disk)
    BY DEF BlocksTyped, DiskBehind, DiskFailed, DiskRecoverable, NoBadConnected, Loadable
  <1>2. BlocksTyped /\ d \subseteq Tree
    BY DEF BlocksTyped
  <1>3. /\ D \in [index : SUBSET Tree, data : SUBSET Tree, failedValid : SUBSET Tree,
                  failedChild : SUBSET Tree, tip : Tree]
        /\ D.index = disk.index \cup d
        /\ D.data = (disk.data \ d) \cup (data \cap d)
        /\ D.failedValid = (disk.failedValid \ d) \cup (fv \cap d)
        /\ D.failedChild = (disk.failedChild \ d) \cup (fc \cap d)
        /\ D.tip = disk.tip
    BY <1>2, IndexWrittenFields
  <1>4. ASSUME NEW t \in linked
        PROVE  LET E == [D EXCEPT !.tip = t]
               IN  /\ E \in [index : SUBSET Tree, data : SUBSET Tree,
                             failedValid : SUBSET Tree, failedChild : SUBSET Tree, tip : Tree]
                   /\ E.index = D.index /\ E.data = D.data /\ E.tip = t
                   /\ E.failedValid = D.failedValid /\ E.failedChild = D.failedChild
    <2>1. t \in Tree
      BY DEF BlocksTyped
    <2> QED
      BY <1>2, <2>1, IndexWrittenFields
  <1> HIDE DEF D
  <1>5. /\ D.index \subseteq index /\ D.data \subseteq data
        /\ D.data \subseteq D.index /\ D.failedValid \cup D.failedChild \subseteq D.index
    BY <1>3 DEF DiskBehind, DiskFailed
  <1>6. ASSUME lost # "yes"
        PROVE  data \subseteq D.data /\ D.index = index /\ HasParents(D.index)
    BY <1>3, <1>5, <1>6 DEF DiskBehind, IndexClosed
  <1>7. Loadable(D)
    BY <1>3, <1>5 DEF Loadable, NoBadConnected
  <1>8. lost # "yes" => Starts(D)
    BY <1>3, <1>6 DEF DiskBehind, DiskRecoverable, Starts
  <1>9. ASSUME NEW t \in linked, Ancestors[t] \cap BadConnect = {}
        PROVE  LET E == [D EXCEPT !.tip = t]
               IN  /\ Loadable(E) /\ E.data = D.data /\ E.index = D.index
                   /\ lost # "yes" => Starts(E)
    <2>1. lost # "yes" => Ancestors[t] \subseteq D.data
      BY <1>6 DEF LinkedExact
    <2> QED
      BY <1>4, <1>5, <1>6, <1>9, <2>1 DEF Loadable, Starts
  <1> QED
    BY <1>1, <1>6, <1>7, <1>8, <1>9 DEF D

(* What FlushStateToDisk may do, whether it fails or not. *)
Flushed(d, fv, fc, t) ==
    \/ FlushIfDue(d, fv, fc, t) /\ lost' = lost
    \/ FlushFails(d, fv, fc, "write")
    \/ FlushFails(d, fv, fc, "periodic")

(* What is on disk, dirty and lost after a flush. *)
LEMMA FlushedCases ==
  ASSUME TreeInv, NEW d, NEW fv, NEW fc, NEW t, Flushed(d, fv, fc, t)
  PROVE  LET D == IndexWritten(d, fv, fc)
         IN  \/ disk' = disk /\ dirty' = d /\ lost' = lost
             \/ disk' \in {D, [D EXCEPT !.tip = t]} /\ dirty' = {} /\ lost' = lost
             \/ disk' = disk /\ dirty' = {} /\ lost' = "yes" /\ ~NoBatchLost
  <1>1. CASE FlushIfDue(d, fv, fc, t) /\ lost' = lost
    BY <1>1 DEF FlushIfDue, FlushAll
  <1>2. ASSUME NEW loss \in {"write", "periodic"}, FlushFails(d, fv, fc, loss)
        PROVE  \/ disk' = disk /\ dirty' = d /\ lost' = lost
               \/ disk' = IndexWritten(d, fv, fc) /\ dirty' = {} /\ lost' = lost
               \/ disk' = disk /\ dirty' = {} /\ lost' = "yes" /\ ~NoBatchLost
    <2>1. crashes < MaxCrashes /\ crashes \in 0..MaxCrashes
      BY <1>2 DEF FlushFails, TreeInv, ThreadsTyped
    <2>2. MaxCrashes # 0
      BY <2>1, BoundAssumption
    <2>3. loss \in Faults => ~NoBatchLost
      BY <1>2, <2>2 DEF NoBatchLost
    <2> QED
      BY <1>2, <2>3 DEF FlushFails
  <1> QED
    BY <1>1, <1>2 DEF Flushed

(* A step that writes nothing and dirties what gets data keeps what is     *)
(* known of the disk.                                                      *)
LEMMA DiskKept ==
  ASSUME TreeInv, disk' = disk, index \subseteq index', data \subseteq data',
         data' \ dirty' \subseteq data \ dirty, index' \ dirty' \subseteq index \ dirty, lost' = lost
  PROVE  DiskBehind' /\ DiskRecoverable'
  BY DEF TreeInv, DiskBehind, LossTyped, DiskFailed, DiskRecoverable

(* So does FlushStateToDisk, when the coins are those of a linked block t. *)
LEMMA DiskFlushed ==
  ASSUME TreeInv, NEW d, NEW fv, NEW fc, dirty \subseteq d, d \subseteq index,
         fv \subseteq index, fc \subseteq index,
         NEW t \in linked, Ancestors[t] \cap BadConnect = {},
         index' = index, data' = data,
         Flushed(d, fv, fc, t)
  PROVE  /\ dirty' \subseteq index
         /\ disk' \in [index : SUBSET Tree, data : SUBSET Tree, failedValid : SUBSET Tree,
                       failedChild : SUBSET Tree, tip : Tree]
         /\ DiskBehind' /\ DiskRecoverable' /\ Ancestors[disk'.tip] \cap BadConnect = {}
  <1> DEFINE D == IndexWritten(d, fv, fc)
             E == [D EXCEPT !.tip = t]
  <1>1. /\ Loadable(disk) /\ Loadable(D) /\ Loadable(E) /\ E.data = D.data /\ E.index = D.index
        /\ lost # "yes" => Starts(D) /\ Starts(E) /\ data \subseteq D.data /\ index \subseteq D.index
    BY WrittenLoadable
  <1>2. \/ disk' = disk /\ dirty' = d /\ lost' = lost
        \/ disk' \in {D, E} /\ dirty' = {} /\ lost' = lost
        \/ disk' = disk /\ dirty' = {} /\ lost' = "yes" /\ ~NoBatchLost
    BY FlushedCases
  <1> HIDE DEF D, E
  <1>3. Loadable(disk') /\ dirty' \subseteq index
    BY <1>1, <1>2
  <1>4. lost' # "yes" => /\ data \ dirty' \subseteq disk'.data /\ index \ dirty' \subseteq disk'.index
                         /\ Starts(disk')
    BY <1>1, <1>2 DEF TreeInv, DiskBehind, DiskRecoverable
  <1>5. LossTyped'
    BY <1>2 DEF TreeInv, DiskBehind, LossTyped, NoBatchLost
  <1> QED
    BY <1>3, <1>4, <1>5 DEF Loadable, DiskBehind, DiskFailed, DiskRecoverable

-----------------------------------------------------------------------------
(* The ancestors of a linked block are linked. *)
LEMMA LinkedClosed ==
  ASSUME BlocksTyped, LinkedExact, NEW b \in linked, NEW a \in Ancestors[b]
  PROVE  a \in linked
  <1>1. b \in Tree /\ Ancestors[b] \subseteq data
    BY DEF BlocksTyped, LinkedExact
  <1> QED
    BY <1>1, AncestorsTransitive DEF BlocksTyped, LinkedExact

(* What DisconnectTip makes the tip. *)
LEMMA TipParent ==
  ASSUME TreeInv, tip # Genesis
  PROVE  /\ tip \in Blocks /\ Parent[tip] \in linked
         /\ Active = {tip} \cup Ancestors[Parent[tip]] /\ tip \notin Ancestors[Parent[tip]]
         /\ Ancestors[Parent[tip]] \cap BadConnect = {}
  <1>1. tip \in Blocks
    BY DEF TreeInv, BlocksTyped, Tree
  <1>2. /\ Active = {tip} \cup Ancestors[Parent[tip]] /\ tip \notin Ancestors[Parent[tip]]
        /\ Parent[tip] \in Active
    BY <1>1, AncestorsParent, AncestorsType DEF Active
  <1>3. Parent[tip] \in linked
    BY <1>2, LinkedClosed DEF TreeInv, TipLinked, Active
  <1> QED
    BY <1>1, <1>2, <1>3 DEF TreeInv, NoBadConnected

(* The tip that is disconnected is not genesis. *)
LEMMA TipNotGenesis ==
  ASSUME TreeInv, NEW t \in Threads,
         \/ pc[t] = "step" /\ tip \notin Ancestors[goal[t]]
         \/ pc[t] = "invalidate" /\ goal[t] \in Active
  PROVE  tip # Genesis
  <1>1. CASE pc[t] = "step" /\ tip \notin Ancestors[goal[t]]
    <2>1. goal[t] \in Tree
      BY <1>1 DEF TreeInv, BlocksTyped, LockExact
    <2> QED
      BY <1>1, <2>1, AncestorsGenesis
  <1>2. CASE pc[t] = "invalidate" /\ goal[t] \in Active
    <2>1. goal[t] \in Blocks
      BY <1>2, BlockAssumption DEF TreeInv, LockExact
    <2> QED
      BY <1>2, <2>1, AncestorsGenesis, TreeAssumption DEF Active
  <1> QED
    BY <1>1, <1>2

(* What ConnectTip connects. *)
LEMMA NextBlockFacts ==
  ASSUME TreeInv, NEW t \in Threads, InStep(t), AtFork(t)
  PROVE  /\ NextBlock(t) \in Ancestors[goal[t]] /\ NextBlock(t) \in Blocks \cap linked
         /\ Parent[NextBlock(t)] = tip /\ NextBlock(t) \notin Active
         /\ Ancestors[NextBlock(t)] = {NextBlock(t)} \cup Active
  <1>1. /\ goal[t] \in linked /\ goal[t] \in Tree /\ goal[t] \notin Active
        /\ tip \in Tree /\ tip \in Ancestors[goal[t]]
    BY DEF TreeInv, BlocksTyped, LockExact, InStep, AtFork
  <1>2. goal[t] # tip
    BY <1>1, AncestorsType DEF Active
  <1>3. /\ NextBlock(t) \in Ancestors[goal[t]]
        /\ NextBlock(t) # Genesis /\ Parent[NextBlock(t)] = tip
    BY <1>1, <1>2, AncestorsChild DEF NextBlock
  <1>4. NextBlock(t) \in linked
    BY <1>1, <1>3, LinkedClosed DEF TreeInv
  <1>5. NextBlock(t) \in Blocks
    BY <1>1, <1>3, AncestorsType DEF Tree
  <1> QED
    BY <1>3, <1>4, <1>5, AncestorsParent DEF Active

(* Steps that leave the tree of blocks as it is. *)
LEMMA TreeSame ==
  ASSUME TreeInv, UNCHANGED <<index, data, linked, unlinked>>
  PROVE  LinkedExact' /\ WaitingExact' /\ IndexClosed'
  BY DEF TreeInv, LinkedExact, WaitingExact, IndexClosed

(* Steps that leave the tip, the coins and the disk as they are. *)
LEMMA TipSame ==
  ASSUME TreeInv, UNCHANGED <<tip, coinsBest, disk>>, linked \subseteq linked'
  PROVE  CoinsLinked' /\ NoBadConnected'
  BY DEF TreeInv, CoinsLinked, NoBadConnected, Active

(* A block that is not worse than the tip, nor the tip, is off the active  *)
(* chain.                                                                  *)
LEMMA BetterNotActive ==
  ASSUME BlocksTyped, NEW b \in Tree, b # tip, ~Worse(b, tip)
  PROVE  b \notin Active
  BY AncestorsWorse DEF BlocksTyped, Active, Worse

(* FindMostWorkChain. *)
LEMMA FindMostWorkTree ==
  ASSUME TreeInv, NEW t \in Threads, FindMostWorkChain(t)
  PROVE  TreeInv'
  <1> DEFINE marked == UNION {AboveFailed(c) : c \in Skipped}
  <1>1. marked \subseteq linked
    <2>1. ASSUME NEW c \in candidates, NEW b \in AboveFailed(c)
          PROVE  b \in linked
      BY LinkedClosed DEF TreeInv, TipLinked, AboveFailed, Path
    <2> QED
      BY <2>1 DEF Skipped
  <1>2. failedChild' = failedChild \cup marked /\ candidates' \subseteq candidates
    BY DEF FindMostWorkChain
  <1>3. UNCHANGED <<index, data, linked, failedValid, nSequenceId, unlinked, tip, coinsBest, dirty, disk,
                    calls, crashes, lost>>
    BY DEF FindMostWorkChain
  <1>4. \/ Release(t, "idle") /\ lock = None /\ gaveUp' = gaveUp \ {"step"}
        \/ \E b \in candidates \ {tip} :
              /\ lock = None /\ lock' = t
              /\ pc' = [pc EXCEPT ![t] = "step"]
              /\ goal' = [goal EXCEPT ![t] = b]
              /\ oldTip' = [oldTip EXCEPT ![t] = tip]
              /\ gaveUp' = gaveUp
    BY DEF FindMostWorkChain
  <1>5. BlocksTyped' /\ ThreadsTyped'
    <2>1. BlocksTyped'
      BY <1>1, <1>2, <1>3 DEF TreeInv, BlocksTyped
    <2>2. candidates \subseteq Tree /\ tip \in Tree
      BY DEF TreeInv, BlocksTyped
    <2>3. ASSUME Release(t, "idle"), gaveUp' = gaveUp \ {"step"}
          PROVE  ThreadsTyped'
      BY <1>3, <2>3 DEF TreeInv, ThreadsTyped, Release
    <2>4. ASSUME NEW b \in candidates, lock' = t, pc' = [pc EXCEPT ![t] = "step"],
                 goal' = [goal EXCEPT ![t] = b], oldTip' = [oldTip EXCEPT ![t] = tip], gaveUp' = gaveUp
          PROVE  ThreadsTyped'
      BY <1>3, <2>2, <2>4 DEF TreeInv, ThreadsTyped
    <2>5. ThreadsTyped'
      BY <1>4, <2>3, <2>4
    <2> QED
      BY <2>1, <2>5
  <1>6. LockExact'
    <2>1. CASE Release(t, "idle") /\ lock = None
      BY <1>3, <2>1, TreeAssumption DEF TreeInv, ThreadsTyped, LockExact, Release
    <2>2. ASSUME NEW b \in candidates \ {tip}, lock = None, lock' = t,
                 pc' = [pc EXCEPT ![t] = "step"], goal' = [goal EXCEPT ![t] = b]
          PROVE  LockExact'
      <3>1. b \in linked /\ b \notin Active
        BY BetterNotActive DEF TreeInv, BlocksTyped, TipLinked, NoneWorse
      <3>2. \A u \in Threads : u # None /\ pc[u] \notin {"step", "invalidate"}
        BY <2>2, TreeAssumption DEF TreeInv, LockExact
      <3> QED
        BY <1>3, <2>2, <3>1, <3>2 DEF TreeInv, ThreadsTyped, LockExact, Active
    <2> QED
      BY <1>4, <2>1, <2>2
  <1>7. LinkedExact' /\ WaitingExact' /\ IndexClosed' /\ CoinsLinked' /\ NoBadConnected' /\ DiskBehind' /\ DiskRecoverable'
    BY <1>3, TreeSame, TipSame, DiskKept
  <1>8. TipLinked' /\ NoneWorse'
    BY <1>2, <1>3 DEF TreeInv, TipLinked, NoneWorse, Worse, WorseWith
  <1> QED
    BY <1>5, <1>6, <1>7, <1>8 DEF TreeInv

(* The tip may become its parent: no candidate is worse than that, and a   *)
(* goal that was off the active chain still is.                            *)
LEMMA TipLowered ==
  ASSUME TreeInv, tip # Genesis, tip' = Parent[tip], UNCHANGED <<linked, nSequenceId>>,
         candidates' \subseteq candidates
  PROVE  TipLinked' /\ NoneWorse' /\ Active' \subseteq Active /\ Active' \cap BadConnect = {}
  <1>1. tip \in Blocks /\ Parent[tip] \in Tree /\ tip \in Tree /\ nSequenceId \in [Tree -> Nat]
    BY TipParent, AncestorsParent DEF TreeInv, BlocksTyped
  <1>2. ASSUME NEW c \in candidates
        PROVE  ~WorseWith(nSequenceId, c, Parent[tip])
    <2>1. c \in Tree /\ ~WorseWith(nSequenceId, c, tip)
      BY DEF TreeInv, BlocksTyped, NoneWorse, Worse
    <2> QED
      BY <1>1, <2>1, ParentWorse, WorseOrder
  <1>3. NoneWorse'
    BY <1>2 DEF NoneWorse, Worse, WorseWith
  <1>4. TipLinked'
    BY TipParent DEF TreeInv, TipLinked
  <1> QED
    BY <1>3, <1>4, TipParent DEF Active

(* DisconnectTip. *)
LEMMA DisconnectTree ==
  ASSUME TreeInv, NEW t \in Threads, DisconnectTip(t)
  PROVE  TreeInv'
  <1>1. /\ Flushed(dirty, failedValid, failedChild, Parent[tip])
        /\ tip' = Parent[tip] /\ coinsBest' = Parent[tip]
        /\ UNCHANGED <<treeVars, candidates, lock, threadVars, calls, crashes, gaveUp>>
    BY DEF DisconnectTip, FlushIfDue, Flushed
  <1>2. tip # Genesis
    <2>1. pc[t] = "step" /\ tip \notin Ancestors[goal[t]]
      BY DEF DisconnectTip, InStep, AtFork
    <2> QED
      BY <2>1, TipNotGenesis
  <1>3. UNCHANGED <<index, data, linked, failedValid, failedChild, nSequenceId, unlinked>>
    BY <1>1 DEF treeVars
  <1>4. TipLinked' /\ NoneWorse' /\ Active' \subseteq Active /\ Active' \cap BadConnect = {}
    BY <1>1, <1>2, <1>3, TipLowered
  <1>5. /\ dirty' \subseteq index
        /\ disk' \in [index : SUBSET Tree, data : SUBSET Tree, failedValid : SUBSET Tree,
                      failedChild : SUBSET Tree, tip : Tree]
        /\ DiskBehind' /\ DiskRecoverable' /\ Ancestors[disk'.tip] \cap BadConnect = {}
    <2>1. dirty \subseteq index /\ failedValid \subseteq index /\ failedChild \subseteq index
      BY DEF TreeInv, BlocksTyped
    <2> QED
      BY <1>1, <1>2, <1>3, <2>1, TipParent, DiskFlushed
  <1>6. BlocksTyped' /\ ThreadsTyped'
    <2>1. tip' \in index
      BY <1>1, <1>2, TipParent DEF TreeInv, BlocksTyped
    <2> QED
      BY <1>1, <1>3, <1>5, <2>1 DEF TreeInv, BlocksTyped, ThreadsTyped, threadVars
  <1>7. LockExact'
    BY <1>1, <1>3, <1>4 DEF TreeInv, LockExact, threadVars
  <1>8. LinkedExact' /\ WaitingExact' /\ IndexClosed'
    BY <1>3, TreeSame
  <1>9. CoinsLinked' /\ NoBadConnected'
    BY <1>1, <1>3, <1>4, <1>5 DEF TipLinked, CoinsLinked, NoBadConnected, Active
  <1> QED
    BY <1>4, <1>5, <1>6, <1>7, <1>8, <1>9 DEF TreeInv

(* ConnectTip. *)
LEMMA ConnectTree ==
  ASSUME TreeInv, NEW t \in Threads, ConnectTip(t)
  PROVE  TreeInv'
  <1> DEFINE n == NextBlock(t)
  <1>1. /\ n \in Ancestors[goal[t]] /\ n \in Blocks \cap linked /\ n \notin Active
        /\ Ancestors[n] = {n} \cup Active /\ n \notin BadConnect
    BY NextBlockFacts DEF ConnectTip
  <1>2. /\ Flushed(dirty \cup {n}, failedValid, failedChild, n)
        /\ tip' = n /\ coinsBest' = n /\ candidates' = Pruned(candidates, n)
        /\ \/ /\ lock' = None
              /\ pc' = [pc EXCEPT ![t] = "test"]
              /\ oldTip' = [oldTip EXCEPT ![t] = None]
           \/ n # goal[t] /\ UNCHANGED <<lock, pc, oldTip>>
        /\ UNCHANGED <<treeVars, goal, calls, crashes, gaveUp>>
        /\ lock = t /\ pc[t] = "step"
    BY DEF ConnectTip, InStep, Flushed
  <1>3. UNCHANGED <<index, data, linked, failedValid, failedChild, nSequenceId, unlinked>>
    BY <1>2 DEF treeVars
  <1> HIDE DEF n
  <1>4. TipLinked' /\ NoneWorse'
    BY <1>1, <1>2, <1>3 DEF TreeInv, TipLinked, NoneWorse, Pruned, Worse, WorseWith
  <1>5. /\ dirty' \subseteq index
        /\ disk' \in [index : SUBSET Tree, data : SUBSET Tree, failedValid : SUBSET Tree,
                      failedChild : SUBSET Tree, tip : Tree]
        /\ DiskBehind' /\ DiskRecoverable' /\ Ancestors[disk'.tip] \cap BadConnect = {}
    <2>1. dirty \cup {n} \subseteq index /\ failedValid \subseteq index /\ failedChild \subseteq index
      BY <1>1 DEF TreeInv, BlocksTyped
    <2>2. Ancestors[n] \cap BadConnect = {}
      BY <1>1 DEF TreeInv, NoBadConnected
    <2>3. dirty \subseteq dirty \cup {n} /\ n \in linked
      BY <1>1
    <2> QED
      BY <1>2, <1>3, <2>1, <2>2, <2>3, DiskFlushed
  <1>6. BlocksTyped' /\ ThreadsTyped'
    <2>1. BlocksTyped'
      BY <1>1, <1>2, <1>3, <1>5 DEF TreeInv, BlocksTyped, Pruned
    <2> QED
      BY <1>2, <2>1 DEF TreeInv, ThreadsTyped
  <1>7. LockExact'
    <2>1. CASE lock' = None /\ pc' = [pc EXCEPT ![t] = "test"]
      BY <1>2, <1>3, <2>1, TreeAssumption DEF TreeInv, ThreadsTyped, LockExact
    <2>2. CASE n # goal[t] /\ UNCHANGED <<lock, pc>>
      <3>1. goal[t] \notin Active'
        <4>1. goal[t] \in Tree /\ goal[t] \notin Active
          BY <1>2 DEF TreeInv, BlocksTyped, LockExact
        <4> QED
          BY <1>1, <1>2, <2>2, <4>1 DEF Active
      <3> QED
        BY <1>2, <1>3, <2>2, <3>1 DEF TreeInv, ThreadsTyped, LockExact
    <2> QED
      BY <1>2, <2>1, <2>2
  <1>8. LinkedExact' /\ WaitingExact' /\ IndexClosed'
    BY <1>3, TreeSame
  <1>9. CoinsLinked' /\ NoBadConnected'
    BY <1>1, <1>2, <1>3, <1>5 DEF TreeInv, CoinsLinked, NoBadConnected, Active
  <1> QED
    BY <1>4, <1>5, <1>6, <1>7, <1>8, <1>9 DEF TreeInv

(* The outcomes of a step that leave the tip where it is, and the test of  *)
(* the loop.                                                               *)
LEMMA StepEndsTree ==
  ASSUME TreeInv, NEW t \in Threads, ConnectInvalid(t) \/ TestLoop(t) \/ StepFails(t)
  PROVE  TreeInv'
  <1>1. /\ UNCHANGED <<index, data, linked, failedChild, nSequenceId, unlinked, tip, coinsBest, disk, calls,
                       crashes, lost>>
        /\ candidates' \subseteq candidates
    BY DEF ConnectInvalid, InvalidBlockFound, TestLoop, StepFails, treeVars
  <1>2. \/ failedValid' = failedValid /\ dirty' = dirty
        \/ \E b \in linked : failedValid' \in {failedValid, failedValid \cup {b}} /\ dirty' = dirty \cup {b}
    BY NextBlockFacts DEF ConnectInvalid, InvalidBlockFound, TestLoop, StepFails, treeVars
  <1>3. \/ /\ pc[t] = "step" /\ lock = t /\ lock' = None
           /\ \/ pc' = [pc EXCEPT ![t] = "test"] /\ goal' = goal
              \/ pc' = [pc EXCEPT ![t] = "idle"] /\ goal' = [goal EXCEPT ![t] = None]
           /\ oldTip' = [oldTip EXCEPT ![t] = None]
        \/ /\ pc[t] = "test" /\ lock' = lock /\ oldTip' = oldTip
           /\ \E l \in {"activate", "idle"} : pc' = [pc EXCEPT ![t] = l]
           /\ goal' = [goal EXCEPT ![t] = None]
    BY DEF ConnectInvalid, TestLoop, StepFails, Release, InStep
  <1>4. gaveUp' \subseteq gaveUp \cup {"step"}
    BY DEF ConnectInvalid, TestLoop, StepFails
  <1>5. BlocksTyped'
    BY <1>1, <1>2 DEF TreeInv, BlocksTyped
  <1>6. ThreadsTyped'
    BY <1>1, <1>3, <1>4 DEF TreeInv, ThreadsTyped
  <1>7. LockExact'
    <2>1. failedValid \subseteq failedValid' /\ Active' = Active /\ linked' = linked
      BY <1>1, <1>2 DEF Active
    <2> QED
      BY <1>3, <2>1, TreeAssumption DEF TreeInv, ThreadsTyped, LockExact
  <1>8. LinkedExact' /\ WaitingExact' /\ IndexClosed' /\ CoinsLinked' /\ NoBadConnected' /\ DiskBehind' /\ DiskRecoverable'
    BY <1>1, <1>2, TreeSame, TipSame, DiskKept
  <1>9. TipLinked' /\ NoneWorse'
    BY <1>1 DEF TreeInv, TipLinked, NoneWorse, Worse, WorseWith
  <1> QED
    BY <1>5, <1>6, <1>7, <1>8, <1>9 DEF TreeInv

(* A flush that moves no tip, whether it fails or not: the coins may move  *)
(* to a linked block.                                                      *)
LEMMA FlushTree ==
  ASSUME TreeInv, NEW d, dirty \subseteq d, d \subseteq index, NEW c \in linked,
         Ancestors[c] \cap BadConnect = {}, coinsBest' = c, Flushed(d, failedValid, failedChild', c),
         failedChild \subseteq failedChild', failedChild' \subseteq index, candidates' \subseteq candidates,
         UNCHANGED <<index, data, linked, failedValid, nSequenceId, unlinked, tip, calls, crashes>>,
         ThreadsTyped', LockExact'
  PROVE  TreeInv'
  <1>1. /\ dirty' \subseteq index
        /\ disk' \in [index : SUBSET Tree, data : SUBSET Tree, failedValid : SUBSET Tree,
                      failedChild : SUBSET Tree, tip : Tree]
        /\ DiskBehind' /\ DiskRecoverable' /\ Ancestors[disk'.tip] \cap BadConnect = {}
    <2>1. failedValid \subseteq index
      BY DEF TreeInv, BlocksTyped
    <2> QED
      BY <2>1, DiskFlushed
  <1>2. BlocksTyped'
    BY <1>1 DEF TreeInv, BlocksTyped
  <1>3. TipLinked' /\ NoneWorse'
    BY DEF TreeInv, TipLinked, NoneWorse, Worse, WorseWith
  <1>4. CoinsLinked' /\ NoBadConnected'
    BY <1>1 DEF TreeInv, CoinsLinked, NoBadConnected, Active
  <1> QED
    BY <1>1, <1>2, <1>3, <1>4, TreeSame DEF TreeInv

(* FlushStateToDisk while nobody holds cs_main, with the coins where they  *)
(* are.                                                                    *)
LEMMA PeriodicFlushTree ==
  ASSUME TreeInv, PeriodicFlush \/ PeriodicFlushFails
  PROVE  TreeInv'
  <1>1. /\ Flushed(dirty, failedValid, failedChild', coinsBest)
        /\ UNCHANGED <<index, data, linked, failedValid, failedChild, nSequenceId, unlinked>>
        /\ UNCHANGED <<candidates, tip, coinsBest, lock, pc, goal, oldTip, calls, crashes, gaveUp>>
    BY DEF PeriodicFlush, PeriodicFlushFails, Flushed, treeVars, threadVars
  <1>2. /\ coinsBest \in linked /\ Ancestors[coinsBest] \cap BadConnect = {}
        /\ dirty \subseteq index /\ failedChild \subseteq index
    BY DEF TreeInv, CoinsLinked, NoBadConnected, BlocksTyped
  <1>3. ThreadsTyped' /\ LockExact'
    BY <1>1 DEF TreeInv, ThreadsTyped, LockExact, Active
  <1> QED
    BY <1>1, <1>2, <1>3, FlushTree

(* The flush of DisconnectTip or ConnectTip fails. *)
LEMMA StepFlushFailsTree ==
  ASSUME TreeInv, NEW t \in Threads, StepFlushFails(t)
  PROVE  TreeInv'
  <1>1. /\ InStep(t) /\ Release(t, "idle") /\ gaveUp' = gaveUp \cup {"step"}
        /\ UNCHANGED <<index, data, linked, failedValid, failedChild, nSequenceId, unlinked>>
        /\ UNCHANGED <<candidates, tip, calls, crashes>>
    BY DEF StepFlushFails, treeVars
  <1>2. PICK c \in linked, d \in SUBSET index :
           /\ coinsBest' = c /\ Ancestors[c] \cap BadConnect = {}
           /\ dirty \subseteq d /\ Flushed(d, failedValid, failedChild', c)
    <2>1. CASE ~AtFork(t)
      <3>1. tip # Genesis
        BY <1>1, <2>1, TipNotGenesis DEF InStep, AtFork
      <3>2. Parent[tip] \in linked /\ Ancestors[Parent[tip]] \cap BadConnect = {} /\ dirty \subseteq index
        BY <3>1, TipParent DEF TreeInv, BlocksTyped
      <3>3. coinsBest' = Parent[tip] /\ Flushed(dirty, failedValid, failedChild', Parent[tip])
        BY <1>1, <2>1 DEF StepFlushFails, Flushed
      <3> QED
        BY <3>2, <3>3
    <2>2. CASE AtFork(t)
      <3>1. NextBlock(t) \notin BadConnect /\ coinsBest' = NextBlock(t)
        BY <2>2 DEF StepFlushFails
      <3>2. /\ NextBlock(t) \in linked /\ Ancestors[NextBlock(t)] \cap BadConnect = {}
            /\ dirty \cup {NextBlock(t)} \subseteq index
        BY <1>1, <2>2, <3>1, NextBlockFacts DEF TreeInv, NoBadConnected, BlocksTyped
      <3>3. Flushed(dirty \cup {NextBlock(t)}, failedValid, failedChild', NextBlock(t))
        BY <1>1, <2>2 DEF StepFlushFails, Flushed
      <3> QED
        BY <3>1, <3>2, <3>3
    <2> QED
      BY <2>1, <2>2
  <1>3. ThreadsTyped'
    BY <1>1 DEF TreeInv, ThreadsTyped, Release
  <1>4. LockExact'
    BY <1>1, TreeAssumption DEF TreeInv, ThreadsTyped, LockExact, Release, InStep, Active
  <1>5. failedChild \subseteq index
    BY DEF TreeInv, BlocksTyped
  <1> QED
    BY <1>1, <1>2, <1>3, <1>4, <1>5, FlushTree

(* InvalidateBlock: its start, its loop, its end. *)
LEMMA BeginInvalidateTree ==
  ASSUME TreeInv, NEW t \in Threads, NEW b \in Blocks, BeginInvalidate(t, b)
  PROVE  TreeInv'
  <1>1. /\ UNCHANGED <<index, data, linked, failedChild, nSequenceId, unlinked, tip, coinsBest, disk, oldTip,
                       crashes, gaveUp, lost>>
        /\ candidates' \subseteq candidates /\ b \in Invalidatable \cap index
        /\ failedValid' = failedValid \cup {b} /\ dirty' = dirty \cup {b}
        /\ calls < MaxCalls /\ calls' = calls + 1
        /\ lock = None /\ lock' = t
        /\ pc' = [pc EXCEPT ![t] = "invalidate"] /\ goal' = [goal EXCEPT ![t] = b]
    BY DEF BeginInvalidate
  <1>2. BlocksTyped'
    BY <1>1 DEF TreeInv, BlocksTyped
  <1>3. ThreadsTyped'
    BY <1>1, BoundAssumption, b \in Tree DEF TreeInv, ThreadsTyped, Tree
  <1>4. LockExact'
    <2>1. \A u \in Threads : u # None /\ pc[u] \notin {"step", "invalidate"}
      BY <1>1, TreeAssumption DEF TreeInv, LockExact
    <2> QED
      BY <1>1, <2>1 DEF TreeInv, ThreadsTyped, LockExact
  <1>5. LinkedExact' /\ WaitingExact' /\ IndexClosed' /\ CoinsLinked' /\ NoBadConnected' /\ DiskBehind' /\ DiskRecoverable'
    BY <1>1, TreeSame, TipSame, DiskKept
  <1>6. TipLinked' /\ NoneWorse'
    BY <1>1 DEF TreeInv, TipLinked, NoneWorse, Worse, WorseWith
  <1> QED
    BY <1>2, <1>3, <1>4, <1>5, <1>6 DEF TreeInv

(* InvalidateBlock disconnects the tip. *)
LEMMA InvalidateTipTree ==
  ASSUME TreeInv, NEW t \in Threads, InvalidateTip(t)
  PROVE  TreeInv'
  <1>1. /\ pc[t] = "invalidate" /\ goal[t] \in Active
        /\ failedChild' = failedChild \cup {tip} /\ candidates' = candidates \ {tip}
        /\ Flushed(dirty \cup {tip}, failedValid, failedChild', Parent[tip])
        /\ tip' = Parent[tip] /\ coinsBest' = Parent[tip]
        /\ UNCHANGED <<index, data, linked, failedValid, nSequenceId, unlinked, lock, pc, goal, oldTip,
                       calls, crashes, gaveUp>>
    BY DEF InvalidateTip, FlushIfDue, Flushed, threadVars
  <1>2. tip # Genesis
    BY <1>1, TipNotGenesis
  <1>3. TipLinked' /\ NoneWorse' /\ Active' \subseteq Active /\ Active' \cap BadConnect = {}
    BY <1>1, <1>2, TipLowered
  <1>4. /\ dirty' \subseteq index
        /\ disk' \in [index : SUBSET Tree, data : SUBSET Tree, failedValid : SUBSET Tree,
                      failedChild : SUBSET Tree, tip : Tree]
        /\ DiskBehind' /\ DiskRecoverable' /\ Ancestors[disk'.tip] \cap BadConnect = {}
    <2>1. /\ dirty \cup {tip} \subseteq index /\ failedValid \subseteq index /\ failedChild' \subseteq index
          /\ dirty \subseteq dirty \cup {tip}
      BY <1>1 DEF TreeInv, BlocksTyped
    <2> QED
      BY <1>1, <1>2, <2>1, TipParent, DiskFlushed
  <1>5. BlocksTyped' /\ ThreadsTyped'
    <2>1. tip' \in index
      BY <1>1, <1>2, TipParent DEF TreeInv, BlocksTyped
    <2> QED
      BY <1>1, <1>4, <2>1 DEF TreeInv, BlocksTyped, ThreadsTyped
  <1>6. LockExact'
    BY <1>1, <1>3 DEF TreeInv, LockExact
  <1>7. LinkedExact' /\ WaitingExact' /\ IndexClosed'
    BY <1>1, TreeSame
  <1>8. CoinsLinked' /\ NoBadConnected'
    BY <1>1, <1>3, <1>4 DEF TipLinked, CoinsLinked, NoBadConnected, Active
  <1> QED
    BY <1>3, <1>4, <1>5, <1>6, <1>7, <1>8 DEF TreeInv

(* InvalidateBlock ends, or a system error ends it before the coins have   *)
(* moved.                                                                  *)
LEMMA InvalidateEndsTree ==
  ASSUME TreeInv, NEW t \in Threads,
         \/ EndInvalidate(t)
         \/ InvalidateFails(t) /\ dirty' = dirty \cup {tip} /\ UNCHANGED <<coinsBest, disk, lost>>
  PROVE  TreeInv'
  <1>1. /\ UNCHANGED <<index, data, linked, failedValid, nSequenceId, unlinked, tip, coinsBest, disk, calls,
                       crashes, lost>>
        /\ failedChild' \subseteq failedChild \cup {tip}
        /\ dirty \subseteq dirty' /\ dirty' \subseteq dirty \cup {tip}
        /\ candidates' \subseteq candidates \cup Restored(tip)
        /\ pc[t] = "invalidate" /\ Release(t, "activate")
        /\ gaveUp' \subseteq gaveUp \cup {"invalidate"}
    BY DEF InvalidateFails, EndInvalidate, treeVars
  <1>2. TipLinked' /\ NoneWorse'
    BY <1>1 DEF TreeInv, TipLinked, NoneWorse, Restored, Worse, WorseWith
  <1>3. BlocksTyped'
    BY <1>1 DEF TreeInv, BlocksTyped, Restored
  <1>4. ThreadsTyped'
    BY <1>1 DEF TreeInv, ThreadsTyped, Release
  <1>5. LockExact'
    <2>1. lock = t
      BY <1>1 DEF TreeInv, LockExact
    <2> QED
      BY <1>1, <2>1, TreeAssumption DEF TreeInv, ThreadsTyped, LockExact, Release, Active
  <1>6. LinkedExact' /\ WaitingExact' /\ IndexClosed' /\ CoinsLinked' /\ NoBadConnected' /\ DiskBehind' /\ DiskRecoverable'
    BY <1>1, TreeSame, TipSame, DiskKept
  <1> QED
    BY <1>2, <1>3, <1>4, <1>5, <1>6 DEF TreeInv

(* The flush of InvalidateBlock fails. *)
LEMMA InvalidateFailsTree ==
  ASSUME TreeInv, NEW t \in Threads, InvalidateFails(t)
  PROVE  TreeInv'
  <1>1. /\ pc[t] = "invalidate" /\ goal[t] \in Active /\ failedChild' = failedChild \cup {tip}
        /\ candidates' \subseteq candidates /\ Release(t, "activate")
        /\ gaveUp' = gaveUp \cup {"invalidate"}
        /\ UNCHANGED <<index, data, linked, failedValid, nSequenceId, unlinked, tip, calls, crashes>>
    BY DEF InvalidateFails
  <1>2. CASE dirty' = dirty \cup {tip} /\ UNCHANGED <<coinsBest, disk, lost>>
    BY <1>2, InvalidateEndsTree
  <1>3. CASE /\ FlushFails(dirty \cup {tip}, failedValid, failedChild', "write")
             /\ coinsBest' = Parent[tip]
    <2>1. tip # Genesis
      BY <1>1, TipNotGenesis
    <2>2. /\ Parent[tip] \in linked /\ Ancestors[Parent[tip]] \cap BadConnect = {}
          /\ dirty \cup {tip} \subseteq index /\ failedChild' \subseteq index
          /\ dirty \subseteq dirty \cup {tip} /\ failedChild \subseteq failedChild'
      BY <1>1, <2>1, TipParent DEF TreeInv, BlocksTyped
    <2>3. Flushed(dirty \cup {tip}, failedValid, failedChild', Parent[tip])
      BY <1>3 DEF Flushed
    <2>4. ThreadsTyped'
      BY <1>1 DEF TreeInv, ThreadsTyped, Release
    <2>5. LockExact'
      <3>1. lock = t
        BY <1>1 DEF TreeInv, LockExact
      <3> QED
        BY <1>1, <3>1, TreeAssumption DEF TreeInv, ThreadsTyped, LockExact, Release, Active
    <2> QED
      BY <1>1, <1>3, <2>2, <2>3, <2>4, <2>5, FlushTree
  <1> QED
    BY <1>2, <1>3 DEF InvalidateFails

(* ReconsiderBlock, as an RPC and for a checkpoint. *)
LEMMA ReconsiderTree ==
  ASSUME TreeInv, NEW t \in Threads, NEW b \in Blocks,
         ReconsiderBlock(t, b) \/ ReconsiderCheckpoint(t, b)
  PROVE  TreeInv'
  <1>1. /\ UNCHANGED <<index, data, linked, nSequenceId, unlinked, tip, coinsBest, disk, lock, goal, oldTip,
                       crashes, gaveUp, lost>>
        /\ (calls' = calls) \/ (calls < MaxCalls /\ calls' = calls + 1)
        /\ pc[t] = "idle" /\ lock = None /\ pc' = [pc EXCEPT ![t] = "activate"]
    <2>1. CASE ReconsiderBlock(t, b)
      BY <2>1 DEF ReconsiderBlock
    <2>2. CASE ReconsiderCheckpoint(t, b)
      BY <2>2 DEF ReconsiderCheckpoint
    <2> QED
      BY <2>1, <2>2
  <1>2. PICK a \in Tree : Reconsider(a)
    BY TreeAssumption DEF ReconsiderBlock, ReconsiderCheckpoint, Tree
  <1>3. /\ failedValid' \subseteq failedValid /\ failedChild' \subseteq failedChild
        /\ dirty \subseteq dirty' /\ dirty' \subseteq dirty \cup index
        /\ \A c \in candidates' \ candidates : c \in linked /\ Worse(tip, c)
    <2>1. Failed \subseteq index
      BY DEF TreeInv, BlocksTyped, Failed
    <2> QED
      BY <1>2, <2>1 DEF Reconsider, ChildFlagsLeft, Requalified
  <1>4. TipLinked'
    BY <1>1, <1>3 DEF TreeInv, TipLinked
  <1>5. NoneWorse'
    <2>1. ASSUME NEW c \in candidates' PROVE ~WorseWith(nSequenceId, c, tip)
      <3>1. CASE c \in candidates
        BY <3>1 DEF TreeInv, NoneWorse, Worse
      <3>2. CASE c \notin candidates
        BY <1>3, <3>2, WorseOrder DEF TreeInv, BlocksTyped, Worse
      <3> QED
        BY <3>1, <3>2
    <2> QED
      BY <1>1, <2>1 DEF NoneWorse, Worse
  <1>6. BlocksTyped'
    BY <1>1, <1>3, <1>4 DEF TreeInv, BlocksTyped, TipLinked
  <1>7. ThreadsTyped'
    BY <1>1, BoundAssumption DEF TreeInv, ThreadsTyped
  <1>8. LockExact'
    <2>1. \A u \in Threads : u # None /\ pc[u] \notin {"step", "invalidate"}
      BY <1>1, TreeAssumption DEF TreeInv, LockExact
    <2> QED
      BY <1>1, <2>1 DEF TreeInv, ThreadsTyped, LockExact
  <1>9. LinkedExact' /\ WaitingExact' /\ IndexClosed' /\ CoinsLinked' /\ NoBadConnected' /\ DiskBehind' /\ DiskRecoverable'
    BY <1>1, <1>3, TreeSame, TipSame, DiskKept
  <1> QED
    BY <1>4, <1>5, <1>6, <1>7, <1>8, <1>9 DEF TreeInv

(* AcceptBlock where no data is stored. *)
LEMMA AcceptTree ==
  ASSUME TreeInv, NEW t \in Threads, NEW b \in Blocks,
         AcceptDuplicate(t, b) \/ AcceptInvalid(t, b) \/ AcceptRejected(t, b)
  PROVE  TreeInv'
  <1>1. /\ UNCHANGED <<data, linked, failedChild, nSequenceId, unlinked, candidates, tip, coinsBest, disk, lock,
                       goal, oldTip, calls, crashes, gaveUp, lost>>
        /\ pc[t] = "idle" /\ lock = None /\ Parent[b] \in index
        /\ pc' = pc \/ pc' = [pc EXCEPT ![t] = "activate"]
        /\ index \subseteq index' /\ index' \subseteq index \cup {b}
        /\ dirty \subseteq dirty' /\ dirty' \subseteq dirty \cup index' /\ index' \ dirty' \subseteq index \ dirty
        /\ failedValid \subseteq failedValid' /\ failedValid' \subseteq failedValid \cup index'
        /\ b \in data => index' = index
    <2>1. CASE AcceptDuplicate(t, b)
      BY <2>1 DEF AcceptDuplicate, MayAccept, treeVars
    <2>2. CASE AcceptInvalid(t, b)
      BY <2>2 DEF AcceptInvalid, MayAccept, threadVars
    <2>3. CASE AcceptRejected(t, b)
      BY <2>3 DEF AcceptRejected, MayAccept, threadVars
    <2> QED
      BY <2>1, <2>2, <2>3
  <1>2. b \in Tree
    BY DEF Tree
  <1>3. BlocksTyped'
    BY <1>1, <1>2 DEF TreeInv, BlocksTyped
  <1>4. ThreadsTyped'
    BY <1>1 DEF TreeInv, ThreadsTyped
  <1>5. LockExact'
    <2>1. \A u \in Threads : u # None /\ pc[u] \notin {"step", "invalidate"}
      BY <1>1, TreeAssumption DEF TreeInv, LockExact
    <2> QED
      BY <1>1, <2>1 DEF TreeInv, ThreadsTyped, LockExact
  <1>6. LinkedExact' /\ WaitingExact' /\ IndexClosed'
    BY <1>1, <1>2, AncestorsType DEF TreeInv, LinkedExact, WaitingExact, IndexClosed, HasParents
  <1>7. CoinsLinked' /\ NoBadConnected' /\ DiskBehind' /\ DiskRecoverable'
    BY <1>1, TipSame, DiskKept
  <1>8. TipLinked' /\ NoneWorse'
    BY <1>1 DEF TreeInv, TipLinked, NoneWorse, Worse, WorseWith
  <1> QED
    BY <1>3, <1>4, <1>5, <1>6, <1>7, <1>8 DEF TreeInv

(* ReceivedBlockTransactions links exactly what can be linked once b has   *)
(* arrived, whatever arrived before.                                       *)
LEMMA NewlyLinkedExact ==
  ASSUME TreeInv, NEW b \in Blocks, b \notin data
  PROVE  /\ NewlyLinked(b) \cap linked = {}
         /\ linked \cup NewlyLinked(b) = {c \in index \cup {b} : Ancestors[c] \subseteq data \cup {b}}
         /\ NewlyLinked(b) \subseteq data \cup {b}
         /\ StillUnlinked(b, NewlyLinked(b)) = (data \cup {b}) \ (linked \cup NewlyLinked(b))
  <1> DEFINE new == NewlyLinked(b)
  <1>1. /\ b \in Tree /\ Parent[b] \in Tree /\ Ancestors[b] = {b} \cup Ancestors[Parent[b]]
        /\ b \notin Ancestors[Parent[b]]
    BY AncestorsParent
  <1>2. /\ index \subseteq Tree /\ data \subseteq index /\ linked \subseteq data
        /\ linked = {c \in index : Ancestors[c] \subseteq data} /\ unlinked = data \ linked
    BY DEF TreeInv, BlocksTyped, LinkedExact, WaitingExact
  <1>3. \A c \in Tree : c \in Ancestors[c]
    BY AncestorsType
  <1>4. new \subseteq data \cup {b} /\ new \cap linked = {}
    BY <1>2 DEF NewlyLinked
  <1>5. ASSUME NEW c \in index \cup {b}, Ancestors[c] \subseteq data \cup {b}, b \in Ancestors[c]
        PROVE  Parent[b] \in linked /\ c \in new
    <2>1. c \in Tree /\ c \in unlinked \cup {b}
      BY <1>1, <1>2, <1>3, <1>5
    <2>2. Parent[b] \in linked
      BY <1>1, <1>2, <1>3, <1>5, <2>1, AncestorsTransitive
    <2>3. ASSUME NEW a \in Ancestors[c] \ Ancestors[b]
          PROVE  a \in unlinked
      <3>1. b \in Ancestors[a]
        BY <1>5, <2>1, AncestorsLinear
      <3> QED
        BY <1>1, <1>2, <1>5, <3>1
    <2> QED
      BY <1>5, <2>1, <2>2, <2>3 DEF NewlyLinked
  <1>6. ASSUME NEW c \in new
        PROVE  c \in index \cup {b} /\ Ancestors[c] \subseteq data \cup {b}
    BY <1>1, <1>2 DEF NewlyLinked
  <1>7. linked \cup new = {c \in index \cup {b} : Ancestors[c] \subseteq data \cup {b}}
    <2>1. ASSUME NEW c \in index \cup {b}, Ancestors[c] \subseteq data \cup {b}, b \notin Ancestors[c]
          PROVE  c \in linked
      BY <1>1, <1>2, <1>3, <2>1
    <2>2. ASSUME NEW c \in linked
          PROVE  c \in index \cup {b} /\ Ancestors[c] \subseteq data \cup {b}
      BY <1>2
    <2> HIDE DEF new
    <2> QED
      BY <1>5, <1>6, <2>1, <2>2
  <1>8. StillUnlinked(b, new) = (data \cup {b}) \ (linked \cup new)
    <2>1. CASE Parent[b] \in linked
      <3>1. b \in new
        BY <1>1, <1>2, <1>3, <1>5, <2>1
      <3> QED
        BY <1>2, <1>4, <3>1 DEF StillUnlinked
    <2>2. CASE Parent[b] \notin linked
      BY <1>2, <2>2 DEF StillUnlinked, NewlyLinked
    <2> QED
      BY <2>1, <2>2
  <1> QED
    BY <1>4, <1>7, <1>8

(* What ReceivedBlockTransactions numbers and makes candidates.            *)
LEMMA NumberingsType ==
  ASSUME TreeInv, NEW S \in SUBSET Tree, NEW f \in Numberings(S)
  PROVE  [c \in Tree |-> IF c \in S THEN f[c] ELSE nSequenceId[c]] \in [Tree -> Nat]
  <1>1. nSequenceId \in [Tree -> Nat]
    BY DEF TreeInv, BlocksTyped
  <1>2. IsFiniteSet(Tree)
    BY TreeAssumption, FS_AddElement DEF Tree
  <1>3. Cardinality(S) \in Nat /\ Max({nSequenceId[b] : b \in Tree}) \in Nat
    BY <1>1, <1>2, FS_Subset, FS_CardinalityType, MaxSequence
  <1>4. \A c \in S : f[c] \in Nat
    BY <1>3 DEF Numberings
  <1> QED
    BY <1>1, <1>4

(* AcceptBlock that stores the block. *)
LEMMA AcceptStoredTree ==
  ASSUME TreeInv, NEW t \in Threads, NEW b \in Blocks, AcceptStored(t, b)
  PROVE  TreeInv'
  <1> DEFINE new == NewlyLinked(b)
  <1>1. /\ index' = index \cup {b} /\ data' = data \cup {b} /\ dirty' = dirty \cup {b}
        /\ linked' = linked \cup new /\ unlinked' = StillUnlinked(b, new)
        /\ UNCHANGED <<failedValid, failedChild, tip, coinsBest, disk, lock, goal, oldTip, calls, crashes,
                       gaveUp, lost>>
        /\ pc[t] = "idle" /\ lock = None /\ pc' = [pc EXCEPT ![t] = "activate"]
        /\ b \notin data /\ Parent[b] \in index
    BY DEF AcceptStored, MayAccept
  <1>2. PICK f \in Numberings(new) :
          /\ nSequenceId' = [c \in Tree |-> IF c \in new THEN f[c] ELSE nSequenceId[c]]
          /\ candidates' = candidates \cup {c \in new : ~WorseWith(nSequenceId', c, tip)}
    BY DEF AcceptStored
  <1>3. /\ new \cap linked = {} /\ new \subseteq data \cup {b}
        /\ linked \cup new = {c \in index \cup {b} : Ancestors[c] \subseteq data \cup {b}}
        /\ StillUnlinked(b, new) = (data \cup {b}) \ (linked \cup new)
    BY <1>1, NewlyLinkedExact
  <1> HIDE DEF new
  <1>4. b \in Tree /\ new \in SUBSET Tree
    BY <1>3 DEF Tree, TreeInv, BlocksTyped
  <1>5. nSequenceId' \in [Tree -> Nat]
    BY <1>2, <1>4, NumberingsType
  <1>6. TipLinked'
    BY <1>1, <1>2 DEF TreeInv, TipLinked
  <1>7. NoneWorse'
    <2>1. ASSUME NEW c \in candidates
          PROVE  ~WorseWith(nSequenceId', c, tip)
      <3>1. nSequenceId'[c] = nSequenceId[c] /\ nSequenceId'[tip] = nSequenceId[tip]
        BY <1>2, <1>3 DEF TreeInv, BlocksTyped, TipLinked
      <3> QED
        BY <3>1 DEF TreeInv, NoneWorse, Worse, WorseWith
    <2> QED
      BY <1>1, <1>2, <2>1 DEF NoneWorse, Worse
  <1>8. BlocksTyped'
    BY <1>1, <1>2, <1>3, <1>4, <1>5, <1>6 DEF TreeInv, BlocksTyped, TipLinked
  <1>9. ThreadsTyped'
    BY <1>1 DEF TreeInv, ThreadsTyped
  <1>10. LockExact'
    <2>1. \A u \in Threads : u # None /\ pc[u] \notin {"step", "invalidate"}
      BY <1>1, TreeAssumption DEF TreeInv, LockExact
    <2> QED
      BY <1>1, <2>1 DEF TreeInv, ThreadsTyped, LockExact
  <1>11. LinkedExact' /\ WaitingExact' /\ IndexClosed'
    BY <1>1, <1>3 DEF TreeInv, LinkedExact, WaitingExact, IndexClosed, HasParents
  <1>12. CoinsLinked' /\ NoBadConnected' /\ DiskBehind' /\ DiskRecoverable'
    BY <1>1, TipSame, DiskKept
  <1> QED
    BY <1>6, <1>7, <1>8, <1>9, <1>10, <1>11, <1>12 DEF TreeInv

(* A restart from an index that the node starts from. *)
LEMMA LoadTree ==
  ASSUME TreeInv, NEW t \in Threads, NEW d, Loadable(d), Starts(d), LoadBlockIndexDB(t, d),
         crashes < MaxCrashes, crashes' = crashes + 1, calls' = calls
  PROVE  TreeInv'
  <1>1. /\ d.tip \in Tree /\ d.index \subseteq Tree /\ d.data \subseteq d.index
        /\ d.failedValid \subseteq d.index /\ d.failedChild \subseteq d.index
        /\ Ancestors[d.tip] \subseteq d.data
    BY DEF Loadable, Starts
  <1>2. LoadedLinked(d) \subseteq d.data
    BY <1>1, AncestorsType DEF LoadedLinked
  <1>3. d.tip \in LoadedLinked(d)
    BY <1>1, AncestorsType DEF LoadedLinked
  <1>4. TipLinked' /\ NoneWorse'
    BY <1>3 DEF LoadBlockIndexDB, LoadedCandidates, TipLinked, NoneWorse, Worse
  <1>5. BlocksTyped'
    <2>1. Unnumbered \in [Tree -> Nat]
      BY DEF Unnumbered
    <2> QED
      BY <1>1, <1>2, <1>3, <1>4, <2>1 DEF LoadBlockIndexDB, LoadedUnlinked, Loadable, BlocksTyped, TipLinked
  <1>6. ThreadsTyped'
    BY BoundAssumption DEF LoadBlockIndexDB, TreeInv, ThreadsTyped
  <1>7. LockExact'
    BY TreeAssumption DEF LoadBlockIndexDB, LockExact
  <1>8. LinkedExact' /\ WaitingExact' /\ IndexClosed'
    BY DEF LoadBlockIndexDB, LoadedLinked, LoadedUnlinked, LinkedExact, WaitingExact, IndexClosed, Starts
  <1>9. DiskBehind' /\ DiskRecoverable'
    <2>1. LossTyped'
      BY DEF LoadBlockIndexDB, TreeInv, DiskBehind, LossTyped, NoBatchLost
    <2> QED
      BY <1>1, <2>1 DEF LoadBlockIndexDB, Loadable, DiskBehind, DiskFailed, DiskRecoverable
  <1>10. CoinsLinked' /\ NoBadConnected'
    BY <1>3 DEF LoadBlockIndexDB, Loadable, CoinsLinked, NoBadConnected, Active
  <1> QED
    BY <1>4, <1>5, <1>6, <1>7, <1>8, <1>9, <1>10 DEF TreeInv

(* What a crash leaves on disk. *)
LEMMA CrashLoads ==
  ASSUME TreeInv, NEW t \in Threads, CrashAndRestart(t)
  PROVE  /\ crashes < MaxCrashes /\ crashes' = crashes + 1 /\ calls' = calls
         /\ \E d \in {disk, IndexWritten(dirty, failedValid, failedChild)} :
               Loadable(d) /\ Starts(d) /\ LoadBlockIndexDB(t, d)
  <1>1. Loadable(disk) /\ Loadable(IndexWritten(dirty, failedValid, failedChild))
    <2>1. dirty \subseteq index /\ failedValid \subseteq index /\ failedChild \subseteq index
      BY DEF TreeInv, BlocksTyped
    <2> QED
      BY <2>1, WrittenLoadable
  <1> QED
    BY <1>1 DEF CrashAndRestart

(* TreeInv is inductive. *)
LEMMA TreeInit ==
  ASSUME Init
  PROVE  TreeInv
  <1>1. Genesis \in Tree /\ Ancestors[Genesis] = {Genesis}
    BY AncestorsGenesis
  <1>2. BlocksTyped
    BY <1>1 DEF Init, BlocksTyped
  <1>3. ThreadsTyped
    BY BoundAssumption DEF Init, ThreadsTyped
  <1>4. LockExact /\ LinkedExact /\ WaitingExact /\ TipLinked
    BY <1>1, TreeAssumption DEF Init, LockExact, LinkedExact, WaitingExact, TipLinked
  <1>5. NoneWorse
    BY <1>1, <1>2, WorseOrder DEF Init, BlocksTyped, NoneWorse, Worse
  <1>6. Genesis \notin BadConnect
    BY TreeAssumption, BlockAssumption
  <1>7. IndexClosed /\ CoinsLinked /\ NoBadConnected
    BY <1>1, <1>6 DEF Init, IndexClosed, HasParents, CoinsLinked, NoBadConnected, Active
  <1>8. DiskBehind /\ DiskRecoverable
    BY <1>1 DEF Init, DiskBehind, LossTyped, DiskFailed, DiskRecoverable, Starts, HasParents
  <1> QED
    BY <1>2, <1>3, <1>4, <1>5, <1>7, <1>8 DEF TreeInv

(* A stuttering step. *)
LEMMA TreeStutter ==
  ASSUME TreeInv, UNCHANGED vars
  PROVE  TreeInv'
  <1>1. UNCHANGED <<index, data, linked, failedValid, failedChild, nSequenceId, unlinked, candidates,
                    tip, coinsBest, dirty, disk, lock, pc, goal, oldTip, calls, crashes, gaveUp, lost>>
    BY DEF vars, treeVars, threadVars
  <1>2. BlocksTyped' /\ ThreadsTyped' /\ LockExact'
    BY <1>1 DEF TreeInv, BlocksTyped, ThreadsTyped, LockExact, Active
  <1>3. LinkedExact' /\ WaitingExact' /\ IndexClosed' /\ CoinsLinked' /\ NoBadConnected' /\ DiskBehind' /\ DiskRecoverable'
    BY <1>1, TreeSame, TipSame, DiskKept
  <1>4. TipLinked' /\ NoneWorse'
    BY <1>1 DEF TreeInv, TipLinked, NoneWorse, Worse, WorseWith
  <1> QED
    BY <1>2, <1>3, <1>4 DEF TreeInv

(* TreeInv is kept by every step. *)
LEMMA TreeNext ==
  ASSUME TreeInv, [Next]_vars
  PROVE  TreeInv'
  <1>1. ASSUME NEW t \in Threads,
               \/ ActivateBestChain(t) \/ StepFails(t) \/ StepFlushFails(t)
               \/ InvalidateLoop(t) \/ CrashAndRestart(t)
        PROVE  TreeInv'
    <2>1. CASE FindMostWorkChain(t)
      BY <2>1, FindMostWorkTree
    <2>2. CASE DisconnectTip(t)
      BY <2>2, DisconnectTree
    <2>3. CASE ConnectTip(t)
      BY <2>3, ConnectTree
    <2>4. CASE ConnectInvalid(t) \/ TestLoop(t) \/ StepFails(t)
      BY <2>4, StepEndsTree
    <2>5. CASE InvalidateTip(t)
      BY <2>5, InvalidateTipTree
    <2>6. CASE InvalidateFails(t) \/ EndInvalidate(t)
      BY <2>6, InvalidateEndsTree, InvalidateFailsTree
    <2>7. CASE CrashAndRestart(t)
      BY <2>7, CrashLoads, LoadTree
    <2>8. CASE StepFlushFails(t)
      BY <2>8, StepFlushFailsTree
    <2> QED
      BY <1>1, <2>1, <2>2, <2>3, <2>4, <2>5, <2>6, <2>7, <2>8 DEF ActivateBestChain, InvalidateLoop
  <1>2. ASSUME NEW t \in Threads, NEW b \in Blocks,
               \/ AcceptDuplicate(t, b) \/ AcceptInvalid(t, b) \/ AcceptRejected(t, b) \/ AcceptStored(t, b)
               \/ BeginInvalidate(t, b) \/ ReconsiderBlock(t, b) \/ ReconsiderCheckpoint(t, b)
        PROVE  TreeInv'
    <2>1. CASE AcceptDuplicate(t, b) \/ AcceptInvalid(t, b) \/ AcceptRejected(t, b)
      BY <2>1, AcceptTree
    <2>2. CASE AcceptStored(t, b)
      BY <2>2, AcceptStoredTree
    <2>3. CASE BeginInvalidate(t, b)
      BY <2>3, BeginInvalidateTree
    <2>4. CASE ReconsiderBlock(t, b) \/ ReconsiderCheckpoint(t, b)
      BY <2>4, ReconsiderTree
    <2> QED
      BY <1>2, <2>1, <2>2, <2>3, <2>4
  <1> QED
    BY <1>1, <1>2, PeriodicFlushTree, TreeStutter DEF Next

(* The invariant of the block tree and of what is on disk, for every tree  *)
(* of blocks and whatever operators call, with every failure of a step or  *)
(* a flush that is modelled: what it says of the disk excepts the time     *)
(* from the loss of a batch of the block index to the next start.          *)
THEOREM ChainTreeInvariant == Spec => []TreeInv
  <1>1. Init => TreeInv
    BY TreeInit
  <1>2. TreeInv /\ [Next]_vars => TreeInv'
    BY TreeNext
  <1> QED
    BY <1>1, <1>2, PTL DEF Spec

(* The block index, the candidates and the disk hold only known blocks. *)
THEOREM ChainTypeOK == Spec => []TypeOK
  <1>1. TreeInv => TypeOK
    BY DEF TreeInv, BlocksTyped, ThreadsTyped, CoinsLinked, DiskBehind, LossTyped, TypeOK
  <1> QED
    BY <1>1, ChainTreeInvariant, PTL

(* nChainTx and mapBlocksUnlinked are exact in whatever order the blocks   *)
(* come, and across restarts.                                              *)
THEOREM ChainTreeExact == Spec => []TreeExact
  <1>1. TreeInv => TreeExact
    BY DEF TreeInv, TreeExact, LinkedExact, WaitingExact, UnlinkedExact
  <1> QED
    BY <1>1, ChainTreeInvariant, PTL

(* Whenever the process ends, the coins on disk are those of a block that  *)
(* the index on disk has, with the data of all its ancestors, after failed *)
(* steps and flushes too, unless a batch of the block index was lost.      *)
THEOREM ChainDiskRecoverable == Spec => []DiskRecoverable
  <1>1. TreeInv => DiskRecoverable
    BY DEF TreeInv
  <1> QED
    BY <1>1, ChainTreeInvariant, PTL

-----------------------------------------------------------------------------
(* The flags.  What descends from a failed block has a cause to be marked. *)
LEMMA FlagsInherited ==
  ASSUME TreeInv, FlagsInv, NEW m \in Tree, Ancestors[m] \cap Failed # {}
  PROVE  /\ Ancestors[m] \cap Culprits # {}
         /\ lost = "no" => Ancestors[m] \cap failedValid # {}
  <1>1. PICK f \in Ancestors[m] : f \in Failed
    OBVIOUS
  <1>2. Ancestors[f] \subseteq Ancestors[m]
    BY AncestorsTransitive
  <1> QED
    BY <1>1, <1>2 DEF FlagsInv, FailedByCulprit, FailuresHaveCause

(* Steps that mark nothing. *)
LEMMA FlagsSame ==
  ASSUME FlagsInv, UNCHANGED <<failedValid, failedChild, disk, lost>>, dirty \subseteq dirty', ContextChecked'
  PROVE  FlagsInv'
  BY DEF FlagsInv, FailedByCulprit, FlagsBehind, FailuresHaveCause, DiskFailed, Failed

(* Steps that mark a block as invalid itself. *)
LEMMA FlagsMarked ==
  ASSUME FlagsInv, NEW b \in Tree, b \in Culprits,
         failedValid' = failedValid \cup {b}, dirty' = dirty \cup {b},
         UNCHANGED <<failedChild, disk, lost, data>>
  PROVE  FlagsInv'
  <1>1. b \in Ancestors[b]
    BY AncestorsType
  <1> QED
    BY <1>1 DEF FlagsInv, FailedByCulprit, FlagsBehind, FailuresHaveCause, DiskFailed, Failed, ContextChecked

(* Steps that mark descendants of failed blocks. *)
LEMMA FlagsChild ==
  ASSUME TreeInv, FlagsInv, NEW M \in SUBSET Tree, \A m \in M : Ancestors[m] \cap Failed # {},
         failedChild' = failedChild \cup M, dirty \subseteq dirty', UNCHANGED <<failedValid, disk, lost, data>>
  PROVE  FlagsInv'
  <1>1. \A m \in M : /\ Ancestors[m] \cap Culprits # {}
                     /\ lost = "no" => Ancestors[m] \cap failedValid # {}
    BY FlagsInherited
  <1> QED
    BY <1>1 DEF FlagsInv, FailedByCulprit, FlagsBehind, FailuresHaveCause, DiskFailed, Failed, ContextChecked

(* What a write of the dirty entries puts on disk fails by a culprit, and  *)
(* has its causes there.                                                   *)
LEMMA FlagsWritten ==
  ASSUME TreeInv, FlagsInv, NEW d, NEW fc, dirty \subseteq d, d \subseteq Tree,
         \A b \in fc : /\ Ancestors[b] \cap Culprits # {}
                       /\ lost = "no" => Ancestors[b] \cap failedValid # {},
         failedChild \subseteq fc
  PROVE  LET D == IndexWritten(d, failedValid, fc)
         IN  /\ \A b \in D.failedValid \cup D.failedChild : Ancestors[b] \cap Culprits # {}
             /\ lost = "no" => /\ D.failedValid \cup D.failedChild \subseteq failedValid \cup fc
                               /\ failedValid \subseteq D.failedValid
                               /\ \A b \in D.failedValid \cup D.failedChild :
                                     Ancestors[b] \cap D.failedValid # {}
             /\ \A t : /\ [D EXCEPT !.tip = t].failedValid = D.failedValid
                       /\ [D EXCEPT !.tip = t].failedChild = D.failedChild
  <1> DEFINE D == IndexWritten(d, failedValid, fc)
  <1>1. /\ D.failedValid = (disk.failedValid \ d) \cup (failedValid \cap d)
        /\ D.failedChild = (disk.failedChild \ d) \cup (fc \cap d)
    BY IndexWrittenFields DEF TreeInv
  <1>2. \A t : /\ [D EXCEPT !.tip = t].failedValid = D.failedValid
               /\ [D EXCEPT !.tip = t].failedChild = D.failedChild
    BY DEF IndexWritten, TreeInv, BlocksTyped
  <1> HIDE DEF D
  <1>3. \A b \in D.failedValid \cup D.failedChild : Ancestors[b] \cap Culprits # {}
    BY <1>1 DEF FlagsInv, FailedByCulprit, DiskFailed, Failed
  <1>4. ASSUME lost = "no"
        PROVE  /\ D.failedValid \cup D.failedChild \subseteq failedValid \cup fc
               /\ failedValid \subseteq D.failedValid
               /\ \A b \in D.failedValid \cup D.failedChild : Ancestors[b] \cap D.failedValid # {}
    <2>1. /\ D.failedValid \cup D.failedChild \subseteq failedValid \cup fc
          /\ failedValid \subseteq D.failedValid
      BY <1>1, <1>4 DEF FlagsInv, FlagsBehind, DiskFailed, Failed
    <2>2. \A b \in failedValid \cup fc : Ancestors[b] \cap failedValid # {}
      BY <1>4 DEF FlagsInv, FailuresHaveCause, Failed
    <2> QED
      BY <2>1, <2>2
  <1> QED
    BY <1>2, <1>3, <1>4 DEF D

(* The steps that write the flags to disk, whether the flush fails or not. *)
LEMMA FlagsFlushed ==
  ASSUME TreeInv, FlagsInv, NEW d, NEW t, NEW M \in SUBSET Tree,
         \A m \in M : Ancestors[m] \cap Failed # {},
         dirty \subseteq d, d \subseteq Tree, UNCHANGED <<failedValid, data>>,
         failedChild' = failedChild \cup M, Flushed(d, failedValid, failedChild', t)
  PROVE  FlagsInv'
  <1> DEFINE D == IndexWritten(d, failedValid, failedChild')
             E == [D EXCEPT !.tip = t]
  <1>1. \A m \in M : /\ Ancestors[m] \cap Culprits # {}
                     /\ lost = "no" => Ancestors[m] \cap failedValid # {}
    BY FlagsInherited
  <1>2. \A b \in failedChild' : /\ Ancestors[b] \cap Culprits # {}
                                /\ lost = "no" => Ancestors[b] \cap failedValid # {}
    BY <1>1 DEF FlagsInv, FailedByCulprit, FailuresHaveCause, Failed
  <1>3. /\ \A b \in D.failedValid \cup D.failedChild : Ancestors[b] \cap Culprits # {}
        /\ lost = "no" => /\ D.failedValid \cup D.failedChild \subseteq failedValid \cup failedChild'
                          /\ failedValid \subseteq D.failedValid
                          /\ \A b \in D.failedValid \cup D.failedChild : Ancestors[b] \cap D.failedValid # {}
        /\ E.failedValid = D.failedValid /\ E.failedChild = D.failedChild
    BY <1>2, FlagsWritten
  <1>4. \/ disk' = disk /\ dirty' = d /\ lost' = lost
        \/ disk' \in {D, E} /\ dirty' = {} /\ lost' = lost
        \/ disk' = disk /\ dirty' = {} /\ lost' = "yes"
    BY FlushedCases
  <1> HIDE DEF D, E
  <1>5. \A b \in Failed' : Ancestors[b] \cap Culprits # {}
    BY <1>2 DEF FlagsInv, FailedByCulprit, Failed
  <1>6. \A b \in DiskFailed' : Ancestors[b] \cap Culprits # {}
    <2>1. CASE disk' = disk
      BY <2>1 DEF FlagsInv, FailedByCulprit, DiskFailed
    <2>2. CASE disk' \in {D, E}
      BY <1>3, <2>2 DEF DiskFailed
    <2> QED
      BY <1>4, <2>1, <2>2
  <1>7. ASSUME lost' = "no"
        PROVE  FlagsBehind' /\ FailuresHaveCause'
    <2>1. lost = "no"
      BY <1>4, <1>7
    <2>2. FailuresHaveCause'
      BY <1>2, <2>1 DEF FlagsInv, FailuresHaveCause, Failed
    <2>3. CASE disk' = disk /\ dirty' = d
      BY <2>1, <2>2, <2>3 DEF FlagsInv, FlagsBehind, DiskFailed, Failed
    <2>4. CASE disk' \in {D, E} /\ dirty' = {}
      <3>1. disk'.failedValid = D.failedValid /\ disk'.failedChild = D.failedChild
        BY <1>3, <2>4
      <3> QED
        BY <1>3, <2>1, <2>2, <2>4, <3>1 DEF FlagsBehind, DiskFailed, Failed
    <2> QED
      BY <1>4, <1>7, <2>3, <2>4
  <1>8. ContextChecked'
    BY DEF FlagsInv, ContextChecked
  <1> QED
    BY <1>5, <1>6, <1>7, <1>8 DEF FlagsInv, FailedByCulprit

(* Only what failed at or below the reconsidered root is cleared, and all  *)
(* of it.                                                                  *)
LEMMA ReconsideredRoot ==
  ASSUME RootsReconsidered, TreeInv, FlagsInv, NEW t \in Threads, NEW b \in Blocks,
         ReconsiderBlock(t, b) \/ ReconsiderCheckpoint(t, b)
  PROVE  \E a \in Tree : Reconsider(a) /\ Ancestors[a] \cap Failed \subseteq {a}
  <1>1. PICK a \in Reconsiderable \cup Checkpointed : Reconsider(a)
    BY DEF ReconsiderBlock, ReconsiderCheckpoint
  <1>2. a \in Tree
    BY BlockAssumption DEF Tree
  <1>3. ASSUME NEW x \in Ancestors[a], x # a, x \in Failed
        PROVE  FALSE
    <2>1. x \in Tree /\ Ancestors[x] \subseteq Ancestors[a] /\ a \notin Ancestors[x]
      BY <1>2, <1>3, AncestorsTransitive, AncestorsAcyclic
    <2> QED
      BY <1>3, <2>1 DEF RootsReconsidered, FlagsInv, FailedByCulprit
  <1> QED
    BY <1>1, <1>2, <1>3

(* ReconsiderBlock leaves no flag without its cause. *)
LEMMA FlagsReconsidered ==
  ASSUME RootsReconsidered, TreeInv, FlagsInv, NEW t \in Threads, NEW b \in Blocks,
         ReconsiderBlock(t, b) \/ ReconsiderCheckpoint(t, b)
  PROVE  FlagsInv'
  <1>1. PICK a \in Tree : Reconsider(a) /\ Ancestors[a] \cap Failed \subseteq {a}
    BY ReconsideredRoot
  <1> DEFINE below == {c \in index : (c \in Failed \/ c \notin data) /\ a \in Ancestors[c]}
             cleared == below \cup (Ancestors[a] \cap Failed)
  <1>2. /\ failedValid' = failedValid \ cleared /\ failedChild' = failedChild \ cleared
        /\ dirty' = dirty \cup cleared /\ UNCHANGED <<disk, lost, data>>
    BY <1>1 DEF Reconsider, ChildFlagsLeft, ReconsiderBlock, ReconsiderCheckpoint
  <1>3. Failed \subseteq index /\ \A c \in cleared : a \in Ancestors[c]
    BY <1>1, AncestorsType DEF TreeInv, BlocksTyped, Failed
  <1>4. ASSUME lost = "no", NEW x \in Failed'
        PROVE  Ancestors[x] \cap failedValid' # {}
    <2>1. x \in Failed /\ x \in index /\ x \in Tree /\ x \notin cleared
      BY <1>2, <1>3 DEF Failed, TreeInv, BlocksTyped
    <2>2. PICK f \in Ancestors[x] : f \in failedValid
      BY <1>4, <2>1 DEF FlagsInv, FailuresHaveCause
    <2>3. f \notin cleared
      BY <1>3, <2>1, AncestorsTransitive
    <2> QED
      BY <1>2, <2>2, <2>3
  <1> HIDE DEF cleared
  <1> QED
    BY <1>2, <1>4 DEF FlagsInv, FailedByCulprit, FlagsBehind, FailuresHaveCause, DiskFailed, Failed, ContextChecked

(* A restart takes the flags from the disk, where they have their causes   *)
(* unless a batch was ever lost.                                           *)
LEMMA FlagsLoaded ==
  ASSUME TreeInv, FlagsInv, NEW t \in Threads, CrashAndRestart(t)
  PROVE  FlagsInv'
  <1> DEFINE D == IndexWritten(dirty, failedValid, failedChild)
  <1>1. PICK d \in {disk, D} : Loadable(d) /\ LoadBlockIndexDB(t, d)
    BY CrashLoads
  <1>2. /\ \A b \in DiskFailed : Ancestors[b] \cap Culprits # {}
        /\ lost = "no" => \A b \in DiskFailed : Ancestors[b] \cap disk.failedValid # {}
    BY DEF FlagsInv, FailedByCulprit, FlagsBehind
  <1>3. /\ \A b \in D.failedValid \cup D.failedChild : Ancestors[b] \cap Culprits # {}
        /\ lost = "no" => \A b \in D.failedValid \cup D.failedChild : Ancestors[b] \cap D.failedValid # {}
    <2>1. \A b \in failedChild : /\ Ancestors[b] \cap Culprits # {}
                                 /\ lost = "no" => Ancestors[b] \cap failedValid # {}
      BY DEF FlagsInv, FailedByCulprit, FailuresHaveCause, Failed
    <2>2. dirty \subseteq Tree
      BY DEF TreeInv, BlocksTyped
    <2> QED
      BY <2>1, <2>2, FlagsWritten
  <1> HIDE DEF D
  <1>4. /\ \A b \in d.failedValid \cup d.failedChild : Ancestors[b] \cap Culprits # {}
        /\ lost = "no" => \A b \in d.failedValid \cup d.failedChild : Ancestors[b] \cap d.failedValid # {}
    BY <1>2, <1>3 DEF DiskFailed
  <1>5. /\ disk' = d /\ failedValid' = d.failedValid /\ failedChild' = d.failedChild /\ dirty' = {}
        /\ lost' = "no" => lost = "no"
    BY <1>1 DEF LoadBlockIndexDB
  <1>6. ContextChecked'
    BY <1>1 DEF LoadBlockIndexDB, Loadable, FlagsInv, ContextChecked
  <1> QED
    BY <1>4, <1>5, <1>6 DEF FlagsInv, FailedByCulprit, FlagsBehind, FailuresHaveCause, DiskFailed, Failed

-----------------------------------------------------------------------------
(* FindMostWorkChain marks only blocks above a failed one, off the active  *)
(* chain.                                                                  *)
LEMMA MarkedFacts ==
  ASSUME TreeInv, NEW c \in candidates, ~Usable(c), NEW m \in AboveFailed(c)
  PROVE  m \in Tree /\ m \notin Active /\ \E f \in Failed \ Active : f \in Ancestors[m]
  <1>1. c \in Tree /\ tip \in Tree
    BY DEF TreeInv, BlocksTyped
  <1>2. /\ m \in Ancestors[c] /\ m \notin Active
        /\ (Ancestors[c] \ Ancestors[Parent[m]]) \cap Failed = {}
    BY DEF AboveFailed, Path
  <1>3. m \in Blocks
    BY <1>1, <1>2, AncestorsType, AncestorsGenesis DEF Active, Tree
  <1>4. PICK f \in Failed : f \in Ancestors[c] /\ f \notin Active
    BY DEF Usable, Path
  <1>5. f \in Ancestors[m]
    BY <1>2, <1>3, <1>4, AncestorsParent
  <1> QED
    BY <1>2, <1>3, <1>4, <1>5 DEF Tree

(* What FindMostWorkChain does: candidates that can be reached stay, the   *)
(* others go or are worse than one that can; the block it returns is the   *)
(* best that can be reached.                                               *)
LEMMA FindMostWorkFacts ==
  ASSUME TreeInv, NEW t \in Threads, FindMostWorkChain(t)
  PROVE  \E M \in SUBSET Tree :
           /\ failedChild' = failedChild \cup M /\ M \cap Active = {}
           /\ \A m \in M : Ancestors[m] \cap Failed # {}
           /\ candidates' \subseteq candidates
           /\ candidates \ candidates' \subseteq Failed \cup M
           /\ \A b \in Tree : Usable(b) => /\ Ancestors[b] \cap M = {}
                                           /\ b \in candidates => b \in candidates'
           /\ \/ /\ \A c \in candidates' : c = tip \/ Worse(c, tip)
                 /\ Release(t, "idle") /\ gaveUp' = gaveUp \ {"step"}
              \/ \E b \in candidates' \ {tip} :
                    /\ Usable(b) /\ \A c \in candidates' : ~Worse(b, c)
                    /\ lock' = t /\ pc' = [pc EXCEPT ![t] = "step"]
                    /\ goal' = [goal EXCEPT ![t] = b] /\ gaveUp' = gaveUp
  <1> DEFINE M == UNION {AboveFailed(c) : c \in Skipped}
             L == UNION {{b \in Path(c) \cap Failed :
                             (Ancestors[c] \ Ancestors[b]) \cap Failed = {}} : c \in Skipped}
             left == candidates \ (M \cup L)
             best == {c \in left : \A d \in left : ~Worse(c, d)}
  <1>1. /\ failedChild' = failedChild \cup M /\ candidates' = left
        /\ \/ best \subseteq {tip} /\ Release(t, "idle") /\ gaveUp' = gaveUp \ {"step"}
           \/ \E b \in best \ {tip} :
                 /\ lock' = t /\ pc' = [pc EXCEPT ![t] = "step"]
                 /\ goal' = [goal EXCEPT ![t] = b] /\ gaveUp' = gaveUp
    BY DEF FindMostWorkChain
  <1>2. \A c \in Skipped : c \in candidates /\ ~Usable(c)
    BY DEF Skipped
  <1>3. \A m \in M : m \in Tree /\ m \notin Active /\ \E f \in Failed \ Active : f \in Ancestors[m]
    <2>1. ASSUME NEW c \in Skipped, NEW m \in AboveFailed(c)
          PROVE  m \in Tree /\ m \notin Active /\ \E f \in Failed \ Active : f \in Ancestors[m]
      BY <1>2, MarkedFacts
    <2> QED
      BY <2>1
  <1>4. L \subseteq Failed \ Active
    BY DEF Path
  <1>5. ASSUME NEW c \in Skipped
        PROVE  c \in M \cup L
    <2>1. c \in candidates /\ c \in Tree /\ tip \in Tree /\ Path(c) \cap Failed # {}
      BY <1>2 DEF TreeInv, BlocksTyped, Usable
    <2>2. c \in Path(c)
      BY <2>1, AncestorsType, AncestorsTransitive DEF Path, Active
    <2>3. CASE c \in Failed
      BY <2>2, <2>3
    <2>4. CASE c \notin Failed
      <3>1. c \in Blocks
        BY <2>1, <2>2, AncestorsGenesis DEF Path, Active, Tree
      <3>2. Ancestors[c] \ Ancestors[Parent[c]] = {c}
        BY <3>1, AncestorsParent
      <3>3. c \in AboveFailed(c)
        BY <2>2, <2>4, <3>2 DEF AboveFailed
      <3> QED
        BY <3>3
    <2> QED
      BY <2>3, <2>4
  <1> HIDE DEF M, L
  <1>6. ASSUME NEW b \in Tree, Usable(b)
        PROVE  Ancestors[b] \cap M = {} /\ b \notin M \cup L
    <2>1. (Ancestors[b] \ Active) \cap Failed = {}
      BY <1>6 DEF Usable, Path
    <2>2. b \in Ancestors[b]
      BY AncestorsType
    <2>3. Ancestors[b] \cap M = {}
      BY <1>3, <2>1, AncestorsTransitive
    <2> QED
      BY <1>4, <2>1, <2>2, <2>3
  <1>7. ASSUME NEW c \in left, ~Usable(c)
        PROVE  \E d \in left : Worse(c, d)
    <2>1. c \in candidates /\ c \notin Skipped
      BY <1>5
    <2>2. PICK d \in candidates : Usable(d) /\ ~Worse(d, c)
      BY <1>7, <2>1 DEF Skipped
    <2>3. d \in left
      BY <1>6, <2>2 DEF TreeInv, BlocksTyped
    <2>4. c # d
      BY <1>7, <2>2
    <2> QED
      BY <2>1, <2>2, <2>3, <2>4, WorseOrder DEF TreeInv, BlocksTyped, Worse
  <1>8. left \subseteq Tree /\ nSequenceId \in [Tree -> Nat] /\ tip \in Tree
    BY DEF TreeInv, BlocksTyped
  <1>9. ASSUME best \subseteq {tip}, NEW c \in left
        PROVE  c = tip \/ Worse(c, tip)
    <2>1. left \in SUBSET Tree /\ left # {}
      BY <1>8
    <2> HIDE DEF left
    <2>2. \E b \in left : \A d \in left : ~WorseWith(nSequenceId, b, d)
      BY <1>8, <2>1, BestExists
    <2>3. tip \in left /\ \A d \in left : ~WorseWith(nSequenceId, tip, d)
      BY <1>9, <2>2 DEF Worse
    <2> QED
      BY <1>8, <2>3, WorseOrder DEF Worse
  <1>10. ASSUME NEW b \in best
         PROVE  Usable(b)
    BY <1>7
  <1>11. /\ candidates' \subseteq candidates /\ candidates \ candidates' \subseteq Failed \cup M
         /\ \A b \in Tree : Usable(b) => /\ Ancestors[b] \cap M = {}
                                         /\ b \in candidates => b \in candidates'
    BY <1>1, <1>4, <1>6
  <1>12. \/ /\ \A c \in candidates' : c = tip \/ Worse(c, tip)
            /\ Release(t, "idle") /\ gaveUp' = gaveUp \ {"step"}
         \/ \E b \in candidates' \ {tip} :
               /\ Usable(b) /\ \A c \in candidates' : ~Worse(b, c)
               /\ lock' = t /\ pc' = [pc EXCEPT ![t] = "step"]
               /\ goal' = [goal EXCEPT ![t] = b] /\ gaveUp' = gaveUp
    BY <1>1, <1>9, <1>10
  <1>13. M \in SUBSET Tree /\ M \cap Active = {} /\ \A m \in M : Ancestors[m] \cap Failed # {}
    BY <1>3
  <1> QED
    BY <1>1, <1>11, <1>12, <1>13

(* A thread in InvalidateBlock has its block among the failed ones. *)
LEMMA InvalidatingFacts ==
  ASSUME TreeInv, NEW t \in Threads, pc[t] = "invalidate"
  PROVE  goal[t] \in Invalidatable /\ goal[t] \in failedValid /\ goal[t] \in Tree /\ lock = t
  BY DEF TreeInv, LockExact, BlocksTyped

(* FlagsInv is kept by every step. *)
LEMMA FlagsNext ==
  ASSUME RootsReconsidered, TreeInv, FlagsInv, [Next]_vars
  PROVE  FlagsInv'
  <1>1. ASSUME NEW t \in Threads,
               \/ ActivateBestChain(t) \/ StepFails(t) \/ StepFlushFails(t)
               \/ InvalidateLoop(t) \/ CrashAndRestart(t)
        PROVE  FlagsInv'
    <2>1. CASE FindMostWorkChain(t)
      BY <2>1, FindMostWorkFacts, FlagsChild DEF FindMostWorkChain
    <2>2. CASE DisconnectTip(t)
      <3>1. /\ Flushed(dirty, failedValid, failedChild', Parent[tip]) /\ UNCHANGED <<failedValid, data>>
            /\ failedChild' = failedChild \cup {} /\ dirty \subseteq Tree
        BY <2>2 DEF DisconnectTip, FlushIfDue, Flushed, treeVars, TreeInv, BlocksTyped
      <3> QED
        BY <3>1, FlagsFlushed
    <2>3. CASE ConnectTip(t)
      <3>1. /\ Flushed(dirty \cup {NextBlock(t)}, failedValid, failedChild', NextBlock(t))
            /\ UNCHANGED <<failedValid, data>> /\ failedChild' = failedChild \cup {}
        BY <2>3 DEF ConnectTip, Flushed, treeVars
      <3>2. dirty \subseteq dirty \cup {NextBlock(t)} /\ dirty \cup {NextBlock(t)} \subseteq Tree
        BY <2>3, NextBlockFacts DEF ConnectTip, TreeInv, BlocksTyped, Tree
      <3> QED
        BY <3>1, <3>2, FlagsFlushed
    <2>4. CASE ConnectInvalid(t)
      <3>1. /\ NextBlock(t) \in BadConnect /\ UNCHANGED <<failedChild, disk, lost, data>>
            /\ failedValid' = failedValid \cup {NextBlock(t)} /\ dirty' = dirty \cup {NextBlock(t)}
        BY <2>4 DEF ConnectInvalid, InvalidBlockFound
      <3> QED
        BY <3>1, BlockAssumption, FlagsMarked DEF Culprits, Tree
    <2>5. CASE TestLoop(t) \/ StepFails(t) \/ EndInvalidate(t)
      <3>1. /\ UNCHANGED <<failedValid, failedChild, disk, lost, data>> /\ dirty \subseteq dirty'
        BY <2>5 DEF TestLoop, StepFails, EndInvalidate, treeVars
      <3> QED
        BY <3>1, FlagsSame DEF FlagsInv, ContextChecked
    <2>6. CASE InvalidateTip(t) \/ InvalidateFails(t)
      <3>1. /\ pc[t] = "invalidate" /\ goal[t] \in Active /\ failedChild' = failedChild \cup {tip}
            /\ UNCHANGED <<failedValid, data>>
        BY <2>6 DEF InvalidateTip, InvalidateFails
      <3>2. {tip} \in SUBSET Tree /\ \A m \in {tip} : Ancestors[m] \cap Failed # {}
        BY <3>1, InvalidatingFacts DEF TreeInv, BlocksTyped, Active, Failed
      <3>3. CASE InvalidateTip(t)
        <4>1. /\ Flushed(dirty \cup {tip}, failedValid, failedChild', Parent[tip])
              /\ dirty \subseteq dirty \cup {tip} /\ dirty \cup {tip} \subseteq Tree
          BY <3>3 DEF InvalidateTip, FlushIfDue, Flushed, TreeInv, BlocksTyped
        <4> QED
          BY <3>1, <3>2, <4>1, FlagsFlushed
      <3>4. CASE InvalidateFails(t)
        <4>1. CASE dirty' = dirty \cup {tip} /\ UNCHANGED <<disk, lost>>
          BY <3>1, <3>2, <4>1, FlagsChild
        <4>2. CASE FlushFails(dirty \cup {tip}, failedValid, failedChild', "write")
          <5>1. /\ Flushed(dirty \cup {tip}, failedValid, failedChild', Parent[tip])
                /\ dirty \subseteq dirty \cup {tip} /\ dirty \cup {tip} \subseteq Tree
            BY <4>2 DEF Flushed, TreeInv, BlocksTyped
          <5> QED
            BY <3>1, <3>2, <5>1, FlagsFlushed
        <4> QED
          BY <3>4, <4>1, <4>2 DEF InvalidateFails
      <3> QED
        BY <2>6, <3>3, <3>4
    <2>7. CASE CrashAndRestart(t)
      BY <2>7, FlagsLoaded
    <2>8. CASE StepFlushFails(t)
      <3>1. UNCHANGED <<failedValid, data>> /\ failedChild' = failedChild \cup {} /\ InStep(t)
        BY <2>8 DEF StepFlushFails, treeVars
      <3>2. CASE ~AtFork(t)
        <4>1. Flushed(dirty, failedValid, failedChild', Parent[tip]) /\ dirty \subseteq Tree
          BY <2>8, <3>1, <3>2 DEF StepFlushFails, Flushed, TreeInv, BlocksTyped
        <4> QED
          BY <3>1, <4>1, FlagsFlushed
      <3>3. CASE AtFork(t)
        <4>1. Flushed(dirty \cup {NextBlock(t)}, failedValid, failedChild', NextBlock(t))
          BY <2>8, <3>1, <3>3 DEF StepFlushFails, Flushed
        <4>2. dirty \subseteq dirty \cup {NextBlock(t)} /\ dirty \cup {NextBlock(t)} \subseteq Tree
          BY <3>1, <3>3, NextBlockFacts DEF TreeInv, BlocksTyped, Tree
        <4> QED
          BY <3>1, <4>1, <4>2, FlagsFlushed
      <3> QED
        BY <3>2, <3>3
    <2> QED
      BY <1>1, <2>1, <2>2, <2>3, <2>4, <2>5, <2>6, <2>7, <2>8 DEF ActivateBestChain, InvalidateLoop
  <1>2. ASSUME NEW t \in Threads, NEW b \in Blocks,
               \/ AcceptDuplicate(t, b) \/ AcceptInvalid(t, b) \/ AcceptRejected(t, b) \/ AcceptStored(t, b)
               \/ BeginInvalidate(t, b) \/ ReconsiderBlock(t, b) \/ ReconsiderCheckpoint(t, b)
        PROVE  FlagsInv'
    <2>1. CASE AcceptDuplicate(t, b)
      BY <2>1, FlagsSame DEF AcceptDuplicate, treeVars, FlagsInv, ContextChecked
    <2>2. CASE AcceptRejected(t, b) \/ AcceptStored(t, b)
      <3>1. UNCHANGED <<failedValid, failedChild, disk, lost>> /\ dirty \subseteq dirty'
        BY <2>2 DEF AcceptRejected, AcceptStored
      <3>2. ContextChecked'
        BY <2>2 DEF AcceptRejected, AcceptStored, FlagsInv, ContextChecked
      <3> QED
        BY <3>1, <3>2, FlagsSame
    <2>3. CASE AcceptInvalid(t, b) \/ BeginInvalidate(t, b)
      <3>1. /\ b \in Culprits /\ b \in Tree /\ failedValid' = failedValid \cup {b}
            /\ dirty' = dirty \cup {b} /\ UNCHANGED <<failedChild, disk, lost, data>>
        BY <2>3 DEF AcceptInvalid, BeginInvalidate, Culprits, Tree
      <3> QED
        BY <3>1, FlagsMarked
    <2>4. CASE ReconsiderBlock(t, b) \/ ReconsiderCheckpoint(t, b)
      BY <2>4, FlagsReconsidered
    <2> QED
      BY <1>2, <2>1, <2>2, <2>3, <2>4
  <1>3. CASE PeriodicFlush \/ PeriodicFlushFails
    <2>1. /\ Flushed(dirty, failedValid, failedChild', coinsBest) /\ UNCHANGED <<failedValid, data>>
          /\ failedChild' = failedChild \cup {} /\ dirty \subseteq Tree
      BY <1>3 DEF PeriodicFlush, PeriodicFlushFails, Flushed, treeVars, TreeInv, BlocksTyped
    <2> QED
      BY <2>1, FlagsFlushed
  <1>4. CASE UNCHANGED vars
    BY <1>4, FlagsSame DEF vars, treeVars, FlagsInv, ContextChecked
  <1> QED
    BY <1>1, <1>2, <1>3, <1>4 DEF Next

-----------------------------------------------------------------------------
(* The active chain has not failed.  First, steps of a thread that does    *)
(* not hold cs_main afterwards, while nobody else does.                    *)
LEMMA ActiveKept ==
  ASSUME TreeInv, ActiveNotFailed, tip' = tip,
         "invalidate" \in gaveUp <=> "invalidate" \in gaveUp',
         "invalidate" \notin gaveUp => Active \cap Failed = {},
         Active \cap Failed' \subseteq Failed,
         \A u \in Threads : pc'[u] \notin {"step", "invalidate"}
  PROVE  ActiveNotFailed'
  BY DEF ActiveNotFailed, Active

(* Nobody else holds cs_main when it is free or held by t. *)
LEMMA NoOther ==
  ASSUME TreeInv, NEW t \in Threads, lock \in {None, t}
  PROVE  \A u \in Threads : u # t => pc[u] \notin {"step", "invalidate"}
  BY TreeAssumption DEF TreeInv, LockExact

(* The active chain has its data. *)
LEMMA ActiveHasData ==
  ASSUME TreeInv
  PROVE  Active \subseteq data
  BY DEF TreeInv, TipLinked, LinkedExact, Active

(* FindMostWorkChain marks nothing on the active chain nor on that of its  *)
(* goal.                                                                   *)
LEMMA FindMostWorkActive ==
  ASSUME TreeInv, ActiveNotFailed, NEW t \in Threads, FindMostWorkChain(t)
  PROVE  ActiveNotFailed'
  <1>1. lock = None /\ UNCHANGED <<failedValid, tip>> /\ Active' = Active
    BY DEF FindMostWorkChain, Active
  <1>2. PICK M \in SUBSET Tree :
           /\ failedChild' = failedChild \cup M /\ M \cap Active = {}
           /\ \A b \in Tree : Usable(b) => Ancestors[b] \cap M = {}
           /\ \/ Release(t, "idle") /\ gaveUp' = gaveUp \ {"step"}
              \/ \E b \in candidates' \ {tip} :
                    /\ Usable(b) /\ b \in candidates
                    /\ lock' = t /\ pc' = [pc EXCEPT ![t] = "step"]
                    /\ goal' = [goal EXCEPT ![t] = b] /\ gaveUp' = gaveUp
    BY FindMostWorkFacts
  <1>3. Failed' = Failed \cup M /\ Active \cap Failed' \subseteq Failed
    BY <1>1, <1>2 DEF Failed
  <1>4. "invalidate" \notin gaveUp => Active \cap Failed = {}
    BY <1>1 DEF ActiveNotFailed
  <1>5. \A u \in Threads : u # t => pc[u] \notin {"step", "invalidate"}
    BY <1>1, NoOther
  <1>6. CASE Release(t, "idle") /\ gaveUp' = gaveUp \ {"step"}
    <2>1. \A u \in Threads : pc'[u] \notin {"step", "invalidate"}
      BY <1>5, <1>6 DEF Release, TreeInv, ThreadsTyped
    <2> QED
      BY <1>1, <1>3, <1>4, <1>6, <2>1, ActiveKept
  <1>7. ASSUME NEW b \in candidates, Usable(b), lock' = t, pc' = [pc EXCEPT ![t] = "step"],
               goal' = [goal EXCEPT ![t] = b], gaveUp' = gaveUp
        PROVE  ActiveNotFailed'
    <2>1. b \in Tree
      BY DEF TreeInv, BlocksTyped
    <2>2. "invalidate" \notin gaveUp => (Active \cup Ancestors[b]) \cap Failed' = {}
      BY <1>2, <1>3, <1>4, <1>7, <2>1 DEF Usable, Path
    <2>3. pc'[t] = "step" /\ goal'[t] = b /\ \A u \in Threads : u # t => pc'[u] \notin {"step", "invalidate"}
      BY <1>5, <1>7 DEF TreeInv, ThreadsTyped
    <2>4. t # None
      BY TreeAssumption
    <2> QED
      BY <1>1, <1>7, <2>2, <2>3, <2>4 DEF ActiveNotFailed
  <1> QED
    BY <1>2, <1>6, <1>7

(* A shorter chain has not failed if the longer has not. *)
LEMMA DisconnectActive ==
  ASSUME TreeInv, ActiveNotFailed, NEW t \in Threads, DisconnectTip(t)
  PROVE  ActiveNotFailed'
  <1>1. /\ tip' = Parent[tip] /\ UNCHANGED <<failedValid, failedChild, lock, pc, goal, gaveUp>>
        /\ pc[t] = "step" /\ lock = t /\ tip \notin Ancestors[goal[t]]
    BY DEF DisconnectTip, treeVars, threadVars, InStep, AtFork
  <1>2. tip # Genesis
    BY <1>1, TipNotGenesis
  <1>3. Active = {tip} \cup Ancestors[Parent[tip]] /\ Active' = Ancestors[Parent[tip]]
    BY <1>1, <1>2, TipParent DEF Active
  <1> QED
    BY <1>1, <1>3 DEF ActiveNotFailed, Failed

(* ConnectTip extends the chain by a block of its goal's, which has not    *)
(* failed.                                                                 *)
LEMMA ConnectActive ==
  ASSUME TreeInv, ActiveNotFailed, NEW t \in Threads, ConnectTip(t)
  PROVE  ActiveNotFailed'
  <1> DEFINE n == NextBlock(t)
  <1>1. /\ n \in Ancestors[goal[t]] /\ n \in Blocks \cap linked /\ Ancestors[n] = {n} \cup Active
    BY NextBlockFacts DEF ConnectTip
  <1>2. /\ tip' = n
        /\ \/ lock' = None /\ pc' = [pc EXCEPT ![t] = "test"]
           \/ UNCHANGED <<lock, pc>>
        /\ UNCHANGED <<failedValid, failedChild, goal, gaveUp>>
        /\ lock = t /\ pc[t] = "step"
    BY DEF ConnectTip, InStep, treeVars
  <1> HIDE DEF n
  <1>3. Active' = {n} \cup Active
    BY <1>1, <1>2 DEF Active
  <1>4. "invalidate" \notin gaveUp => (Active' \cup Ancestors[goal[t]]) \cap Failed = {}
    BY <1>1, <1>2, <1>3 DEF ActiveNotFailed
  <1>5. \A u \in Threads : u # t => pc[u] \notin {"step", "invalidate"}
    BY <1>2, NoOther
  <1> QED
    BY <1>2, <1>4, <1>5, TreeAssumption DEF ActiveNotFailed, Failed, TreeInv, ThreadsTyped

(* The block that does not connect is not on the active chain. *)
LEMMA StepEndsActive ==
  ASSUME TreeInv, ActiveNotFailed, NEW t \in Threads,
         ConnectInvalid(t) \/ StepFails(t) \/ StepFlushFails(t)
  PROVE  ActiveNotFailed'
  <1>1. /\ tip' = tip /\ pc[t] = "step" /\ lock = t
        /\ "invalidate" \in gaveUp <=> "invalidate" \in gaveUp'
        /\ \E l \in {"test", "idle"} : pc' = [pc EXCEPT ![t] = l]
    BY DEF ConnectInvalid, StepFails, StepFlushFails, InStep, Release
  <1>2. Active \cap Failed' \subseteq Failed
    <2>1. CASE ConnectInvalid(t)
      BY <2>1, NextBlockFacts DEF ConnectInvalid, InvalidBlockFound, Failed
    <2>2. CASE StepFails(t) \/ StepFlushFails(t)
      BY <2>2 DEF StepFails, StepFlushFails, treeVars, Failed
    <2> QED
      BY <2>1, <2>2
  <1>3. \A u \in Threads : pc'[u] \notin {"step", "invalidate"}
    BY <1>1, NoOther DEF TreeInv, ThreadsTyped
  <1>4. "invalidate" \notin gaveUp => Active \cap Failed = {}
    BY <1>1 DEF ActiveNotFailed
  <1> QED
    BY <1>1, <1>2, <1>3, <1>4, ActiveKept

(* The test of the loop changes no chain. *)
LEMMA TestLoopActive ==
  ASSUME TreeInv, ActiveNotFailed, NEW t \in Threads, TestLoop(t)
  PROVE  ActiveNotFailed'
  <1>1. /\ UNCHANGED <<failedValid, failedChild, tip, lock, gaveUp>> /\ pc[t] = "test"
        /\ \A u \in Threads : \/ pc'[u] = pc[u] /\ goal'[u] = goal[u]
                              \/ pc'[u] \notin {"step", "invalidate"}
    BY DEF TestLoop, treeVars, TreeInv, ThreadsTyped
  <1> QED
    BY <1>1 DEF ActiveNotFailed, Active, Failed

(* When InvalidateBlock ends, no failed block is left on the active chain. *)
LEMMA InvalidateActive ==
  ASSUME TreeInv, ActiveNotFailed, NEW t \in Threads, InvalidateLoop(t)
  PROVE  ActiveNotFailed' /\ NoneCutShort'
  <1>1. pc[t] = "invalidate"
    BY DEF InvalidateLoop, InvalidateTip, InvalidateFails, EndInvalidate
  <1>2. goal[t] \in Invalidatable /\ goal[t] \in Tree /\ lock = t
    BY <1>1, InvalidatingFacts
  <1>3. NoneCutShort'
    BY <1>2 DEF NoneCutShort
  <1>4. \A u \in Threads : u # t => pc[u] \notin {"step", "invalidate"}
    BY <1>2, NoOther
  <1>5. CASE InvalidateTip(t)
    <2>1. /\ goal[t] \in Active /\ tip' = Parent[tip] /\ failedValid' = failedValid
          /\ failedChild' = failedChild \cup {tip} /\ UNCHANGED <<lock, pc, goal, gaveUp>>
      BY <1>5 DEF InvalidateTip, threadVars
    <2>2. tip # Genesis
      BY <1>1, <2>1, TipNotGenesis
    <2>3. Active' \subseteq Active \ {tip}
      BY <2>1, <2>2, TipParent DEF Active
    <2>4. t # None
      BY TreeAssumption
    <2> QED
      BY <1>1, <1>2, <1>3, <1>4, <2>1, <2>3, <2>4 DEF ActiveNotFailed, Failed
  <1>6. CASE InvalidateFails(t)
    BY <1>3, <1>6 DEF InvalidateFails, ActiveNotFailed
  <1>7. CASE EndInvalidate(t)
    <2>1. /\ goal[t] \notin Active /\ UNCHANGED <<failedValid, failedChild, tip, gaveUp>>
          /\ lock' = None /\ pc' = [pc EXCEPT ![t] = "activate"]
      BY <1>7 DEF EndInvalidate, treeVars, Release
    <2>2. "invalidate" \notin gaveUp => Active \cap Failed = {}
      <3>1. ASSUME NEW b \in Active, goal[t] \in Ancestors[b]
            PROVE  FALSE
        BY <2>1, <3>1, AncestorsTransitive DEF Active, TreeInv, BlocksTyped
      <3> QED
        BY <1>1, <3>1 DEF ActiveNotFailed
    <2>3. \A u \in Threads : pc'[u] \notin {"step", "invalidate"}
      BY <1>4, <2>1 DEF TreeInv, ThreadsTyped
    <2> QED
      BY <1>3, <2>1, <2>2, <2>3 DEF ActiveNotFailed, Active, Failed
  <1> QED
    BY <1>5, <1>6, <1>7 DEF InvalidateLoop

(* InvalidateBlock begins: what fails on the active chain is its block. *)
LEMMA BeginInvalidateActive ==
  ASSUME TreeInv, ActiveNotFailed, NEW t \in Threads, NEW b \in Blocks, BeginInvalidate(t, b)
  PROVE  ActiveNotFailed'
  <1>1. /\ UNCHANGED <<failedChild, tip, gaveUp>> /\ failedValid' = failedValid \cup {b}
        /\ b \in Invalidatable /\ lock = None /\ lock' = t
        /\ pc' = [pc EXCEPT ![t] = "invalidate"] /\ goal' = [goal EXCEPT ![t] = b]
    BY DEF BeginInvalidate
  <1>2. /\ \A u \in Threads : u # t => pc'[u] \notin {"step", "invalidate"}
        /\ pc'[t] = "invalidate" /\ goal'[t] = b /\ t # None
    BY <1>1, NoOther, TreeAssumption DEF TreeInv, ThreadsTyped
  <1>3. b \in Ancestors[b]
    BY AncestorsType DEF Tree
  <1>4. "invalidate" \notin gaveUp => \A c \in Active' \cap Failed' : b \in Ancestors[c]
    BY <1>1, <1>3 DEF ActiveNotFailed, Active, Failed
  <1> QED
    BY <1>1, <1>2, <1>4 DEF ActiveNotFailed

(* A block that arrives, or is reconsidered, does not fail the active      *)
(* chain.                                                                  *)
LEMMA AcceptActive ==
  ASSUME TreeInv, ActiveNotFailed, NEW t \in Threads, NEW b \in Blocks,
         \/ AcceptDuplicate(t, b) \/ AcceptInvalid(t, b) \/ AcceptRejected(t, b) \/ AcceptStored(t, b)
         \/ ReconsiderBlock(t, b) \/ ReconsiderCheckpoint(t, b)
  PROVE  ActiveNotFailed'
  <1>1. /\ lock = None /\ UNCHANGED <<tip, gaveUp>>
        /\ pc' = pc \/ pc' = [pc EXCEPT ![t] = "activate"]
    <2>1. CASE AcceptDuplicate(t, b) \/ AcceptInvalid(t, b) \/ AcceptRejected(t, b) \/ AcceptStored(t, b)
      BY <2>1 DEF AcceptDuplicate, AcceptInvalid, AcceptRejected, AcceptStored, MayAccept, threadVars
    <2>2. CASE ReconsiderBlock(t, b) \/ ReconsiderCheckpoint(t, b)
      BY <2>2 DEF ReconsiderBlock, ReconsiderCheckpoint
    <2> QED
      BY <2>1, <2>2
  <1>2. Active \cap Failed' \subseteq Failed
    <2>1. CASE AcceptDuplicate(t, b) \/ AcceptRejected(t, b) \/ AcceptStored(t, b)
      BY <2>1 DEF AcceptDuplicate, AcceptRejected, AcceptStored, Failed, treeVars
    <2>2. CASE AcceptInvalid(t, b)
      BY <2>2, ActiveHasData DEF AcceptInvalid, Failed
    <2>3. CASE ReconsiderBlock(t, b) \/ ReconsiderCheckpoint(t, b)
      <3>1. \E a : Reconsider(a)
        BY <2>3 DEF ReconsiderBlock, ReconsiderCheckpoint
      <3> QED
        BY <3>1 DEF Reconsider, ChildFlagsLeft, Failed
    <2> QED
      BY <2>1, <2>2, <2>3
  <1>3. \A u \in Threads : pc'[u] \notin {"step", "invalidate"}
    <2>1. \A u \in Threads : u # None /\ pc[u] \notin {"step", "invalidate"}
      BY <1>1, TreeAssumption DEF TreeInv, LockExact
    <2> QED
      BY <1>1, <2>1 DEF TreeInv, ThreadsTyped
  <1>4. "invalidate" \notin gaveUp => Active \cap Failed = {}
    BY <1>1 DEF ActiveNotFailed
  <1> QED
    BY <1>1, <1>2, <1>3, <1>4, ActiveKept

(* A restart, where no block is invalidated: what has failed descends from *)
(* a block that never has data or never connects, and so is not on a chain *)
(* whose coins are on disk.                                                *)
LEMMA CrashActive ==
  ASSUME NoCrashWhileInvalidating, TreeInv, TreeInv', FlagsInv', NEW t \in Threads, CrashAndRestart(t)
  PROVE  ActiveNotFailed'
  <1>1. Invalidatable = {}
    BY BoundAssumption DEF CrashAndRestart, NoCrashWhileInvalidating, TreeInv, ThreadsTyped
  <1>2. tip' \in Tree /\ Active' = Ancestors[tip'] /\ Active' \subseteq data' /\ Active' \cap BadConnect = {}
    BY DEF TreeInv, BlocksTyped, TipLinked, LinkedExact, NoBadConnected, Active
  <1>3. ASSUME NEW b \in Active', b \in Failed'
        PROVE  FALSE
    <2>1. PICK c \in Ancestors[b] : c \in Culprits
      BY <1>3 DEF FlagsInv, FailedByCulprit
    <2>2. c \in Active'
      BY <1>2, <1>3, <2>1, AncestorsTransitive
    <2> QED
      BY <1>1, <1>2, <2>1, <2>2 DEF Culprits, FlagsInv, ContextChecked
  <1>4. \A u \in Threads : pc'[u] \notin {"step", "invalidate"}
    BY DEF CrashAndRestart, LoadBlockIndexDB
  <1> QED
    BY <1>3, <1>4 DEF ActiveNotFailed

(* ActiveNotFailed is kept by every step. *)
LEMMA ActiveNext ==
  ASSUME NoCrashWhileInvalidating, TreeInv, TreeInv', FlagsInv', ActiveNotFailed, [Next]_vars
  PROVE  ActiveNotFailed'
  <1>1. ASSUME NEW t \in Threads,
               \/ ActivateBestChain(t) \/ StepFails(t) \/ StepFlushFails(t)
               \/ InvalidateLoop(t) \/ CrashAndRestart(t)
        PROVE  ActiveNotFailed'
    BY <1>1, FindMostWorkActive, DisconnectActive, ConnectActive, StepEndsActive, TestLoopActive,
       InvalidateActive, CrashActive DEF ActivateBestChain
  <1>2. ASSUME NEW t \in Threads, NEW b \in Blocks,
               \/ AcceptDuplicate(t, b) \/ AcceptInvalid(t, b) \/ AcceptRejected(t, b) \/ AcceptStored(t, b)
               \/ BeginInvalidate(t, b) \/ ReconsiderBlock(t, b) \/ ReconsiderCheckpoint(t, b)
        PROVE  ActiveNotFailed'
    BY <1>2, AcceptActive, BeginInvalidateActive
  <1>3. CASE PeriodicFlush \/ PeriodicFlushFails \/ UNCHANGED vars
    <2>1. UNCHANGED <<failedValid, failedChild, tip, lock, pc, goal, gaveUp>>
      BY <1>3 DEF PeriodicFlush, PeriodicFlushFails, vars, treeVars, threadVars
    <2> QED
      BY <2>1 DEF ActiveNotFailed, Active, Failed
  <1> QED
    BY <1>1, <1>2, <1>3 DEF Next

(* NoneCutShort is kept by every step: only InvalidateBlock is cut short. *)
LEMMA CutShortNext ==
  ASSUME TreeInv, ActiveNotFailed, NoneCutShort, [Next]_vars
  PROVE  NoneCutShort'
  <1>1. ASSUME NEW t \in Threads, InvalidateLoop(t)
        PROVE  NoneCutShort'
    BY <1>1, InvalidateActive
  <1>2. ASSUME NEW t \in Threads,
               ActivateBestChain(t) \/ StepFails(t) \/ StepFlushFails(t) \/ CrashAndRestart(t)
        PROVE  "invalidate" \in gaveUp' => "invalidate" \in gaveUp
    BY <1>2 DEF ActivateBestChain, FindMostWorkChain, DisconnectTip, ConnectTip, ConnectInvalid, TestLoop,
                StepFails, StepFlushFails, CrashAndRestart, LoadBlockIndexDB
  <1>3. ASSUME NEW t \in Threads, NEW b \in Blocks,
               \/ AcceptDuplicate(t, b) \/ AcceptInvalid(t, b) \/ AcceptRejected(t, b) \/ AcceptStored(t, b)
               \/ BeginInvalidate(t, b) \/ ReconsiderBlock(t, b) \/ ReconsiderCheckpoint(t, b)
        PROVE  gaveUp' = gaveUp
    BY <1>3 DEF AcceptDuplicate, AcceptInvalid, AcceptRejected, AcceptStored, BeginInvalidate,
                ReconsiderBlock, ReconsiderCheckpoint
  <1>4. CASE PeriodicFlush \/ PeriodicFlushFails \/ UNCHANGED vars
    BY <1>4 DEF PeriodicFlush, PeriodicFlushFails, vars, NoneCutShort
  <1> QED
    BY <1>1, <1>2, <1>3, <1>4 DEF Next, NoneCutShort

-----------------------------------------------------------------------------
(* No better chain is forgotten.  Steps that drop no candidate but failed  *)
(* ones.                                                                   *)
LEMMA BoundsKept ==
  ASSUME TreeInv, NEW m \in linked, Bounds(m), UNCHANGED <<linked, nSequenceId>>,
         Failed \subseteq Failed', candidates \ candidates' \subseteq Failed',
         Ancestors[m] \cap Failed' = {}
  PROVE  Bounds(m)'
  <1>1. m \in Ancestors[m]
    BY AncestorsType DEF TreeInv, BlocksTyped
  <1> QED
    BY <1>1 DEF Bounds, Worse, WorseWith

(* The order of the comparator when b is not worse than c. *)
LEMMA NotWorse ==
  ASSUME NEW seq \in [Tree -> Nat], NEW b \in Tree, NEW c \in Tree, ~WorseWith(seq, b, c)
  PROVE  b = c \/ WorseWith(seq, c, b)
  BY WorseOrder

(* ActivateBestChain prunes only what is worse than the tip it has         *)
(* connected.                                                              *)
LEMMA ForgottenActivate ==
  ASSUME TreeInv, ActiveNotFailed, NoneForgotten, NEW t \in Threads,
         ActivateBestChain(t) \/ StepFails(t) \/ StepFlushFails(t)
  PROVE  NoneForgotten'
  <1> SUFFICES ASSUME "invalidate" \notin gaveUp', ~Invalidating'
               PROVE  \E m \in linked' : Bounds(m)'
    BY DEF NoneForgotten
  <1>1. /\ UNCHANGED <<linked, nSequenceId>>
        /\ "invalidate" \in gaveUp <=> "invalidate" \in gaveUp'
        /\ \A u \in Threads : u # t => pc'[u] = pc[u]
        /\ pc[t] # "invalidate"
    BY DEF ActivateBestChain, FindMostWorkChain, DisconnectTip, ConnectTip, ConnectInvalid, TestLoop,
           StepFails, StepFlushFails, Release, InStep, treeVars, threadVars, TreeInv, ThreadsTyped
  <1>2. PICK m \in linked : Bounds(m)
    BY <1>1 DEF NoneForgotten, Invalidating
  <1>3. CASE FindMostWorkChain(t)
    <2>1. PICK M \in SUBSET Tree :
             /\ failedChild' = failedChild \cup M
             /\ candidates \ candidates' \subseteq Failed \cup M
             /\ \A b \in Tree : Usable(b) => Ancestors[b] \cap M = {}
      BY <1>3, FindMostWorkFacts
    <2>2. Failed' = Failed \cup M
      BY <1>3, <2>1 DEF FindMostWorkChain, Failed
    <2>3. Ancestors[m] \cap Failed' = {}
      BY <1>2, <2>1, <2>2 DEF Bounds, Usable, Path, TreeInv, BlocksTyped
    <2> QED
      BY <1>1, <1>2, <2>1, <2>2, <2>3, BoundsKept
  <1>4. CASE DisconnectTip(t) \/ TestLoop(t) \/ StepFails(t) \/ StepFlushFails(t)
    <2>1. UNCHANGED <<failedValid, failedChild, candidates>>
      BY <1>4 DEF DisconnectTip, TestLoop, StepFails, StepFlushFails, treeVars
    <2>2. Failed' = Failed /\ Ancestors[m] \cap Failed' = {}
      BY <1>2, <2>1 DEF Bounds, Failed
    <2> QED
      BY <1>1, <1>2, <2>1, <2>2, BoundsKept
  <1>5. CASE ConnectInvalid(t)
    <2>1. /\ Failed' = Failed \cup {NextBlock(t)} /\ candidates' = candidates \ {NextBlock(t)}
          /\ NextBlock(t) \in BadConnect
      BY <1>5 DEF ConnectInvalid, InvalidBlockFound, Failed
    <2>2. Ancestors[m] \cap Failed' = {}
      BY <1>2, <2>1 DEF Bounds
    <2> QED
      BY <1>1, <1>2, <2>1, <2>2, BoundsKept
  <1>6. CASE ConnectTip(t)
    <2>0. PICK n \in linked : n = NextBlock(t)
      BY <1>6, NextBlockFacts DEF ConnectTip, InStep
    <2>1. /\ n \in Ancestors[goal[t]] /\ n \notin BadConnect
          /\ Ancestors[n] = {n} \cup Active /\ pc[t] = "step"
      BY <1>6, <2>0, NextBlockFacts DEF ConnectTip, InStep
    <2>2. /\ candidates' = {c \in candidates : ~Worse(c, n)} /\ Failed' = Failed
      BY <1>6, <2>0 DEF ConnectTip, Pruned, Failed, treeVars
    <2>3. Ancestors[n] \cap (BadConnect \cup Failed) = {} /\ n \notin Failed
      BY <1>1, <2>1 DEF ActiveNotFailed, TreeInv, NoBadConnected
    <2>4. /\ linked \subseteq Tree /\ n \in Tree /\ m \in Tree /\ candidates \subseteq Tree
          /\ nSequenceId \in [Tree -> Nat]
      BY <2>1 DEF TreeInv, BlocksTyped
    <2>5. CASE Worse(n, m)
      <3>1. \A b \in linked : ~Worse(b, m) => ~Worse(b, n)
        BY <2>4, <2>5, WorseOrder DEF Worse
      <3>2. ~Worse(m, n)
        BY <2>4, <2>5, WorseOrder DEF Worse
      <3>3. Bounds(m)'
        BY <1>1, <1>2, <2>2, <3>1, <3>2 DEF Bounds, Worse, WorseWith
      <3> QED
        BY <1>1, <3>3
    <2>6. CASE ~Worse(n, m)
      <3>1. \A b \in linked : ~Worse(b, n) => ~Worse(b, m)
        BY <2>4, <2>6, WorseOrder DEF Worse
      <3>2. ~Worse(n, n)
        BY <2>4, WorseOrder DEF Worse
      <3>3. n \in candidates
        BY <1>2, <2>1, <2>3, <2>6 DEF Bounds
      <3>4. Bounds(n)'
        BY <1>1, <1>2, <2>2, <2>3, <3>1, <3>2, <3>3 DEF Bounds, Worse, WorseWith
      <3> QED
        BY <1>1, <2>1, <3>4
    <2> QED
      BY <2>5, <2>6
  <1> QED
    BY <1>3, <1>4, <1>5, <1>6 DEF ActivateBestChain

(* InvalidateBlock puts back what is as good as the tip it ends with. *)
LEMMA ForgottenInvalidate ==
  ASSUME TreeInv, ActiveNotFailed, NoneForgotten, NEW t \in Threads, InvalidateLoop(t)
  PROVE  NoneForgotten'
  <1>1. pc[t] = "invalidate"
    BY DEF InvalidateLoop, InvalidateTip, InvalidateFails, EndInvalidate
  <1>2. CASE InvalidateTip(t)
    BY <1>1, <1>2 DEF InvalidateTip, threadVars, NoneForgotten, Invalidating
  <1>3. CASE InvalidateFails(t)
    BY <1>3 DEF InvalidateFails, NoneForgotten
  <1>4. CASE EndInvalidate(t)
    <2>1. /\ UNCHANGED <<linked, data, failedValid, failedChild, nSequenceId, tip, gaveUp>>
          /\ candidates' = candidates \cup Restored(tip) /\ goal[t] \notin Active
      BY <1>4 DEF EndInvalidate, treeVars
    <2>2. "invalidate" \notin gaveUp => Active \cap Failed = {}
      <3>1. ASSUME NEW b \in Active, goal[t] \in Ancestors[b]
            PROVE  FALSE
        BY <2>1, <3>1, AncestorsTransitive DEF Active, TreeInv, BlocksTyped
      <3> QED
        BY <1>1, <3>1 DEF ActiveNotFailed
    <2>3. tip \in linked /\ linked \subseteq data /\ tip \in Ancestors[tip] /\ ~Worse(tip, tip)
      BY AncestorsType, WorseOrder DEF TreeInv, TipLinked, BlocksTyped, Worse
    <2>4. ASSUME "invalidate" \notin gaveUp
          PROVE  Bounds(tip)'
      <3>1. Ancestors[tip] \cap (BadConnect \cup Failed) = {}
        BY <2>2, <2>4 DEF TreeInv, NoBadConnected, Active
      <3>2. \A b \in linked \ Failed : ~Worse(b, tip) => b \in candidates'
        BY <2>1, <2>3 DEF Restored
      <3>3. tip \in candidates'
        BY <2>3, <3>1, <3>2
      <3> QED
        BY <2>1, <3>1, <3>2, <3>3 DEF Bounds, Failed, Worse, WorseWith
    <2> QED
      BY <2>1, <2>3, <2>4 DEF NoneForgotten
  <1> QED
    BY <1>2, <1>3, <1>4 DEF InvalidateLoop

(* A block that is not stored changes nothing that can be connected. *)
LEMMA ForgottenAccept ==
  ASSUME TreeInv, NoneForgotten, NEW t \in Threads, NEW b \in Blocks,
         AcceptDuplicate(t, b) \/ AcceptInvalid(t, b) \/ AcceptRejected(t, b)
  PROVE  NoneForgotten'
  <1>1. /\ UNCHANGED <<linked, failedChild, nSequenceId, candidates, gaveUp>>
        /\ pc[t] = "idle" /\ (pc' = pc \/ pc' = [pc EXCEPT ![t] = "activate"])
        /\ failedValid' = failedValid \/ (b \notin data /\ failedValid' = failedValid \cup {b})
    <2>1. CASE AcceptDuplicate(t, b)
      BY <2>1 DEF AcceptDuplicate, MayAccept, treeVars
    <2>2. CASE AcceptInvalid(t, b)
      BY <2>2 DEF AcceptInvalid, MayAccept, threadVars
    <2>3. CASE AcceptRejected(t, b)
      BY <2>3 DEF AcceptRejected, MayAccept, threadVars
    <2> QED
      BY <2>1, <2>2, <2>3
  <1>2. Failed' = Failed \/ (b \notin data /\ Failed' = Failed \cup {b})
    BY <1>1 DEF Failed
  <1>3. Failed \subseteq Failed' /\ \A m \in linked : Ancestors[m] \cap Failed' \subseteq Failed
    BY <1>2 DEF TreeInv, LinkedExact
  <1>4. ASSUME NEW m \in linked, Bounds(m)
        PROVE  Bounds(m)'
    <2>1. Ancestors[m] \cap Failed' = {}
      BY <1>3, <1>4 DEF Bounds
    <2> QED
      BY <1>1, <1>3, <1>4, <2>1, BoundsKept
  <1>5. Invalidating => Invalidating'
    BY <1>1 DEF Invalidating, TreeInv, ThreadsTyped
  <1> QED
    BY <1>1, <1>4, <1>5 DEF NoneForgotten

(* Blocks that arrive are candidates unless they are worse than the tip. *)
LEMMA ForgottenStored ==
  ASSUME TreeInv, NoneForgotten, NEW t \in Threads, NEW b \in Blocks, AcceptStored(t, b)
  PROVE  NoneForgotten'
  <1> DEFINE new == NewlyLinked(b)
  <1>1. /\ linked' = linked \cup new /\ UNCHANGED <<failedValid, failedChild, tip, gaveUp>>
        /\ b \notin data /\ pc[t] = "idle" /\ pc' = [pc EXCEPT ![t] = "activate"]
    BY DEF AcceptStored, MayAccept
  <1>2. PICK f \in Numberings(new) :
          /\ nSequenceId' = [c \in Tree |-> IF c \in new THEN f[c] ELSE nSequenceId[c]]
          /\ candidates' = candidates \cup {c \in new : ~WorseWith(nSequenceId', c, tip)}
    BY DEF AcceptStored
  <1>3. new \cap linked = {} /\ new \in SUBSET Tree
    BY <1>1, NewlyLinkedExact DEF TreeInv, BlocksTyped, Tree
  <1>4. nSequenceId' \in [Tree -> Nat]
    BY <1>2, <1>3, NumberingsType
  <1> HIDE DEF new
  <1>5. \A x, y \in linked : WorseWith(nSequenceId', x, y) <=> Worse(x, y)
    <2>1. \A x \in linked : nSequenceId'[x] = nSequenceId[x]
      BY <1>2, <1>3 DEF TreeInv, BlocksTyped
    <2> QED
      BY <2>1 DEF Worse, WorseWith
  <1>6. ASSUME NEW m \in linked, Bounds(m)
        PROVE  Bounds(m)'
    <2>1. m = tip \/ WorseWith(nSequenceId', tip, m)
      <3>1. tip \in linked /\ tip \in Tree /\ m \in Tree /\ ~Worse(m, tip)
        BY <1>6 DEF TreeInv, BlocksTyped, TipLinked, NoneWorse, Bounds
      <3> QED
        BY <1>4, <1>5, <3>1, NotWorse
    <2>2. ASSUME NEW c \in linked' \ Failed, ~WorseWith(nSequenceId', c, m)
          PROVE  c \in candidates'
      <3>1. CASE c \in linked
        BY <1>2, <1>5, <1>6, <2>2, <3>1 DEF Bounds
      <3>2. CASE c \in new
        <4>1. c \in Tree /\ tip \in Tree /\ m \in Tree
          BY <1>3, <3>2 DEF TreeInv, BlocksTyped
        <4>2. ~WorseWith(nSequenceId', c, tip)
          BY <1>4, <2>1, <2>2, <4>1, WorseOrder
        <4> QED
          BY <1>2, <3>2, <4>2
      <3> QED
        BY <1>1, <3>1, <3>2
    <2>3. m \in candidates' /\ Failed' = Failed
      BY <1>1, <1>2, <1>6 DEF Bounds, Failed
    <2> QED
      BY <1>6, <2>2, <2>3 DEF Bounds, Worse
  <1>7. Invalidating => Invalidating'
    BY <1>1 DEF Invalidating, TreeInv, ThreadsTyped
  <1> QED
    BY <1>1, <1>6, <1>7 DEF NoneForgotten

(* ReconsiderBlock makes a candidate of every block it clears that is      *)
(* better than the tip.                                                    *)
LEMMA ForgottenReconsider ==
  ASSUME RootsReconsidered, TreeInv, FlagsInv, ActiveNotFailed, NoneForgotten,
         NEW t \in Threads, NEW b \in Blocks, ReconsiderBlock(t, b) \/ ReconsiderCheckpoint(t, b)
  PROVE  NoneForgotten'
  <1>1. PICK a \in Tree : Reconsider(a) /\ Ancestors[a] \cap Failed \subseteq {a}
    BY ReconsideredRoot
  <1> DEFINE below == {c \in index : (c \in Failed \/ c \notin data) /\ a \in Ancestors[c]}
  <1>2. /\ UNCHANGED <<linked, nSequenceId, gaveUp, tip>> /\ lock = None
        /\ pc[t] = "idle" /\ pc' = [pc EXCEPT ![t] = "activate"]
    BY DEF ReconsiderBlock, ReconsiderCheckpoint
  <1>3. candidates' = candidates \cup Requalified(below)
    BY <1>1 DEF Reconsider
  <1>4. Failed' \subseteq Failed /\ Failed \ Failed' \subseteq below
    <2>1. Ancestors[a] \cap Failed \subseteq below
      BY <1>1, AncestorsType DEF TreeInv, BlocksTyped, Failed
    <2> QED
      BY <1>1, <2>1 DEF Reconsider, ChildFlagsLeft, Failed
  <1> HIDE DEF below
  <1>5. ASSUME "invalidate" \notin gaveUp, NEW m \in linked, Bounds(m)
        PROVE  Bounds(m)'
    <2>1. /\ linked \subseteq Tree /\ linked \subseteq data /\ tip \in Tree /\ m \in Tree
          /\ nSequenceId \in [Tree -> Nat] /\ ~Worse(m, tip) /\ m \in candidates
      BY <1>5 DEF TreeInv, BlocksTyped, NoneWorse, Bounds
    <2>2. tip \notin Failed
      BY <1>2, <1>5, <2>1, AncestorsType DEF ActiveNotFailed, Active
    <2>3. ASSUME NEW c \in linked \ Failed', ~Worse(c, m)
          PROVE  c \in candidates'
      <3>1. CASE c \notin Failed
        BY <1>3, <1>5, <2>3, <3>1 DEF Bounds
      <3>2. CASE c \in Failed
        <4>1. c \in below /\ c \in data /\ c # tip /\ c \in Tree
          BY <1>4, <2>1, <2>2, <3>2
        <4>2. Worse(tip, c)
          BY <2>1, <2>3, <4>1, WorseOrder DEF Worse
        <4> QED
          BY <1>3, <4>1, <4>2 DEF Requalified
      <3> QED
        BY <3>1, <3>2
    <2>4. Ancestors[m] \cap (BadConnect \cup Failed') = {} /\ m \in candidates'
      BY <1>3, <1>4, <1>5 DEF Bounds
    <2> QED
      BY <1>2, <2>3, <2>4 DEF Bounds, Worse, WorseWith
  <1>6. Invalidating => Invalidating'
    BY <1>2 DEF Invalidating, TreeInv, ThreadsTyped
  <1> QED
    BY <1>2, <1>5, <1>6 DEF NoneForgotten

(* A restart makes a candidate of every block that is as good as the tip,  *)
(* and the tip is one.                                                     *)
LEMMA ForgottenCrash ==
  ASSUME TreeInv', ActiveNotFailed', NEW t \in Threads, CrashAndRestart(t)
  PROVE  NoneForgotten'
  <1> SUFFICES ASSUME "invalidate" \notin gaveUp'
               PROVE  \E m \in linked' : Bounds(m)'
    BY DEF NoneForgotten
  <1>1. PICK d : LoadBlockIndexDB(t, d)
    BY DEF CrashAndRestart
  <1>2. /\ linked' = LoadedLinked(d) /\ tip' = d.tip /\ candidates' = LoadedCandidates(d)
        /\ nSequenceId' = Unnumbered /\ Failed' = d.failedValid \cup d.failedChild /\ lock' = None
    BY <1>1 DEF LoadBlockIndexDB, Failed
  <1>3. PICK m : m = d.tip
    OBVIOUS
  <1>4. m \in linked' /\ m \in Tree /\ nSequenceId' \in [Tree -> Nat] /\ tip' = m
    BY <1>2, <1>3 DEF TreeInv, TipLinked, BlocksTyped
  <1>5. Ancestors[m] \cap (BadConnect \cup Failed') = {} /\ m \notin Failed'
    BY <1>2, <1>4, AncestorsType DEF ActiveNotFailed, TreeInv, NoBadConnected, Active
  <1>6. ~WorseWith(Unnumbered, m, m)
    BY <1>2, <1>4, WorseOrder
  <1>7. \A b \in linked' \ Failed' : ~WorseWith(Unnumbered, b, m) => b \in candidates'
    BY <1>2, <1>3 DEF LoadedCandidates
  <1>8. Bounds(m)'
    BY <1>2, <1>4, <1>5, <1>6, <1>7 DEF Bounds, Worse
  <1> QED
    BY <1>4, <1>8

(* NoneForgotten is kept by every step. *)
LEMMA ForgottenNext ==
  ASSUME RootsReconsidered, TreeInv, FlagsInv, ActiveNotFailed, NoneForgotten, TreeInv', ActiveNotFailed',
         [Next]_vars
  PROVE  NoneForgotten'
  <1>1. ASSUME NEW t \in Threads,
               \/ ActivateBestChain(t) \/ StepFails(t) \/ StepFlushFails(t)
               \/ InvalidateLoop(t) \/ CrashAndRestart(t)
        PROVE  NoneForgotten'
    BY <1>1, ForgottenActivate, ForgottenInvalidate, ForgottenCrash
  <1>2. ASSUME NEW t \in Threads, NEW b \in Blocks, BeginInvalidate(t, b)
        PROVE  NoneForgotten'
    BY <1>2 DEF BeginInvalidate, NoneForgotten, Invalidating, TreeInv, ThreadsTyped
  <1>3. ASSUME NEW t \in Threads, NEW b \in Blocks,
               \/ AcceptDuplicate(t, b) \/ AcceptInvalid(t, b) \/ AcceptRejected(t, b) \/ AcceptStored(t, b)
               \/ ReconsiderBlock(t, b) \/ ReconsiderCheckpoint(t, b)
        PROVE  NoneForgotten'
    BY <1>3, ForgottenAccept, ForgottenStored, ForgottenReconsider
  <1>4. ASSUME UNCHANGED <<linked, failedValid, failedChild, nSequenceId, candidates, pc, gaveUp>>
        PROVE  NoneForgotten'
    BY <1>4 DEF NoneForgotten, Invalidating, Bounds, Failed, Worse, WorseWith
  <1>5. CASE PeriodicFlush \/ PeriodicFlushFails \/ UNCHANGED vars
    BY <1>4, <1>5 DEF PeriodicFlush, PeriodicFlushFails, vars, treeVars, threadVars
  <1> QED
    BY <1>1, <1>2, <1>3, <1>5 DEF Next

-----------------------------------------------------------------------------
(* What a step goes towards.  Nothing is said when no thread is in a step. *)
LEMMA GoalNone ==
  ASSUME \A u \in Threads : pc'[u] # "step"
  PROVE  GoalKept' /\ GoalBest'
  BY DEF GoalKept, GoalBest

(* Steps that leave the tree, and the goal of a thread in a step, alone. *)
LEMMA GoalSame ==
  ASSUME GoalKept, GoalBest, UNCHANGED <<linked, failedValid, failedChild, nSequenceId>>,
         "invalidate" \in gaveUp => "invalidate" \in gaveUp',
         \A u \in Threads : pc'[u] = "step" =>
            /\ pc[u] = "step" /\ goal'[u] = goal[u] /\ (goal[u] \in candidates => goal[u] \in candidates')
  PROVE  GoalKept' /\ GoalBest'
  <1>1. GoalKept'
    BY DEF GoalKept
  <1>2. \A b : IsBest(b) => \A c \in linked' : Ancestors[c] \cap Failed' = {} => ~WorseWith(nSequenceId', b, c)
    BY DEF IsBest, Failed, Worse
  <1>3. ASSUME "invalidate" \notin gaveUp', NEW u \in Threads, pc'[u] = "step"
        PROVE  IsBest(goal[u])'
    <2>1. IsBest(goal[u]) /\ goal'[u] = goal[u]
      BY <1>3 DEF GoalBest
    <2> QED
      BY <1>2, <2>1 DEF IsBest, Worse
  <1> QED
    BY <1>1, <1>3 DEF GoalBest

(* FindMostWorkChain returns the best block that can be connected. *)
LEMMA FindMostWorkBest ==
  ASSUME TreeInv, TreeInv', NoneForgotten', NEW t \in Threads, FindMostWorkChain(t),
         "invalidate" \notin gaveUp', NEW x \in Tree, \A c \in candidates' : ~Worse(x, c)
  PROVE  \A b \in linked' : Ancestors[b] \cap Failed' = {} => ~WorseWith(nSequenceId', x, b)
  <1>1. nSequenceId' = nSequenceId /\ lock = None
    BY DEF FindMostWorkChain
  <1>2. \A u \in Threads : pc[u] # "invalidate"
    BY <1>1, TreeAssumption DEF TreeInv, LockExact
  <1>3. ~Invalidating'
    BY <1>2 DEF FindMostWorkChain, Release, Invalidating, TreeInv, ThreadsTyped
  <1>4. PICK m \in linked' : Bounds(m)'
    BY <1>3 DEF NoneForgotten
  <1>5. linked' \in SUBSET Tree /\ nSequenceId' \in [Tree -> Nat]
    BY DEF TreeInv, BlocksTyped
  <1>6. m \in candidates' /\ \A b \in linked' \ Failed' : ~WorseWith(nSequenceId', b, m) => b \in candidates'
    BY <1>4 DEF Bounds, Worse
  <1>7. \A c \in candidates' : ~WorseWith(nSequenceId', x, c)
    BY <1>1 DEF Worse
  <1>8. ASSUME NEW b \in linked', Ancestors[b] \cap Failed' = {}, WorseWith(nSequenceId', x, b)
        PROVE  FALSE
    <2>1. b \in Tree /\ m \in Tree /\ b \notin Failed'
      BY <1>5, <1>8, AncestorsType
    <2>2. WorseWith(nSequenceId', b, m)
      BY <1>6, <1>7, <1>8, <2>1
    <2>3. WorseWith(nSequenceId', x, m)
      BY <1>5, <1>8, <2>1, <2>2, WorseOrder
    <2> QED
      BY <1>6, <1>7, <2>3
  <1> QED
    BY <1>8

(* GoalKept and GoalBest are kept by every step. *)
LEMMA GoalNext ==
  ASSUME TreeInv, TreeInv', NoneForgotten', GoalKept, GoalBest, [Next]_vars
  PROVE  GoalKept' /\ GoalBest'
  <1>1. \A u \in Threads : u # None /\ (pc[u] \in {"step", "invalidate"} <=> lock = u)
    BY TreeAssumption DEF TreeInv, LockExact
  <1>2. ASSUME NEW t \in Threads, FindMostWorkChain(t)
        PROVE  GoalKept' /\ GoalBest'
    <2>1. lock = None
      BY <1>2 DEF FindMostWorkChain
    <2>2. CASE Release(t, "idle")
      BY <1>1, <2>1, <2>2, GoalNone DEF Release, TreeInv, ThreadsTyped
    <2>3. CASE \E b \in candidates' \ {tip} :
                  /\ \A c \in candidates' : ~Worse(b, c)
                  /\ pc' = [pc EXCEPT ![t] = "step"] /\ goal' = [goal EXCEPT ![t] = b]
      <3>1. PICK b \in candidates' :
                  /\ \A c \in candidates' : ~Worse(b, c)
                  /\ pc' = [pc EXCEPT ![t] = "step"] /\ goal' = [goal EXCEPT ![t] = b]
        BY <2>3
      <3>2. b \in Tree
        BY DEF TreeInv, BlocksTyped
      <3>3. goal'[t] = b /\ \A u \in Threads : pc'[u] = "step" => u = t
        BY <1>1, <2>1, <3>1 DEF TreeInv, ThreadsTyped
      <3>4. "invalidate" \notin gaveUp' => IsBest(goal[t])'
        BY <1>2, <3>1, <3>2, <3>3, FindMostWorkBest DEF IsBest, Worse
      <3> QED
        BY <3>3, <3>4 DEF GoalKept, GoalBest
    <2> QED
      BY <1>2, <2>2, <2>3, FindMostWorkFacts
  <1>3. ASSUME NEW t \in Threads, DisconnectTip(t) \/ TestLoop(t) \/ StepFails(t) \/ StepFlushFails(t)
        PROVE  GoalKept' /\ GoalBest'
    <2>1. /\ UNCHANGED <<linked, failedValid, failedChild, nSequenceId, candidates>>
          /\ "invalidate" \in gaveUp => "invalidate" \in gaveUp'
      BY <1>3 DEF DisconnectTip, TestLoop, StepFails, StepFlushFails, treeVars
    <2>2. \A u \in Threads : pc'[u] = "step" => pc[u] = "step" /\ goal'[u] = goal[u]
      BY <1>3 DEF DisconnectTip, TestLoop, StepFails, StepFlushFails, Release, threadVars, TreeInv, ThreadsTyped
    <2> QED
      BY <2>1, <2>2, GoalSame
  <1>4. ASSUME NEW t \in Threads, ConnectTip(t)
        PROVE  GoalKept' /\ GoalBest'
    <2>1. /\ UNCHANGED <<linked, failedValid, failedChild, nSequenceId, goal, gaveUp>>
          /\ candidates' = {c \in candidates : ~Worse(c, NextBlock(t))} /\ lock = t
      BY <1>4 DEF ConnectTip, InStep, Pruned, treeVars
    <2>2. \A u \in Threads : pc'[u] = "step" => pc[u] = "step"
      BY <1>4 DEF ConnectTip, TreeInv, ThreadsTyped
    <2>3. ~Worse(goal[t], NextBlock(t))
      <3>1. NextBlock(t) \in Ancestors[goal[t]] /\ NextBlock(t) \in Tree /\ goal[t] \in Tree
        BY <1>4, NextBlockFacts DEF ConnectTip, InStep, TreeInv, LockExact, BlocksTyped, Tree
      <3>2. nSequenceId \in [Tree -> Nat]
        BY DEF TreeInv, BlocksTyped
      <3> QED
        BY <3>1, <3>2, AncestorsWorse, WorseOrder DEF Worse
    <2>4. \A u \in Threads : pc[u] = "step" => u = t
      BY <1>1, <2>1
    <2> QED
      BY <2>1, <2>2, <2>3, <2>4, GoalSame
  <1>5. ASSUME NEW t \in Threads, ConnectInvalid(t) \/ InvalidateLoop(t) \/ CrashAndRestart(t)
        PROVE  GoalKept' /\ GoalBest'
    <2>1. CASE ConnectInvalid(t)
      BY <1>1, <2>1, GoalNone DEF ConnectInvalid, InStep, TreeInv, ThreadsTyped
    <2>2. CASE InvalidateLoop(t)
      <3>1. pc[t] = "invalidate" /\ lock = t
        BY <1>1, <2>2 DEF InvalidateLoop, InvalidateTip, InvalidateFails, EndInvalidate
      <3>2. \A u \in Threads : pc[u] # "step"
        BY <1>1, <3>1
      <3>3. \A u \in Threads : pc'[u] # "step"
        BY <2>2, <3>2 DEF InvalidateLoop, InvalidateTip, InvalidateFails, EndInvalidate, Release,
              threadVars, TreeInv, ThreadsTyped
      <3> QED
        BY <3>3, GoalNone
    <2>3. CASE CrashAndRestart(t)
      BY <2>3, GoalNone DEF CrashAndRestart, LoadBlockIndexDB
    <2> QED
      BY <1>5, <2>1, <2>2, <2>3
  <1>6. ASSUME NEW t \in Threads, NEW b \in Blocks,
               \/ AcceptDuplicate(t, b) \/ AcceptInvalid(t, b) \/ AcceptRejected(t, b) \/ AcceptStored(t, b)
               \/ BeginInvalidate(t, b) \/ ReconsiderBlock(t, b) \/ ReconsiderCheckpoint(t, b)
        PROVE  GoalKept' /\ GoalBest'
    <2>1. /\ lock = None
          /\ pc' = pc \/ pc' = [pc EXCEPT ![t] = "activate"] \/ pc' = [pc EXCEPT ![t] = "invalidate"]
      <3>1. CASE AcceptDuplicate(t, b) \/ AcceptInvalid(t, b) \/ AcceptRejected(t, b) \/ AcceptStored(t, b)
        BY <3>1 DEF AcceptDuplicate, AcceptInvalid, AcceptRejected, AcceptStored, MayAccept, threadVars
      <3>2. CASE BeginInvalidate(t, b) \/ ReconsiderBlock(t, b) \/ ReconsiderCheckpoint(t, b)
        BY <3>2 DEF BeginInvalidate, ReconsiderBlock, ReconsiderCheckpoint
      <3> QED
        BY <1>6, <3>1, <3>2
    <2> QED
      BY <1>1, <2>1, GoalNone DEF TreeInv, ThreadsTyped
  <1>7. CASE PeriodicFlush \/ PeriodicFlushFails \/ UNCHANGED vars
    <2>1. UNCHANGED <<linked, failedValid, failedChild, nSequenceId, candidates, gaveUp, pc, goal>>
      BY <1>7 DEF PeriodicFlush, PeriodicFlushFails, vars, treeVars, threadVars
    <2> QED
      BY <2>1, GoalSame
  <1> QED
    BY <1>2, <1>3, <1>4, <1>5, <1>6, <1>7 DEF Next, ActivateBestChain

-----------------------------------------------------------------------------
(* A better chain is looked for.  Steps after which a thread searches. *)
LEMMA TipSearching ==
  ASSUME NEW t \in Threads, pc'[t] \in {"activate", "step", "invalidate"}
  PROVE  TipBest'
  BY DEF TipBest, Searching

(* Steps after which no chain is better than before. *)
LEMMA TipKept ==
  ASSUME TipBest, UNCHANGED <<linked, nSequenceId, tip, gaveUp>>, Failed \subseteq Failed',
         Searching => Searching'
  PROVE  TipBest'
  BY DEF TipBest, IsBest, Worse

(* Steps of a thread that is not in ActivateBestChain. *)
LEMMA TipRpc ==
  ASSUME TreeInv, TipBest, NEW t \in Threads, NEW b \in Blocks,
         \/ AcceptDuplicate(t, b) \/ AcceptInvalid(t, b) \/ AcceptRejected(t, b) \/ AcceptStored(t, b)
         \/ BeginInvalidate(t, b) \/ ReconsiderBlock(t, b) \/ ReconsiderCheckpoint(t, b)
  PROVE  TipBest'
  <1>1. CASE AcceptDuplicate(t, b) \/ AcceptStored(t, b)
    BY <1>1, TipSearching DEF AcceptDuplicate, AcceptStored, TreeInv, ThreadsTyped
  <1>2. CASE BeginInvalidate(t, b) \/ ReconsiderBlock(t, b) \/ ReconsiderCheckpoint(t, b)
    BY <1>2, TipSearching DEF BeginInvalidate, ReconsiderBlock, ReconsiderCheckpoint, TreeInv, ThreadsTyped
  <1>3. CASE AcceptInvalid(t, b) \/ AcceptRejected(t, b)
    <2>1. UNCHANGED <<linked, nSequenceId, tip, gaveUp, pc, goal>> /\ Failed \subseteq Failed'
      BY <1>3 DEF AcceptInvalid, AcceptRejected, threadVars, Failed
    <2> QED
      BY <2>1, TipKept DEF Searching
  <1> QED
    BY <1>1, <1>2, <1>3

(* ActivateBestChain: it ends at the best block, or goes on. *)
LEMMA TipActivate ==
  ASSUME TreeInv, TreeInv', NoneForgotten', GoalBest, TipBest, NEW t \in Threads, ActivateBestChain(t)
  PROVE  TipBest'
  <1>1. pc \in [Threads -> {"idle", "activate", "step", "test", "invalidate"}]
    BY DEF TreeInv, ThreadsTyped
  <1>2. CASE FindMostWorkChain(t)
    <2>1. CASE (\A c \in candidates' : c = tip \/ Worse(c, tip))
      <3>1. tip' = tip /\ tip \in Tree /\ nSequenceId \in [Tree -> Nat] /\ candidates' \subseteq Tree
        BY <1>2 DEF FindMostWorkChain, TreeInv, BlocksTyped
      <3>2. \A c \in candidates' : ~Worse(tip, c)
        BY <2>1, <3>1, WorseOrder DEF Worse
      <3>3. "invalidate" \notin gaveUp' => IsBest(tip)'
        BY <1>2, <3>1, <3>2, FindMostWorkBest DEF IsBest, Worse
      <3> QED
        BY <3>3 DEF TipBest
    <2>2. CASE pc' = [pc EXCEPT ![t] = "step"]
      BY <1>1, <2>2, TipSearching
    <2> QED
      BY <1>2, <2>1, <2>2, FindMostWorkFacts
  <1>3. CASE DisconnectTip(t)
    BY <1>3, TipSearching DEF DisconnectTip, InStep, threadVars
  <1>4. CASE ConnectTip(t)
    <2>1. /\ UNCHANGED <<linked, failedValid, failedChild, nSequenceId, goal, gaveUp>>
          /\ tip' = NextBlock(t) /\ pc[t] = "step"
      BY <1>4 DEF ConnectTip, InStep, treeVars
    <2>2. CASE pc' = pc
      BY <2>1, <2>2, TipSearching
    <2>3. CASE pc' = [pc EXCEPT ![t] = "test"] /\ goal[t] # NextBlock(t)
      BY <1>1, <2>1, <2>3 DEF TipBest, Searching
    <2>4. CASE goal[t] = NextBlock(t)
      <3>1. "invalidate" \notin gaveUp => IsBest(goal[t])
        BY <2>1 DEF GoalBest
      <3>2. tip' = goal[t] /\ Failed' = Failed
        BY <2>1, <2>4 DEF Failed
      <3>3. "invalidate" \notin gaveUp => IsBest(tip)'
        BY <2>1, <3>1, <3>2 DEF IsBest, Worse
      <3> QED
        BY <2>1, <3>3 DEF TipBest
    <2> QED
      BY <1>4, <2>2, <2>3, <2>4 DEF ConnectTip
  <1>5. CASE ConnectInvalid(t)
    <2>1. goal[t] \notin Active /\ tip \in Active
      BY <1>5, AncestorsType DEF ConnectInvalid, InStep, TreeInv, LockExact, BlocksTyped, Active
    <2>2. pc'[t] = "test" /\ goal'[t] # tip'
      BY <1>1, <1>5, <2>1 DEF ConnectInvalid
    <2> QED
      BY <2>2 DEF TipBest, Searching
  <1>6. CASE TestLoop(t)
    <2>1. CASE MoreToDo(t)
      BY <1>1, <1>6, <2>1, TipSearching DEF TestLoop
    <2>2. CASE ~MoreToDo(t)
      <3>1. /\ UNCHANGED <<linked, failedValid, failedChild, nSequenceId, tip, gaveUp>>
            /\ pc[t] = "test" /\ goal[t] = tip
            /\ \A u \in Threads : u # t => pc'[u] = pc[u] /\ goal'[u] = goal[u]
        BY <1>6, <2>2 DEF TestLoop, MoreToDo, treeVars, TreeInv, ThreadsTyped
      <3>2. Searching => Searching'
        BY <3>1 DEF Searching
      <3> QED
        BY <3>1, <3>2, TipKept DEF Failed
    <2> QED
      BY <2>1, <2>2
  <1> QED
    BY <1>2, <1>3, <1>4, <1>5, <1>6 DEF ActivateBestChain

(* TipBest is kept by every step. *)
LEMMA TipNext ==
  ASSUME TreeInv, TreeInv', NoneForgotten', GoalBest, TipBest, [Next]_vars
  PROVE  TipBest'
  <1>1. ASSUME NEW t \in Threads, StepFails(t) \/ StepFlushFails(t)
        PROVE  TipBest'
    BY <1>1 DEF StepFails, StepFlushFails, TipBest
  <1>2. ASSUME NEW t \in Threads, InvalidateLoop(t)
        PROVE  TipBest'
    BY <1>2, TipSearching DEF InvalidateLoop, InvalidateTip, InvalidateFails, EndInvalidate, Release,
        threadVars, TreeInv, ThreadsTyped
  <1>3. ASSUME NEW t \in Threads, CrashAndRestart(t)
        PROVE  TipBest'
    BY <1>3, TipSearching DEF CrashAndRestart, LoadBlockIndexDB
  <1>4. CASE PeriodicFlush \/ PeriodicFlushFails \/ UNCHANGED vars
    <2>1. UNCHANGED <<linked, failedValid, failedChild, nSequenceId, tip, gaveUp, pc, goal>>
      BY <1>4 DEF PeriodicFlush, PeriodicFlushFails, vars, treeVars, threadVars
    <2> QED
      BY <2>1, TipKept DEF Searching, Failed
  <1> QED
    BY <1>1, <1>2, <1>3, <1>4, TipActivate, TipRpc DEF Next

-----------------------------------------------------------------------------
(* ChainInv holds of the initial state. *)
LEMMA ChainInit ==
  ASSUME Init
  PROVE  ChainInv
  <1>1. TreeInv
    BY TreeInit
  <1>2. Genesis \in Tree /\ Ancestors[Genesis] = {Genesis} /\ Genesis \notin BadConnect
    BY AncestorsGenesis, TreeAssumption, BlockAssumption
  <1>3. FlagsInv /\ NoneCutShort /\ ActiveNotFailed
    <2>1. Genesis \notin BadContext
      BY TreeAssumption, BlockAssumption
    <2> QED
      BY <2>1 DEF Init, FlagsInv, FailedByCulprit, ContextChecked, FlagsBehind, FailuresHaveCause,
                  DiskFailed, Failed, NoneCutShort, ActiveNotFailed, Active
  <1>4. Bounds(Genesis)
    BY <1>2 DEF Init, Bounds, Failed
  <1>5. NoneForgotten /\ GoalKept /\ GoalBest
    BY <1>4 DEF Init, NoneForgotten, GoalKept, GoalBest
  <1>6. ~Worse(Genesis, Genesis)
    BY <1>1, <1>2, WorseOrder DEF TreeInv, BlocksTyped, Worse
  <1>7. TipBest
    BY <1>6 DEF Init, TipBest, IsBest
  <1> QED
    BY <1>1, <1>3, <1>5, <1>7 DEF ChainInv

(* ChainInv is kept by every step. *)
LEMMA ChainNext ==
  ASSUME NoCrashWhileInvalidating, RootsReconsidered, ChainInv, [Next]_vars
  PROVE  ChainInv'
  <1>1. TreeInv'
    BY TreeNext DEF ChainInv
  <1>2. FlagsInv' /\ NoneCutShort'
    BY FlagsNext, CutShortNext DEF ChainInv
  <1>3. ActiveNotFailed' /\ NoneForgotten'
    BY <1>1, <1>2, ActiveNext, ForgottenNext DEF ChainInv
  <1>4. GoalKept' /\ GoalBest' /\ TipBest'
    BY <1>1, <1>3, GoalNext, TipNext DEF ChainInv
  <1> QED
    BY <1>1, <1>2, <1>3, <1>4 DEF ChainInv

(* The invariant of the chain: what the block tree, the candidates, the    *)
(* flags and the threads of ActivateBestChain are to each other, failed    *)
(* flushes and lost batches included.                                      *)
THEOREM ChainInvariant == NoCrashWhileInvalidating /\ RootsReconsidered => (Spec => []ChainInv)
  <1> SUFFICES ASSUME NoCrashWhileInvalidating, RootsReconsidered
               PROVE  Spec => []ChainInv
    OBVIOUS
  <1>1. Init => ChainInv
    BY ChainInit
  <1>2. ChainInv /\ [Next]_vars => ChainInv'
    BY ChainNext
  <1> QED
    BY <1>1, <1>2, PTL DEF Spec

(* ChainInv holds what the candidates must be. *)
LEMMA CandidatesFromInv ==
  ASSUME ChainInv
  PROVE  CandidatesExact
  <1>1. ASSUME lock = None, "invalidate" \notin gaveUp
        PROVE  \E m \in linked : Bounds(m)
    <2>1. ~Invalidating
      BY <1>1, TreeAssumption DEF ChainInv, TreeInv, LockExact, Invalidating
    <2> QED
      BY <1>1, <2>1 DEF ChainInv, NoneForgotten
  <1>2. CandidatesSound
    BY <1>1 DEF CandidatesSound, ChainInv, TreeInv, TipLinked, NoneWorse, Bounds
  <1>3. ASSUME lock = None, "invalidate" \notin gaveUp, NEW b \in linked, Ancestors[b] \cap Failed = {}
        PROVE  \E c \in candidates : Usable(c) /\ ~Worse(c, b)
    <2>1. PICK m \in linked : Bounds(m)
      BY <1>1, <1>3
    <2>2. m \in candidates /\ Usable(m) /\ Usable(b) /\ b \in Tree /\ m \in Tree /\ b \notin Failed
      BY <1>3, <2>1, AncestorsType DEF Bounds, Usable, Path, ChainInv, TreeInv, BlocksTyped
    <2>3. nSequenceId \in [Tree -> Nat]
      BY DEF ChainInv, TreeInv, BlocksTyped
    <2>4. ~Worse(b, b) /\ (Worse(b, m) => ~Worse(m, b))
      BY <2>2, <2>3, WorseOrder DEF Worse
    <2>5. Worse(b, m) \/ b \in candidates
      BY <2>1, <2>2 DEF Bounds
    <2> QED
      BY <2>2, <2>4, <2>5
  <1> QED
    BY <1>2, <1>3 DEF CandidatesExact, NoBetterChainForgotten

(* The candidates are exact: no better chain is ever forgotten. *)
THEOREM ChainCandidatesExact ==
  NoCrashWhileInvalidating /\ RootsReconsidered => (Spec => []CandidatesExact)
  <1>1. ChainInv => CandidatesExact
    BY CandidatesFromInv
  <1> QED
    BY <1>1, ChainInvariant, PTL

(* ChainInv keeps the active chain sound. *)
LEMMA ActiveFromInv ==
  ASSUME ChainInv
  PROVE  ActiveChainSound
  <1>1. Active \subseteq linked
    BY LinkedClosed DEF ChainInv, TreeInv, TipLinked, Active
  <1> QED
    BY <1>1 DEF ChainInv, TreeInv, NoBadConnected, ActiveNotFailed, ActiveChainSound

(* The active chain has data, connects and has not failed. *)
THEOREM ChainActiveSound ==
  NoCrashWhileInvalidating /\ RootsReconsidered => (Spec => []ActiveChainSound)
  <1>1. ChainInv => ActiveChainSound
    BY ActiveFromInv
  <1> QED
    BY <1>1, ChainInvariant, PTL

(* When every thread is idle the tip is the best. *)
LEMMA BestFromInv ==
  ASSUME ChainInv
  PROVE  BestChainActive
  <1>1. (\A t \in Threads : pc[t] = "idle") => ~Searching
    BY DEF Searching
  <1> QED
    BY <1>1 DEF ChainInv, TipBest, IsBest, BestChainActive

(* When ActivateBestChain has returned in every thread, the tip is the     *)
(* best chain that is known.                                               *)
THEOREM ChainBestActive ==
  NoCrashWhileInvalidating /\ RootsReconsidered => (Spec => []BestChainActive)
  <1>1. ChainInv => BestChainActive
    BY BestFromInv
  <1> QED
    BY <1>1, ChainInvariant, PTL

(* After invalidateblock and reconsiderblock in any order the chain state  *)
(* is right again.  (A lost batch may hold the cause of a failure that is  *)
(* on disk, so none may be lost.)                                          *)
THEOREM ChainStateRepaired ==
  NoCrashWhileInvalidating /\ RootsReconsidered /\ NoBatchLost => (Spec => []ChainRepaired)
  <1> SUFFICES ASSUME NoCrashWhileInvalidating, RootsReconsidered, NoBatchLost
               PROVE  Spec => []ChainRepaired
    OBVIOUS
  <1>1. ChainInv => ChainRepaired
    <2> SUFFICES ASSUME ChainInv PROVE ChainRepaired
      OBVIOUS
    <2>1. FailuresHaveCause
      BY DEF ChainInv, TreeInv, DiskBehind, LossTyped, FlagsInv
    <2> QED
      BY <2>1, CandidatesFromInv, ActiveFromInv, BestFromInv DEF ChainRepaired
  <1>2. Spec => []ChainInv
    BY ChainInvariant
  <1> QED
    BY <1>1, <1>2, PTL

(* Either the tip or a successor of it is left after a prune. *)
LEMMA PruneFromInv ==
  ASSUME NoCrashWhileInvalidating, ChainInv, ChainInv', [Next]_vars, NEW t \in Threads,
         ConnectTip(t) \/ CrashAndRestart(t)
  PROVE  candidates' # {}
  <1>1. CASE ConnectTip(t)
    <2>1. /\ InStep(t) /\ candidates' = {c \in candidates : ~Worse(c, NextBlock(t))}
          /\ goal[t] \in candidates
      BY <1>1 DEF ConnectTip, InStep, Pruned, ChainInv, GoalKept
    <2>2. NextBlock(t) \in Ancestors[goal[t]] /\ NextBlock(t) \in Tree /\ goal[t] \in Tree
      BY <1>1, <2>1, NextBlockFacts DEF ConnectTip, ChainInv, TreeInv, BlocksTyped, Tree
    <2>3. nSequenceId \in [Tree -> Nat]
      BY DEF ChainInv, TreeInv, BlocksTyped
    <2>4. ~Worse(goal[t], NextBlock(t))
      BY <2>2, <2>3, AncestorsWorse, WorseOrder DEF Worse
    <2> QED
      BY <2>1, <2>4
  <1>2. CASE CrashAndRestart(t)
    <2>1. Invalidatable = {}
      BY <1>2, BoundAssumption DEF CrashAndRestart, NoCrashWhileInvalidating, ChainInv, TreeInv, ThreadsTyped
    <2>2. "invalidate" \notin gaveUp' /\ ~Invalidating'
      BY <1>2, <2>1 DEF ChainInv, NoneCutShort, CrashAndRestart, LoadBlockIndexDB, Invalidating
    <2>3. \E m \in linked' : Bounds(m)'
      BY <2>2 DEF ChainInv, NoneForgotten
    <2> QED
      BY <2>3 DEF Bounds
  <1> QED
    BY <1>1, <1>2

(* The assertion of PruneBlockIndexCandidates never fails. *)
THEOREM ChainPruneLeavesCandidate ==
  NoCrashWhileInvalidating /\ RootsReconsidered => (Spec => PruneLeavesCandidate)
  <1> SUFFICES ASSUME NoCrashWhileInvalidating, RootsReconsidered
               PROVE  Spec => PruneLeavesCandidate
    OBVIOUS
  <1>1. ChainInv /\ ChainInv' /\ [Next]_vars =>
           [\A t \in Threads : ConnectTip(t) \/ CrashAndRestart(t) => candidates' # {}]_vars
    BY PruneFromInv
  <1>2. Spec => []ChainInv
    BY ChainInvariant
  <1> QED
    BY <1>1, <1>2, PTL DEF Spec, PruneLeavesCandidate

-----------------------------------------------------------------------------
(***************************************************************************)
(* The limit of -maxreorg.  A reorganisation that is cut short, by a block *)
(* that does not connect, a system error or a crash, leaves the node on a  *)
(* short chain, from which it goes back to the long branch it was leaving; *)
(* as long as that does not happen, the limit that AcceptBlock checks is   *)
(* the one that ActivateBestChain keeps.                                   *)
(***************************************************************************)
Uninterrupted == crashes = 0 /\ gaveUp = {} /\ Failed \cap linked = {}

(* The chain to b leaves that to a by at most maxReorg blocks, or not at   *)
(* all.                                                                    *)
Near(b, a) == a \in Ancestors[b] \/ Cardinality(Ancestors[b] \ Ancestors[a]) <= maxReorg

(* No block that can be connected is better than b. *)
Top(b) == \A c \in linked : ~Worse(b, c)

(* A stake block is stored only with its ancestors. *)
StakeLinked == Stake \cap data \subseteq linked

(* Outside of a step, a stake block that the next step could be towards is *)
(* near the tip.                                                           *)
TopIsNear ==
    (\A t \in Threads : pc[t] # "step") => \A b \in linked \cap Stake : Top(b) => Near(b, tip)

(* A step remembers a tip that its goal is near to. *)
GoalIsNear ==
    \A t \in Threads : /\ pc[t] = "step" /\ goal[t] \in Stake => Near(goal[t], oldTip[t])
                       /\ pc[t] # "step" => oldTip[t] = None

ForkInv == StakeLinked /\ TopIsNear /\ GoalIsNear

(* Where nothing failed, the goal of a step is the best block there is. *)
LEMMA GoalTop ==
  ASSUME ChainInv, Uninterrupted, NEW t \in Threads, pc[t] = "step"
  PROVE  goal[t] \in linked /\ Top(goal[t])
  <1>1. goal[t] \in linked /\ IsBest(goal[t])
    BY DEF ChainInv, TreeInv, LockExact, GoalBest, Uninterrupted
  <1>2. ASSUME NEW c \in linked
        PROVE  ~Worse(goal[t], c)
    <2>1. Ancestors[c] \subseteq linked
      BY LinkedClosed DEF ChainInv, TreeInv
    <2> QED
      BY <1>1, <2>1 DEF IsBest, Uninterrupted
  <1> QED
    BY <1>1, <1>2 DEF Top

(* There is one best block. *)
LEMMA TopUnique ==
  ASSUME TreeInv, NEW a \in linked, NEW b \in linked, Top(a), Top(b)
  PROVE  a = b
  <1>1. a \in Tree /\ b \in Tree /\ nSequenceId \in [Tree -> Nat]
    BY DEF TreeInv, BlocksTyped
  <1> QED
    BY <1>1, WorseOrder DEF Top, Worse

(* Steps that leave blocks, tip and step alone. *)
LEMMA ForkSame ==
  ASSUME ForkInv, UNCHANGED <<data, linked, nSequenceId, tip>>,
         \A t \in Threads : /\ pc'[t] = "step" <=> pc[t] = "step"
                            /\ pc[t] = "step" => goal'[t] = goal[t] /\ oldTip'[t] = oldTip[t]
                            /\ pc[t] # "step" => oldTip'[t] = None
  PROVE  ForkInv'
  <1>1. StakeLinked'
    BY DEF ForkInv, StakeLinked
  <1>2. TopIsNear'
    BY DEF ForkInv, TopIsNear, Top, Near, Worse
  <1>3. GoalIsNear'
    BY DEF ForkInv, GoalIsNear, Near
  <1> QED
    BY <1>1, <1>2, <1>3 DEF ForkInv

(* AcceptBlock that stores the block: a stake block has all its ancestors, *)
(* and is near the tip.                                                    *)
LEMMA ForkStored ==
  ASSUME TreeInv, ForkInv, NEW t \in Threads, NEW b \in Blocks, AcceptStored(t, b)
  PROVE  ForkInv'
  <1> DEFINE new == NewlyLinked(b)
  <1>1. /\ data' = data \cup {b} /\ linked' = linked \cup new
        /\ UNCHANGED <<tip, goal, oldTip>> /\ lock = None /\ b \notin data
        /\ pc[t] = "idle" /\ pc' = [pc EXCEPT ![t] = "activate"] /\ ForkIsShort(b)
    BY DEF AcceptStored, MayAccept
  <1>2. PICK f : nSequenceId' = [c \in Tree |-> IF c \in new THEN f[c] ELSE nSequenceId[c]]
    BY DEF AcceptStored
  <1>3. /\ new \cap linked = {} /\ new \subseteq data \cup {b}
        /\ linked \cup new = {c \in index \cup {b} : Ancestors[c] \subseteq data \cup {b}}
    BY <1>1, NewlyLinkedExact
  <1> HIDE DEF new
  <1>4. /\ b \in Tree /\ Parent[b] \in Tree /\ Ancestors[b] = {b} \cup Ancestors[Parent[b]]
        /\ tip \in linked /\ linked \subseteq data /\ data \subseteq Tree
    BY AncestorsParent DEF TreeInv, BlocksTyped, TipLinked
  <1>5. Active \subseteq data
    BY <1>4, LinkedClosed DEF TreeInv, Active
  <1>6. b \in Stake => b \in linked'
    <2>1. CASE Parent[b] = tip
      BY <1>1, <1>3, <1>4, <1>5, <2>1 DEF Active
    <2>2. CASE b \in Stake /\ Parent[b] # tip
      <3>1. Ancestors[Parent[b]] \ Active \subseteq data
        BY <1>1, <2>2 DEF ForkIsShort
      <3> QED
        BY <1>1, <1>3, <1>4, <1>5, <3>1
    <2> QED
      BY <2>1, <2>2
  <1>7. StakeLinked'
    BY <1>1, <1>6 DEF ForkInv, StakeLinked
  <1>8. b \in Stake => Near(b, tip)
    <2>1. CASE Parent[b] = tip
      BY <1>4, <2>1, AncestorsType DEF Near
    <2>2. CASE b \in Stake /\ Parent[b] # tip
      <3> DEFINE fork == Ancestors[Parent[b]] \ Active
      <3>1. Cardinality(fork) < maxReorg
        BY <1>1, <2>2 DEF ForkIsShort
      <3>2. IsFiniteSet(Tree)
        BY TreeAssumption, FS_AddElement DEF Tree
      <3>3. IsFiniteSet(fork) /\ Cardinality(fork) \in Nat
        <4>1. fork \subseteq Tree
          BY <1>4, AncestorsType
        <4> QED
          BY <3>2, <4>1, FS_Subset, FS_CardinalityType
      <3>4. Ancestors[b] \ Ancestors[tip] \subseteq fork \cup {b}
        BY <1>4 DEF Active
      <3>5. IsFiniteSet(fork \cup {b}) /\ Cardinality(fork \cup {b}) <= Cardinality(fork) + 1
        BY <3>3, FS_AddElement
      <3>6. Cardinality(fork \cup {b}) \in Nat
        BY <3>5, FS_CardinalityType
      <3>7. /\ Cardinality(Ancestors[b] \ Ancestors[tip]) <= Cardinality(fork \cup {b})
            /\ Cardinality(Ancestors[b] \ Ancestors[tip]) \in Nat
        BY <3>4, <3>5, FS_Subset, FS_CardinalityType
      <3> HIDE DEF fork
      <3> QED
        BY <3>1, <3>3, <3>5, <3>6, <3>7, BoundAssumption DEF Near
    <2> QED
      BY <2>1, <2>2
  <1>9. \A u \in Threads : pc[u] # "step" /\ pc'[u] # "step"
    BY <1>1, TreeAssumption DEF TreeInv, LockExact, ThreadsTyped
  <1>10. TopIsNear'
    <2> SUFFICES ASSUME NEW c \in linked' \cap Stake, Top(c)'
                 PROVE  Near(c, tip)
      BY <1>1 DEF TopIsNear, Near
    <2>1. CASE c \in linked
      <3>1. ASSUME NEW d \in linked
            PROVE  ~Worse(c, d)
        <4>1. nSequenceId'[c] = nSequenceId[c] /\ nSequenceId'[d] = nSequenceId[d]
          BY <1>2, <1>3, <1>4, <2>1
        <4>2. d \in linked'
          BY <1>1
        <4> QED
          BY <4>1, <4>2 DEF Top, Worse, WorseWith
      <3> QED
        BY <1>9, <2>1, <3>1 DEF ForkInv, TopIsNear, Top
    <2>2. CASE c \notin linked
      <3>1. c = b
        BY <1>1, <1>3, <2>2 DEF ForkInv, StakeLinked
      <3> QED
        BY <1>8, <3>1
    <2> QED
      BY <2>1, <2>2
  <1>11. GoalIsNear'
    BY <1>1, <1>9 DEF ForkInv, GoalIsNear
  <1> QED
    BY <1>7, <1>10, <1>11 DEF ForkInv

(* FindMostWorkChain: the goal is the best block, and so near the tip. *)
LEMMA ForkFind ==
  ASSUME ChainInv, ChainInv', Uninterrupted', ForkInv, NEW t \in Threads, FindMostWorkChain(t)
  PROVE  ForkInv'
  <1>1. /\ UNCHANGED <<data, linked, nSequenceId, tip>> /\ pc[t] = "activate" /\ lock = None
        /\ \/ Release(t, "idle")
           \/ \E b : /\ pc' = [pc EXCEPT ![t] = "step"] /\ goal' = [goal EXCEPT ![t] = b]
                     /\ oldTip' = [oldTip EXCEPT ![t] = tip]
    BY DEF FindMostWorkChain
  <1>2. \A u \in Threads : pc[u] # "step"
    BY <1>1, TreeAssumption DEF ChainInv, TreeInv, LockExact
  <1>3. /\ pc \in [Threads -> {"idle", "activate", "step", "test", "invalidate"}]
        /\ goal \in [Threads -> Tree \cup {None}] /\ oldTip \in [Threads -> Tree \cup {None}]
        /\ \A u \in Threads : oldTip[u] = None
    BY <1>2 DEF ChainInv, TreeInv, ThreadsTyped, ForkInv, GoalIsNear
  <1>4. CASE Release(t, "idle")
    BY <1>1, <1>2, <1>3, <1>4, ForkSame DEF Release
  <1>5. CASE /\ pc' = [pc EXCEPT ![t] = "step"] /\ oldTip' = [oldTip EXCEPT ![t] = tip]
    <2>1. StakeLinked' /\ TopIsNear'
      <3>1. pc'[t] = "step"
        BY <1>3, <1>5
      <3> QED
        BY <1>1, <3>1 DEF ForkInv, StakeLinked, TopIsNear
    <2>2. goal'[t] \in linked /\ Top(goal'[t])
      <3>1. pc'[t] = "step"
        BY <1>3, <1>5
      <3>2. goal'[t] \in linked' /\ IsBest(goal[t])'
        BY <3>1 DEF ChainInv, TreeInv, LockExact, GoalBest, Uninterrupted
      <3>3. \A c \in linked : Ancestors[c] \subseteq linked
        BY LinkedClosed DEF ChainInv, TreeInv
      <3> QED
        BY <1>1, <3>2, <3>3 DEF IsBest, Top, Worse, Uninterrupted
    <2>3. goal'[t] \in Stake => Near(goal'[t], tip)
      BY <1>2, <2>2 DEF ForkInv, TopIsNear
    <2>4. GoalIsNear'
      BY <1>2, <1>3, <1>5, <2>3 DEF GoalIsNear, Near
    <2> QED
      BY <2>1, <2>4 DEF ForkInv
  <1> QED
    BY <1>1, <1>4, <1>5

(* ConnectTip: the goal stays the best, and the new tip is on its chain. *)
LEMMA ForkConnect ==
  ASSUME ChainInv, Uninterrupted, ForkInv, NEW t \in Threads, ConnectTip(t)
  PROVE  ForkInv'
  <1>1. /\ InStep(t) /\ AtFork(t) /\ tip' = NextBlock(t) /\ UNCHANGED <<data, linked, nSequenceId, goal>>
        /\ \/ pc' = [pc EXCEPT ![t] = "test"] /\ oldTip' = [oldTip EXCEPT ![t] = None]
           \/ UNCHANGED <<pc, oldTip>>
    BY DEF ConnectTip, treeVars
  <1>2. TreeInv /\ pc[t] = "step" /\ \A u \in Threads : pc[u] = "step" => u = t
    BY <1>1 DEF ChainInv, TreeInv, LockExact, InStep
  <1>3. /\ pc \in [Threads -> {"idle", "activate", "step", "test", "invalidate"}]
        /\ oldTip \in [Threads -> Tree \cup {None}]
    BY DEF ChainInv, TreeInv, ThreadsTyped
  <1>4. StakeLinked'
    BY <1>1 DEF ForkInv, StakeLinked
  <1>5. GoalIsNear'
    BY <1>1, <1>2, <1>3 DEF ForkInv, GoalIsNear, Near
  <1>6. TopIsNear'
    <2> SUFFICES ASSUME NEW b \in linked, Top(b)'
                 PROVE  tip' \in Ancestors[b]
      BY <1>1 DEF TopIsNear, Near
    <2>1. Top(b)
      BY <1>1 DEF Top, Worse
    <2>2. b = goal[t]
      BY <1>2, <2>1, GoalTop, TopUnique
    <2> QED
      BY <1>1, <1>2, <2>2, NextBlockFacts
  <1> QED
    BY <1>4, <1>5, <1>6 DEF ForkInv

(* Every step that is not an interruption. *)
LEMMA ForkNext ==
  ASSUME ChainInv, ChainInv', Uninterrupted, Uninterrupted', ForkInv, [Next]_vars
  PROVE  ForkInv'
  <1>1. /\ pc \in [Threads -> {"idle", "activate", "step", "test", "invalidate"}]
        /\ goal \in [Threads -> Tree \cup {None}] /\ oldTip \in [Threads -> Tree \cup {None}]
        /\ \A u \in Threads : pc[u] # "step" => oldTip[u] = None
    BY DEF ChainInv, TreeInv, ThreadsTyped, ForkInv, GoalIsNear
  <1>2. ASSUME UNCHANGED <<data, linked, nSequenceId, tip>>, NEW t \in Threads, pc[t] # "step",
               NEW label \in {"idle", "activate", "test", "invalidate"}, pc' = [pc EXCEPT ![t] = label],
               NEW g, goal' = [goal EXCEPT ![t] = g], oldTip' = oldTip \/ oldTip' = [oldTip EXCEPT ![t] = None]
        PROVE  ForkInv'
    <2>1. \A u \in Threads : /\ pc'[u] = "step" <=> pc[u] = "step"
                             /\ pc[u] = "step" => goal'[u] = goal[u] /\ oldTip'[u] = oldTip[u]
                             /\ pc[u] # "step" => oldTip'[u] = None
      BY <1>1, <1>2
    <2> QED
      BY <1>2, <2>1, ForkSame
  <1>3. ASSUME UNCHANGED <<data, linked, nSequenceId, tip, pc, goal, oldTip>>
        PROVE  ForkInv'
    BY <1>1, <1>3, ForkSame
  <1>4. ASSUME UNCHANGED <<data, linked, nSequenceId, tip, goal, oldTip>>, NEW t \in Threads, pc[t] # "step",
               pc' = [pc EXCEPT ![t] = "activate"]
        PROVE  ForkInv'
    <2>1. \A u \in Threads : pc'[u] = "step" <=> pc[u] = "step"
      BY <1>1, <1>4
    <2> QED
      BY <1>1, <1>4, <2>1, ForkSame
  <1>5. ASSUME NEW t \in Threads, ActivateBestChain(t)
        PROVE  ForkInv'
    <2>1. CASE FindMostWorkChain(t)
      BY <2>1, ForkFind
    <2>2. CASE DisconnectTip(t)
      <3>1. pc[t] = "step" /\ UNCHANGED <<data, linked, nSequenceId, pc, goal, oldTip>>
        BY <2>2 DEF DisconnectTip, InStep, treeVars, threadVars
      <3> QED
        BY <3>1 DEF ForkInv, StakeLinked, TopIsNear, GoalIsNear, Near
    <2>3. CASE ConnectTip(t)
      BY <2>3, ForkConnect
    <2>4. CASE ConnectInvalid(t)
      <3>1. NextBlock(t) \in linked
        BY <2>4, NextBlockFacts DEF ConnectInvalid, ChainInv
      <3>2. NextBlock(t) \in (Failed \cap linked)'
        BY <2>4, <3>1 DEF ConnectInvalid, InvalidBlockFound, Failed
      <3> QED
        BY <3>2 DEF Uninterrupted
    <2>5. CASE TestLoop(t)
      <3>1. PICK label \in {"idle", "activate", "test", "invalidate"} : pc' = [pc EXCEPT ![t] = label]
        BY <2>5 DEF TestLoop
      <3> QED
        BY <1>2, <2>5, <3>1 DEF TestLoop, treeVars
    <2> QED
      BY <1>5, <2>1, <2>2, <2>3, <2>4, <2>5 DEF ActivateBestChain
  <1>6. ASSUME NEW t \in Threads,
               StepFails(t) \/ StepFlushFails(t) \/ InvalidateFails(t) \/ CrashAndRestart(t)
        PROVE  FALSE
    <2>1. CASE StepFails(t) \/ StepFlushFails(t) \/ InvalidateFails(t)
      <3>1. gaveUp' # {}
        BY <2>1 DEF StepFails, StepFlushFails, InvalidateFails
      <3> QED
        BY <3>1 DEF Uninterrupted
    <2>2. CASE CrashAndRestart(t)
      BY <2>2 DEF CrashAndRestart, Uninterrupted
    <2> QED
      BY <1>6, <2>1, <2>2
  <1>7. ASSUME NEW t \in Threads, InvalidateTip(t)
        PROVE  FALSE
    <2>1. goal[t] \in failedValid /\ goal[t] \in Active
      BY <1>7 DEF InvalidateTip, ChainInv, TreeInv, LockExact
    <2>2. goal[t] \in linked
      BY <2>1, LinkedClosed DEF ChainInv, TreeInv, TipLinked, Active
    <2> QED
      BY <2>1, <2>2 DEF Uninterrupted, Failed
  <1>8. ASSUME NEW t \in Threads, EndInvalidate(t)
        PROVE  ForkInv'
    BY <1>2, <1>8 DEF EndInvalidate, Release, treeVars
  <1>9. ASSUME NEW t \in Threads, NEW b \in Blocks,
               \/ AcceptDuplicate(t, b) \/ AcceptInvalid(t, b) \/ AcceptRejected(t, b) \/ AcceptStored(t, b)
               \/ BeginInvalidate(t, b) \/ ReconsiderBlock(t, b) \/ ReconsiderCheckpoint(t, b)
        PROVE  ForkInv'
    <2>1. CASE AcceptStored(t, b)
      BY <2>1, ForkStored DEF ChainInv
    <2>2. CASE AcceptInvalid(t, b) \/ AcceptRejected(t, b)
      BY <1>3, <2>2 DEF AcceptInvalid, AcceptRejected, threadVars
    <2>3. CASE AcceptDuplicate(t, b) \/ ReconsiderBlock(t, b) \/ ReconsiderCheckpoint(t, b)
      BY <1>4, <2>3 DEF AcceptDuplicate, MayAccept, ReconsiderBlock, ReconsiderCheckpoint, treeVars
    <2>4. CASE BeginInvalidate(t, b)
      BY <1>2, <2>4 DEF BeginInvalidate
    <2> QED
      BY <1>9, <2>1, <2>2, <2>3, <2>4
  <1>10. CASE PeriodicFlush \/ PeriodicFlushFails \/ UNCHANGED vars
    BY <1>3, <1>10 DEF PeriodicFlush, PeriodicFlushFails, vars, treeVars, threadVars
  <1> QED
    BY <1>5, <1>6, <1>7, <1>8, <1>9, <1>10 DEF Next, InvalidateLoop

(* The limit of -maxreorg, for every tree of blocks and every number of    *)
(* threads: although AcceptBlock checks the length of a branch when a      *)
(* block arrives and ActivateBestChain uses it later, after other blocks   *)
(* and reorganisations, the active chain is not left for a longer branch   *)
(* of stake blocks, as long as no reorganisation is cut short.             *)
THEOREM ChainForkBounded ==
  NoCrashWhileInvalidating /\ RootsReconsidered => (Spec /\ []Uninterrupted => []ForkLengthBounded)
  <1> SUFFICES ASSUME NoCrashWhileInvalidating, RootsReconsidered
               PROVE  Spec /\ []Uninterrupted => []ForkLengthBounded
    OBVIOUS
  <1>1. Init => ForkInv
    <2> SUFFICES ASSUME Init PROVE ForkInv
      OBVIOUS
    <2>1. /\ data = {Genesis} /\ linked = {Genesis} /\ tip = Genesis
          /\ \A t \in Threads : pc[t] = "idle" /\ oldTip[t] = None
      BY DEF Init
    <2> QED
      BY <2>1, AncestorsGenesis DEF ForkInv, StakeLinked, TopIsNear, GoalIsNear, Near
  <1>2. ChainInv /\ ChainInv' /\ Uninterrupted /\ Uninterrupted' /\ ForkInv /\ [Next]_vars => ForkInv'
    BY ForkNext
  <1>3. ForkInv => ForkLengthBounded
    BY DEF ForkInv, GoalIsNear, Near, ForkLengthBounded
  <1>4. Spec => []ChainInv
    BY ChainInvariant
  <1> QED
    BY <1>1, <1>2, <1>3, <1>4, PTL DEF Spec

=============================================================================
