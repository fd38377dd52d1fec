--------------------------- MODULE SwiftTXProofs ---------------------------
(***************************************************************************)
(* Proofs about SwiftTX: the safety invariants of the run "swift", for     *)
(* every set of transactions, outpoints, masternodes and heights and every *)
(* number of signatures required.                                          *)
(***************************************************************************)
EXTENDS SwiftTX, TLAPS, FiniteSetTheorems

(* What TypeOK says but for the bound on the number of votes, which needs  *)
(* VotesOnce.                                                              *)
MapsTyped ==
    /\ mapTxLockReq \subseteq Txs /\ hollowReq \subseteq Txs /\ mapTxLockReqRejected \subseteq Txs
    /\ mapTxLockVote \subseteq Masternodes \X Txs
    /\ mapTxLocks \subseteq Txs /\ expired \subseteq mapTxLocks
    /\ nBlockHeight \in [Txs -> Heights \cup {0}]
    /\ vecConsensusVotes \in [Txs -> Seq(Masternodes \X Heights)]
    /\ mapLockedInputs \in [Outpoints -> Txs \cup {None}]
    /\ pool \subseteq Txs /\ mined \subseteq Txs

(* A vote of a lock has been seen, which keeps the masternode from being   *)
(* counted again, and no masternode has two votes in a lock.               *)
VotesOnce ==
    \A t \in Txs : \A i \in DOMAIN vecConsensusVotes[t] :
        /\ <<vecConsensusVotes[t][i][1], t>> \in mapTxLockVote
        /\ \A j \in DOMAIN vecConsensusVotes[t] :
              vecConsensusVotes[t][i][1] = vecConsensusVotes[t][j][1] => i = j

(* An input is locked only for a transaction that spends it. *)
OwnersSpend == \A o \in Outpoints : mapLockedInputs[o] # None => o \in Vin[mapLockedInputs[o]]

(* The inductive invariant. *)
Inv ==
    /\ MapsTyped /\ VotesOnce
    /\ byConsensus \subseteq Outpoints /\ OwnersSpend /\ ConsensusLocksExpire

-----------------------------------------------------------------------------
(* The initial state satisfies the invariant. *)
LEMMA InitInv == Init => Inv
  BY VinAssumption DEF Init, Inv, MapsTyped, VotesOnce, OwnersSpend, ConsensusLocksExpire

(* Locking inputs for a transaction keeps the map of locked inputs typed,  *)
(* leaves the inputs that have an owner alone, and gives an input only to  *)
(* a transaction that spends it.                                           *)
LEMMA LockKeepsOwners ==
  ASSUME MapsTyped, NEW t \in Txs
  PROVE  /\ Lock(t) \in [Outpoints -> Txs \cup {None}]
         /\ \A o \in Outpoints : mapLockedInputs[o] # None => Lock(t)[o] = mapLockedInputs[o]
         /\ \A o \in Outpoints : mapLockedInputs[o] = None /\ Lock(t)[o] # None
                                   => Lock(t)[o] = t /\ o \in Vin[t]
         /\ \A o \in Vin[t] : Lock(t)[o] # None
         /\ OwnersSpend => \A o \in Outpoints : Lock(t)[o] # None => o \in Vin[Lock(t)[o]]
  BY VinAssumption DEF MapsTyped, Lock, OwnersSpend

(* Blocks that are disconnected and connected again move transactions      *)
(* between chain and mempool only.                                         *)
LEMMA ReprocessTyped ==
  ASSUME MapsTyped, NEW locked, ReprocessBlocks(locked)
  PROVE  pool' \subseteq Txs /\ mined' \subseteq Txs
  BY DEF MapsTyped, ReprocessBlocks

(* Every step keeps the maps typed. *)
LEMMA TypedStep == MapsTyped /\ [Next]_vars => MapsTyped'
  <1> SUFFICES ASSUME MapsTyped, [Next]_vars PROVE MapsTyped'
    OBVIOUS
  <1> USE VinAssumption, HeightAssumption
  <1>1. ASSUME NEW t \in Txs, NEW aged \in BOOLEAN, CreateNewLock(t, aged)
        PROVE  /\ mapTxLocks' \subseteq Txs /\ mapTxLocks \subseteq mapTxLocks'
               /\ nBlockHeight' \in [Txs -> Heights \cup {0}]
               /\ vecConsensusVotes' \in [Txs -> Seq(Masternodes \X Heights)]
    BY <1>1 DEF CreateNewLock, MapsTyped
  <1>2. ASSUME NEW t \in Txs, AcceptRequest(t) PROVE MapsTyped'
    BY <1>1, <1>2 DEF AcceptRequest, DoConsensusVote, inputVars, MapsTyped
  <1>3. ASSUME NEW t \in Txs, RejectRequest(t) PROVE MapsTyped'
    <2>1. /\ mapTxLocks' \subseteq Txs /\ mapTxLocks \subseteq mapTxLocks'
          /\ nBlockHeight' \in [Txs -> Heights \cup {0}]
          /\ vecConsensusVotes' \in [Txs -> Seq(Masternodes \X Heights)]
      BY <1>1, <1>3 DEF RejectRequest
    <2>2. mapTxLockReq' \subseteq Txs /\ hollowReq' \subseteq Txs /\ mapTxLockReqRejected' \subseteq Txs
      BY <1>3 DEF RejectRequest, MapsTyped
    <2>3. expired' \subseteq mapTxLocks'
      BY <1>3, <2>1 DEF RejectRequest, MapsTyped
    <2>4. pool' \subseteq Txs /\ mined' \subseteq Txs
      BY <1>3, ReprocessTyped DEF RejectRequest, MapsTyped
    <2>5. mapLockedInputs' \in [Outpoints -> Txs \cup {None}]
      BY <1>3, LockKeepsOwners DEF RejectRequest
    <2>6. mapTxLockVote' \subseteq Masternodes \X Txs
      BY <1>3 DEF RejectRequest, MapsTyped
    <2> QED
      BY <2>1, <2>2, <2>3, <2>4, <2>5, <2>6 DEF MapsTyped
  <1>4. ASSUME NEW t \in Txs, LocalRequest(t) PROVE MapsTyped'
    BY <1>1, <1>4 DEF LocalRequest, inputVars, MapsTyped
  <1>5. ASSUME NEW t \in Txs, AcceptTx(t) \/ Block(t) \/ Expire(t) PROVE MapsTyped'
    BY <1>5 DEF AcceptTx, Block, Expire, reqVars, lockVars, inputVars, MapsTyped
  <1>6. ASSUME NEW m \in Masternodes, NEW t \in Txs, DropVote(m, t) PROVE MapsTyped'
    BY <1>6 DEF DropVote, reqVars, lockVars, inputVars, MapsTyped
  <1>7. ASSUME NEW m \in Masternodes, NEW t \in Txs, NEW h \in Heights, CountVote(m, t, h)
        PROVE  MapsTyped'
    <2>1. /\ mapTxLockReq' \subseteq Txs /\ hollowReq' \subseteq Txs /\ mapTxLockReqRejected' \subseteq Txs
          /\ mapTxLockVote' \subseteq Masternodes \X Txs
          /\ mapTxLocks' \subseteq Txs
          /\ nBlockHeight' \in [Txs -> Heights \cup {0}]
      BY <1>7 DEF CountVote, MapsTyped
    <2>2. vecConsensusVotes' \in [Txs -> Seq(Masternodes \X Heights)]
      <3>1. vecConsensusVotes' = [vecConsensusVotes EXCEPT ![t] = Append(@, <<m, h>>)]
        BY <1>7 DEF CountVote
      <3>2. Append(vecConsensusVotes[t], <<m, h>>) \in Seq(Masternodes \X Heights)
        BY DEF MapsTyped
      <3> QED
        BY <3>1, <3>2 DEF MapsTyped
    <2>3. expired' \subseteq mapTxLocks'
      BY <1>7 DEF CountVote, MapsTyped
    <2>4. pool' \subseteq Txs /\ mined' \subseteq Txs
      BY <1>7, ReprocessTyped DEF CountVote, MapsTyped
    <2>5. mapLockedInputs' \in [Outpoints -> Txs \cup {None}]
      BY <1>7, LockKeepsOwners DEF CountVote, inputVars, MapsTyped
    <2> QED
      BY <2>1, <2>2, <2>3, <2>4, <2>5 DEF MapsTyped
  <1>8. CASE CleanTransactionLocksList
    BY <1>8 DEF CleanTransactionLocksList, MapsTyped
  <1>9. CASE UNCHANGED vars
    BY <1>9 DEF vars, reqVars, lockVars, inputVars, MapsTyped
  <1> QED
    BY <1>2, <1>3, <1>4, <1>5, <1>6, <1>7, <1>8, <1>9 DEF Next

(* A step that leaves votes and locks alone keeps VotesOnce. *)
LEMMA VotesUntouched ==
  ASSUME VotesOnce, UNCHANGED vecConsensusVotes, mapTxLockVote \subseteq mapTxLockVote'
  PROVE  VotesOnce'
  BY DEF VotesOnce

(* The clean-up forgets that a vote was seen only with the lock that       *)
(* counts it, and every other step processes a vote once.                  *)
LEMMA VotesStep == MapsTyped /\ VotesOnce /\ [Next]_vars => VotesOnce'
  <1> SUFFICES ASSUME MapsTyped, VotesOnce, [Next]_vars PROVE VotesOnce'
    OBVIOUS
  <1>1. ASSUME NEW t \in Txs,
               AcceptRequest(t) \/ RejectRequest(t) \/ LocalRequest(t) \/ AcceptTx(t)
               \/ Block(t) \/ Expire(t)
        PROVE  VotesOnce'
    BY <1>1, VotesUntouched DEF AcceptRequest, RejectRequest, LocalRequest, AcceptTx, Block, Expire,
                                CreateNewLock, DoConsensusVote, lockVars
  <1>2. ASSUME NEW m \in Masternodes, NEW t \in Txs, DropVote(m, t) PROVE VotesOnce'
    BY <1>2, VotesUntouched DEF DropVote, lockVars
  <1>3. ASSUME NEW m \in Masternodes, NEW t \in Txs, NEW h \in Heights, CountVote(m, t, h)
        PROVE  VotesOnce'
    <2>1. /\ vecConsensusVotes' = [vecConsensusVotes EXCEPT ![t] = Append(@, <<m, h>>)]
          /\ mapTxLockVote' = mapTxLockVote \cup {<<m, t>>}
          /\ <<m, t>> \notin mapTxLockVote
      BY <1>3 DEF CountVote, NewVote
    <2> DEFINE old == vecConsensusVotes[t]
    <2>2. old \in Seq(Masternodes \X Heights)
      BY DEF MapsTyped
    <2>3. vecConsensusVotes'[t] = Append(old, <<m, h>>)
      BY <2>1 DEF MapsTyped
    <2>4. \A i \in DOMAIN old : /\ <<old[i][1], t>> \in mapTxLockVote
                                /\ old[i][1] # m
                                /\ \A j \in DOMAIN old : old[i][1] = old[j][1] => i = j
      BY <2>1 DEF VotesOnce
    <2>5. \A i \in DOMAIN vecConsensusVotes'[t] :
             \/ i \in DOMAIN old /\ vecConsensusVotes'[t][i] = old[i]
             \/ i = Len(old) + 1 /\ vecConsensusVotes'[t][i] = <<m, h>>
      BY <2>2, <2>3
    <2>6. ASSUME NEW i \in DOMAIN vecConsensusVotes'[t] PROVE
            /\ <<vecConsensusVotes'[t][i][1], t>> \in mapTxLockVote'
            /\ \A j \in DOMAIN vecConsensusVotes'[t] :
                  vecConsensusVotes'[t][i][1] = vecConsensusVotes'[t][j][1] => i = j
      <3> HIDE DEF old
      <3> QED
        BY <2>1, <2>4, <2>5, <2>6
    <2>7. ASSUME NEW u \in Txs \ {t} PROVE vecConsensusVotes'[u] = vecConsensusVotes[u]
      BY <2>1 DEF MapsTyped
    <2> QED
      BY <2>1, <2>6, <2>7 DEF VotesOnce
  <1>4. CASE CleanTransactionLocksList
    <2>1. ASSUME NEW t \in Txs
          PROVE  \/ vecConsensusVotes'[t] = <<>>
                 \/ t \notin expired /\ vecConsensusVotes'[t] = vecConsensusVotes[t]
      BY <1>4 DEF CleanTransactionLocksList
    <2>2. ASSUME NEW v \in mapTxLockVote, v[2] \notin expired PROVE v \in mapTxLockVote'
      BY <1>4, <2>2 DEF CleanTransactionLocksList, KnownRequests
    <2>3. ASSUME NEW t \in Txs, NEW i \in DOMAIN vecConsensusVotes'[t]
          PROVE  /\ <<vecConsensusVotes'[t][i][1], t>> \in mapTxLockVote'
                 /\ \A j \in DOMAIN vecConsensusVotes'[t] :
                       vecConsensusVotes'[t][i][1] = vecConsensusVotes'[t][j][1] => i = j
      <3>1. t \notin expired /\ vecConsensusVotes'[t] = vecConsensusVotes[t]
        BY <2>1, <2>3
      <3>2. <<vecConsensusVotes[t][i][1], t>> \in mapTxLockVote
        BY <2>3, <3>1 DEF VotesOnce
      <3> QED
        BY <2>2, <2>3, <3>1, <3>2 DEF VotesOnce
    <2> QED
      BY <2>3 DEF VotesOnce
  <1>5. CASE UNCHANGED vars
    BY <1>5, VotesUntouched DEF vars, lockVars
  <1> QED
    BY <1>1, <1>2, <1>3, <1>4, <1>5 DEF Next

-----------------------------------------------------------------------------
(* A step that frees no input and forgets no lock and no request keeps     *)
(* what is said about the owners of inputs.                                *)
LEMMA OwnersUntouched ==
  ASSUME OwnersSpend, ConsensusLocksExpire, UNCHANGED inputVars,
         mapTxLocks \subseteq mapTxLocks', mapTxLockReq \subseteq mapTxLockReq'
  PROVE  OwnersSpend' /\ ConsensusLocksExpire'
  BY DEF OwnersSpend, ConsensusLocksExpire, inputVars

(* Locking the inputs of t, by a rejected request or a vote.  When no      *)
(* other transaction owns one of them, the inputs locked by consensus may  *)
(* come to include them.                                                   *)
LEMMA LockingKeepsOwners ==
  ASSUME MapsTyped, byConsensus \subseteq Outpoints, OwnersSpend, ConsensusLocksExpire,
         NEW t \in Txs,
         mapLockedInputs' = Lock(t),
         mapTxLocks \subseteq mapTxLocks', mapTxLockReq \subseteq mapTxLockReq',
         \/ byConsensus' = byConsensus
         \/ /\ byConsensus' = byConsensus \cup Vin[t] /\ Conflicting(Vin[t], t, Lock(t)) = {}
            /\ t \in mapTxLocks' \cap mapTxLockReq'
  PROVE  byConsensus' \subseteq Outpoints /\ OwnersSpend' /\ ConsensusLocksExpire'
  <1> USE VinAssumption
  <1>1. OwnersSpend'
    BY LockKeepsOwners DEF OwnersSpend
  <1>2. ASSUME NEW o \in byConsensus PROVE Lock(t)[o] \in mapTxLocks' \cap mapTxLockReq'
    BY LockKeepsOwners DEF ConsensusLocksExpire, MapsTyped
  <1>3. ASSUME NEW o \in Vin[t], Conflicting(Vin[t], t, Lock(t)) = {} PROVE Lock(t)[o] = t
    <2>1. Lock(t)[o] # None
      BY LockKeepsOwners
    <2> HIDE DEF Lock
    <2> QED
      BY <1>3, <2>1 DEF Conflicting
  <1> QED
    BY <1>1, <1>2, <1>3 DEF ConsensusLocksExpire

(* Every step keeps what is said about the owners of inputs. *)
LEMMA OwnersStep ==
  ASSUME MapsTyped, byConsensus \subseteq Outpoints, OwnersSpend, ConsensusLocksExpire, [Next]_vars
  PROVE  byConsensus' \subseteq Outpoints /\ OwnersSpend' /\ ConsensusLocksExpire'
  <1> USE VinAssumption
  <1>1. ASSUME NEW t \in Txs, AcceptRequest(t) \/ LocalRequest(t) \/ AcceptTx(t) \/ Block(t) \/ Expire(t)
        PROVE  /\ UNCHANGED inputVars
               /\ mapTxLocks \subseteq mapTxLocks' /\ mapTxLockReq \subseteq mapTxLockReq'
    BY <1>1 DEF AcceptRequest, LocalRequest, AcceptTx, Block, Expire, CreateNewLock, reqVars, lockVars
  <1>2. ASSUME NEW t \in Txs, RejectRequest(t)
        PROVE  byConsensus' \subseteq Outpoints /\ OwnersSpend' /\ ConsensusLocksExpire'
    <2>1. /\ mapLockedInputs' = Lock(t)
          /\ mapTxLocks \subseteq mapTxLocks' /\ mapTxLockReq \subseteq mapTxLockReq'
      BY <1>2 DEF RejectRequest, CreateNewLock
    <2>2. \/ byConsensus' = byConsensus
          \/ /\ byConsensus' = byConsensus \cup Vin[t] /\ Conflicting(Vin[t], t, Lock(t)) = {}
             /\ t \in mapTxLocks' \cap mapTxLockReq'
      BY <1>2 DEF RejectRequest
    <2> QED
      BY <2>1, <2>2, LockingKeepsOwners
  <1>3. ASSUME NEW m \in Masternodes, NEW t \in Txs, DropVote(m, t)
        PROVE  /\ UNCHANGED inputVars
               /\ mapTxLocks \subseteq mapTxLocks' /\ mapTxLockReq \subseteq mapTxLockReq'
    BY <1>3 DEF DropVote, reqVars, lockVars
  <1>4. ASSUME NEW m \in Masternodes, NEW t \in Txs, NEW h \in Heights, CountVote(m, t, h)
        PROVE  byConsensus' \subseteq Outpoints /\ OwnersSpend' /\ ConsensusLocksExpire'
    <2>1. /\ mapTxLocks \subseteq mapTxLocks' /\ t \in mapTxLocks' /\ mapTxLockReq' = mapTxLockReq
      BY <1>4 DEF CountVote
    <2>2. \/ UNCHANGED inputVars
          \/ /\ t \in mapTxLockReq /\ Conflicting(Vin[t], t, mapLockedInputs) = {}
             /\ mapLockedInputs' = Lock(t) /\ byConsensus' = byConsensus \cup Vin[t]
      BY <1>4 DEF CountVote, inputVars
    <2>3. ASSUME Conflicting(Vin[t], t, mapLockedInputs) = {} PROVE Conflicting(Vin[t], t, Lock(t)) = {}
      BY <2>3 DEF Conflicting, Lock
    <2> QED
      BY <2>1, <2>2, <2>3, OwnersUntouched, LockingKeepsOwners DEF inputVars
  <1>5. ASSUME CleanTransactionLocksList
        PROVE  byConsensus' \subseteq Outpoints /\ OwnersSpend' /\ ConsensusLocksExpire'
    <2>1. \A o \in Outpoints : mapLockedInputs'[o] = IF o \in Unlocked(expired) THEN None ELSE mapLockedInputs[o]
      BY <1>5 DEF CleanTransactionLocksList
    <2>2. ASSUME NEW o \in byConsensus' PROVE mapLockedInputs'[o] \in mapTxLocks' \cap mapTxLockReq'
      <3> DEFINE u == mapLockedInputs[o]
      <3>1. o \in byConsensus /\ o \notin Unlocked(expired)
        BY <1>5 DEF CleanTransactionLocksList
      <3>2. mapLockedInputs'[o] = u /\ u \in mapTxLocks \cap mapTxLockReq /\ u \in Txs
        BY <2>1, <3>1 DEF ConsensusLocksExpire, MapsTyped
      <3>3. o \in Vin[u]
        BY <3>1, <3>2 DEF OwnersSpend
      <3>4. u \notin expired
        BY <3>1, <3>2, <3>3 DEF Unlocked
      <3> QED
        BY <1>5, <3>2, <3>4 DEF CleanTransactionLocksList, KnownRequests
    <2>3. OwnersSpend'
      BY <2>1 DEF OwnersSpend
    <2> QED
      BY <1>5, <2>2, <2>3 DEF CleanTransactionLocksList, ConsensusLocksExpire
  <1>6. CASE UNCHANGED vars
    BY <1>6 DEF vars, reqVars, lockVars, inputVars, OwnersSpend, ConsensusLocksExpire
  <1> QED
    BY <1>1, <1>2, <1>3, <1>4, <1>5, <1>6, OwnersUntouched DEF Next, inputVars

-----------------------------------------------------------------------------
(* The inductive invariant holds in every reachable state. *)
THEOREM SwiftInvariant == Spec => []Inv
  <1>1. Inv /\ [Next]_vars => Inv'
    BY TypedStep, VotesStep, OwnersStep DEF Inv
  <1> QED
    BY InitInv, <1>1, PTL DEF Spec

(* The votes of a lock come from different masternodes, hence a lock has   *)
(* no more votes than there are masternodes, and as many masternodes voted *)
(* for a height as CountSignatures counts votes for it.                    *)
LEMMA DistinctVoters ==
  ASSUME MapsTyped, VotesOnce, NEW t \in Txs, NEW h \in Heights
  PROVE  /\ Len(vecConsensusVotes[t]) <= Cardinality(Masternodes)
         /\ Signatures(t, h, vecConsensusVotes[t]) \in Nat
         /\ Cardinality(VotersFor(vecConsensusVotes[t], h)) >= Signatures(t, h, vecConsensusVotes[t])
  <1> DEFINE votes == vecConsensusVotes[t]
             n == Len(votes)
             S == {i \in DOMAIN votes : votes[i][2] = h}
             f == [i \in 1..n |-> votes[i][1]]
             g == [i \in S |-> votes[i][1]]
  <1>1. votes \in Seq(Masternodes \X Heights) /\ DOMAIN votes = 1..n /\ n \in Nat
    BY DEF MapsTyped
  <1>0. \A i \in 1..n : /\ votes[i][1] \in Masternodes /\ votes[i] = <<votes[i][1], votes[i][2]>>
                        /\ \A j \in 1..n : votes[i][1] = votes[j][1] => i = j
    <2>1. \A i \in 1..n : votes[i] \in Masternodes \X Heights
      BY <1>1
    <2>2. \A i, j \in 1..n : votes[i][1] = votes[j][1] => i = j
      BY <1>1 DEF VotesOnce
    <2> QED
      BY <2>1, <2>2
  <1> HIDE DEF votes, n
  <1>2. f \in Injection(1..n, Masternodes)
    <2>1. f \in [1..n -> Masternodes]
      BY <1>0
    <2>2. \A a, b \in DOMAIN f : f[a] = f[b] => a = b
      BY <1>0
    <2> QED
      BY <2>1, <2>2 DEF Injection, IsInjective
  <1>3. Cardinality(1..n) = n
    BY <1>1, FS_Interval
  <1>4. n <= Cardinality(Masternodes)
    BY <1>2, <1>3, FS_Injection, VoteAssumption
  <1>5. g \in Injection(S, VotersFor(votes, h))
    <2>1. g \in [S -> VotersFor(votes, h)]
      BY <1>0, <1>1 DEF VotersFor
    <2>2. \A a, b \in DOMAIN g : g[a] = g[b] => a = b
      BY <1>0, <1>1
    <2> QED
      BY <2>1, <2>2 DEF Injection, IsInjective
  <1>6. IsFiniteSet(VotersFor(votes, h))
    BY FS_Subset, VoteAssumption DEF VotersFor
  <1>7. Cardinality(S) <= Cardinality(VotersFor(votes, h))
    BY <1>5, <1>6, FS_Injection
  <1>8. Cardinality(S) \in Nat /\ Cardinality(VotersFor(votes, h)) \in Nat
    BY <1>5, <1>6, FS_Injection, FS_CardinalityType
  <1> QED
    BY <1>4, <1>7, <1>8 DEF Signatures, votes, n

(* The maps of swifttx.cpp stay well typed, and no lock collects more      *)
(* votes than there are masternodes.                                       *)
THEOREM SwiftTypeOK == Spec => []TypeOK
  <1>1. Inv => TypeOK
    <2> SUFFICES ASSUME Inv PROVE TypeOK
      OBVIOUS
    <2>1. \A t \in Txs : Len(vecConsensusVotes[t]) <= Cardinality(Masternodes)
      BY DistinctVoters, HeightAssumption DEF Inv
    <2> QED
      BY <2>1 DEF Inv, MapsTyped, TypeOK
  <1> QED
    BY SwiftInvariant, <1>1, PTL

(* A complete lock has the votes of Required different masternodes for its *)
(* height, however votes and requests arrive, are repeated or expire.      *)
THEOREM SwiftQuorumIsDistinct == Spec => []QuorumIsDistinct
  <1>1. Inv => QuorumIsDistinct
    <2> SUFFICES ASSUME Inv, NEW t \in Txs, Complete(t)
                 PROVE  Cardinality(VotersFor(vecConsensusVotes[t], nBlockHeight[t])) >= Required
      BY DEF QuorumIsDistinct
    <2>1. nBlockHeight[t] \in Heights
      BY VoteAssumption DEF Complete, CountSignatures, Inv, MapsTyped
    <2>2. Signatures(t, nBlockHeight[t], vecConsensusVotes[t]) >= Required
      BY <2>1, HeightAssumption DEF Complete, CountSignatures
    <2>3. Cardinality(VotersFor(vecConsensusVotes[t], nBlockHeight[t])) \in Nat
      BY FS_Subset, FS_CardinalityType, VoteAssumption DEF VotersFor
    <2> QED
      BY <2>1, <2>2, <2>3, DistinctVoters, VoteAssumption DEF Inv
  <1> QED
    BY SwiftInvariant, <1>1, PTL

(* An input locked by a complete lock has an owner that has a lock and a   *)
(* request, so that CleanTransactionLocksList finds it when it expires.    *)
THEOREM SwiftConsensusLocksExpire == Spec => []ConsensusLocksExpire
  BY SwiftInvariant, PTL DEF Inv
=============================================================================
