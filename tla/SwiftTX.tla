------------------------------ MODULE SwiftTX -------------------------------
(***************************************************************************)
(* SwiftTX transaction locks (swifttx.cpp): a request to lock the inputs   *)
(* of a transaction, the votes of masternodes, the locked inputs that the  *)
(* mempool and CheckBlock consult, and the clean-up that ends a lock.      *)
(*                                                                         *)
(* A message handler is one step: messages come in any order, and votes    *)
(* may precede the request.  The clock only decides when a lock has        *)
(* expired.  The rate limit of mapUnknownVotes, which only decides what is *)
(* relayed, is left out.                                                   *)
(***************************************************************************)
EXTENDS Integers, Sequences, FiniteSets

CONSTANTS
    None,           \* no transaction
    Txs,
    Outpoints,
    Vin,            \* the outpoints a transaction spends
    Masternodes,
    Heights,        \* block heights a vote may name; 0 means unknown
    LockHeight,     \* the height CreateNewLock computes for a transaction
    Required        \* SWIFTTX_SIGNATURES_REQUIRED

ASSUME VinAssumption == Vin \in [Txs -> SUBSET Outpoints] /\ None \notin Txs
ASSUME HeightAssumption == Heights \subseteq Nat \ {0} /\ LockHeight \in [Txs -> Heights]
ASSUME VoteAssumption == Required \in Nat \ {0} /\ IsFiniteSet(Masternodes)

VARIABLES
    mapTxLockReq,           \* requests known with their transaction
    hollowReq,              \* keys of mapTxLockReq with a default CTransaction
    mapTxLockReqRejected,
    mapTxLockVote,          \* <<masternode, transaction>> of every vote seen
    mapTxLocks,             \* transactions with a CTransactionLock
    nBlockHeight,           \* of each lock
    vecConsensusVotes,      \* of each lock: its votes <<masternode, height>> as they came
    expired,                \* locks whose nExpiration has passed
    mapLockedInputs,
    byConsensus,            \* history: the outpoints locked by a complete lock
    pool,                   \* the mempool
    mined                   \* transactions in the active chain

inputVars == <<mapLockedInputs, byConsensus>>
lockVars == <<mapTxLocks, nBlockHeight, vecConsensusVotes, expired>>
reqVars  == <<mapTxLockReq, hollowReq, mapTxLockReqRejected>>
vars == <<reqVars, mapTxLockVote, lockVars, inputVars, pool, mined>>

(* The masternodes that cast the votes; those that voted for height h.     *)
Voters(votes) == {votes[i][1] : i \in DOMAIN votes}
VotersFor(votes, h) == {m \in Masternodes : \E i \in DOMAIN votes : votes[i] = <<m, h>>}

Conflict(t, u) == t # u /\ Vin[t] \cap Vin[u] # {}

(* Mutant: votes for any height count. *)
Signatures_AnyHeight(t, h, votes) == Len(votes)

Signatures(t, h, votes) == Cardinality({i \in DOMAIN votes : votes[i][2] = h})

(* CTransactionLock::CountSignatures *)
CountSignatures(t, h, votes) == IF h = 0 THEN -1 ELSE Signatures(t, h, votes)

Complete(t) ==
    t \in mapTxLocks /\ CountSignatures(t, nBlockHeight[t], vecConsensusVotes[t]) >= Required

-----------------------------------------------------------------------------
Init ==
    /\ mapTxLockReq = {} /\ hollowReq = {} /\ mapTxLockReqRejected = {} /\ mapTxLockVote = {}
    /\ mapTxLocks = {} /\ expired = {}
    /\ nBlockHeight = [t \in Txs |-> 0] /\ vecConsensusVotes = [t \in Txs |-> <<>>]
    /\ mapLockedInputs = [o \in Outpoints |-> None] /\ byConsensus = {}
    /\ pool = {} /\ mined = {}

(* CreateNewLock: nothing when an input is too new. *)
CreateNewLock(t, aged) ==
    /\ mapTxLocks' = IF aged THEN mapTxLocks \cup {t} ELSE mapTxLocks
    /\ nBlockHeight' = IF aged THEN [nBlockHeight EXCEPT ![t] = LockHeight[t]] ELSE nBlockHeight
    /\ UNCHANGED vecConsensusVotes

(* DoConsensusVote: its second return is not guarded by the test above it, *)
(* so that no vote is ever made.                                           *)
DoConsensusVote(t) == UNCHANGED mapTxLockVote

(* Inputs nobody has locked are locked for t. *)
Lock(t) == [o \in Outpoints |-> IF o \in Vin[t] /\ mapLockedInputs[o] = None THEN t
                                ELSE mapLockedInputs[o]]

(* AcceptToMemoryPool does not find a conflict with a lock, the mempool or *)
(* the chain.                                                              *)
Acceptable(t) ==
    /\ t \notin pool \cup mined
    /\ \A o \in Vin[t] : mapLockedInputs[o] \in {None, t}
    /\ \A u \in pool \cup mined : ~Conflict(t, u)

(* An "ix" message is processed once. *)
NewRequest(t) == t \notin mapTxLockReq \cup hollowReq \cup mapTxLockReqRejected

AcceptRequest(t) ==
    /\ NewRequest(t) /\ Acceptable(t)
    /\ \E aged \in BOOLEAN : CreateNewLock(t, aged)
    /\ pool' = pool \cup {t}
    /\ mapTxLockReq' = mapTxLockReq \cup {t}
    /\ DoConsensusVote(t)
    /\ UNCHANGED <<hollowReq, mapTxLockReqRejected, expired, inputVars, mined>>

(* CheckForConflictingLocks: the other owners of t's inputs; t and one of  *)
(* them are made to expire.                                                *)
Conflicting(vin, t, locked) == {locked[o] : o \in vin} \ {None, t}

(* CheckBlock refuses a block with transaction t when an input of t is     *)
(* locked for another transaction.                                         *)
Filtered(t, locked) == \E o \in Vin[t] : locked[o] \notin {None, t}

(* ReprocessBlocks(15): the recent blocks are disconnected and connected   *)
(* again, up to one that the locks now forbid; the transactions of those   *)
(* above it go back to the mempool.                                        *)
ReprocessBlocks(locked) ==
    \E recent \in SUBSET mined :
        LET bad == {u \in recent : Filtered(u, locked)} IN
        \E gone \in SUBSET recent :
            /\ bad \subseteq gone /\ (bad = {} => gone = {})
            /\ mined' = mined \ gone
            /\ pool' = pool \cup (gone \ bad)

RejectRequest(t) ==
    /\ NewRequest(t)
    /\ \E aged \in BOOLEAN : CreateNewLock(t, aged)
    /\ mapTxLockReqRejected' = mapTxLockReqRejected \cup {t}
    /\ mapLockedInputs' = Lock(t)
    /\ LET others == Conflicting(Vin[t], t, Lock(t))
           complete == t \in mapTxLocks'
                       /\ CountSignatures(t, nBlockHeight'[t], vecConsensusVotes[t]) >= Required
       IN  \/ /\ complete /\ others = {}
              /\ ReprocessBlocks(Lock(t))
              /\ mapTxLockReq' = mapTxLockReq \cup {t}
              /\ byConsensus' = byConsensus \cup Vin[t]
              /\ expired' = expired
           \/ /\ complete
              /\ \E u \in others : expired' = expired \cup ({t, u} \cap mapTxLocks')
              /\ UNCHANGED <<mapTxLockReq, byConsensus, pool, mined>>
           \/ /\ ~complete
              /\ UNCHANGED <<mapTxLockReq, byConsensus, expired, pool, mined>>
    /\ UNCHANGED <<hollowReq, mapTxLockVote>>

(* The wallet, or sendrawtransaction, asks for a lock of its own           *)
(* transaction, which may then not get into the mempool.                   *)
LocalRequest(t) ==
    /\ t \notin pool \cup mined
    /\ mapTxLockReq' = IF t \in hollowReq THEN mapTxLockReq ELSE mapTxLockReq \cup {t}
    /\ \E aged \in BOOLEAN : CreateNewLock(t, aged)
    /\ pool' \in {pool} \cup (IF Acceptable(t) THEN {pool \cup {t}} ELSE {})
    /\ UNCHANGED <<hollowReq, mapTxLockReqRejected, mapTxLockVote, expired, inputVars, mined>>

-----------------------------------------------------------------------------
(* Mutant: a vote that was seen before is processed again. *)
NewVote_Always(m, t) == TRUE

(* A vote is processed once, whatever height it names. *)
NewVote(m, t) == <<m, t>> \notin mapTxLockVote

(* A vote of an unknown or low-ranked masternode, or with a bad signature, *)
(* is remembered all the same.                                             *)
DropVote(m, t) ==
    /\ NewVote(m, t)
    /\ mapTxLockVote' = mapTxLockVote \cup {<<m, t>>}
    /\ UNCHANGED <<reqVars, lockVars, inputVars, pool, mined>>

(* ProcessConsensusVote.  A complete lock whose transaction is not in      *)
(* mapTxLockReq gets a default one there, which has no inputs.             *)
CountVote(m, t, h) ==
    LET votes == [vecConsensusVotes EXCEPT ![t] = Append(@, <<m, h>>)]
        complete == CountSignatures(t, nBlockHeight[t], votes[t]) >= Required
        vin == IF t \in mapTxLockReq THEN Vin[t] ELSE {}
        others == Conflicting(vin, t, mapLockedInputs)
    IN  /\ NewVote(m, t)
        /\ mapTxLockVote' = mapTxLockVote \cup {<<m, t>>}
        /\ mapTxLocks' = mapTxLocks \cup {t}
        /\ vecConsensusVotes' = votes
        /\ hollowReq' = IF complete /\ t \notin mapTxLockReq THEN hollowReq \cup {t} ELSE hollowReq
        /\ \/ /\ complete /\ others = {}
              /\ mapLockedInputs' = IF t \in mapTxLockReq THEN Lock(t) ELSE mapLockedInputs
              /\ byConsensus' = byConsensus \cup vin
              /\ IF t \in mapTxLockReqRejected THEN ReprocessBlocks(mapLockedInputs')
                 ELSE UNCHANGED <<pool, mined>>
              /\ expired' = expired
           \/ /\ complete
              /\ \E u \in others : expired' = expired \cup ({t, u} \cap mapTxLocks')
              /\ UNCHANGED <<inputVars, pool, mined>>
           \/ /\ ~complete
              /\ UNCHANGED <<expired, inputVars, pool, mined>>
        /\ UNCHANGED <<nBlockHeight, mapTxLockReq, mapTxLockReqRejected>>

-----------------------------------------------------------------------------
(* An hour passes for a lock. *)
Expire(t) ==
    /\ t \in mapTxLocks \ expired
    /\ expired' = expired \cup {t}
    /\ UNCHANGED <<reqVars, mapTxLockVote, mapTxLocks, nBlockHeight, vecConsensusVotes,
                   inputVars, pool, mined>>

(* Mutant: the inputs stay locked. *)
Unlocked_None(gone) == {}

(* The inputs CleanTransactionLocksList frees, whoever has locked them. *)
Unlocked(gone) == UNION {Vin[t] : t \in gone \cap mapTxLockReq}

(* Mutant: every request is dropped, its lock expired or not. *)
KnownRequests_All(gone) == mapTxLockReq \cup hollowReq

(* The requests that are dropped with their locks. *)
KnownRequests(gone) == gone \cap (mapTxLockReq \cup hollowReq)

CleanTransactionLocksList ==
    LET gone == expired
        known == KnownRequests(gone)
    IN  /\ gone # {}
        /\ mapLockedInputs' = [o \in Outpoints |-> IF o \in Unlocked(gone) THEN None
                                                   ELSE mapLockedInputs[o]]
        /\ byConsensus' = byConsensus \ Unlocked(gone)
        /\ mapTxLockReq' = mapTxLockReq \ known
        /\ hollowReq' = hollowReq \ known
        /\ mapTxLockReqRejected' = mapTxLockReqRejected \ known
        /\ mapTxLockVote' = {v \in mapTxLockVote :
                                v[2] \in known => v[1] \notin Voters(vecConsensusVotes[v[2]])}
        /\ mapTxLocks' = mapTxLocks \ gone
        /\ nBlockHeight' = [t \in Txs |-> IF t \in gone THEN 0 ELSE nBlockHeight[t]]
        /\ vecConsensusVotes' = [t \in Txs |-> IF t \in gone THEN <<>> ELSE vecConsensusVotes[t]]
        /\ expired' = {}
        /\ UNCHANGED <<pool, mined>>

-----------------------------------------------------------------------------
(* An ordinary "tx" message. *)
AcceptTx(t) ==
    /\ Acceptable(t)
    /\ pool' = pool \cup {t}
    /\ UNCHANGED <<reqVars, mapTxLockVote, lockVars, inputVars, mined>>

(* A block with transaction t is connected. *)
Block(t) ==
    /\ t \notin mined /\ \A u \in mined : ~Conflict(t, u)
    /\ ~Filtered(t, mapLockedInputs)
    /\ mined' = mined \cup {t}
    /\ pool' = {u \in pool : u # t /\ ~Conflict(t, u)}
    /\ UNCHANGED <<reqVars, mapTxLockVote, lockVars, inputVars>>

Next ==
    \/ \E t \in Txs : AcceptRequest(t) \/ RejectRequest(t) \/ LocalRequest(t) \/ AcceptTx(t)
                      \/ Block(t) \/ Expire(t)
    \/ \E m \in Masternodes, t \in Txs : DropVote(m, t) \/ \E h \in Heights : CountVote(m, t, h)
    \/ CleanTransactionLocksList

(* Time passes, and ThreadCheckMasternodes cleans up every minute. *)
Fairness == WF_vars(CleanTransactionLocksList) /\ \A t \in Txs : WF_vars(Expire(t))

Spec == Init /\ [][Next]_vars /\ Fairness

-----------------------------------------------------------------------------
(* What the maps may hold; a lock has no more votes than there are         *)
(* masternodes.                                                            *)
TypeOK ==
    /\ mapTxLockReq \subseteq Txs /\ hollowReq \subseteq Txs /\ mapTxLockReqRejected \subseteq Txs
    /\ mapTxLockVote \subseteq Masternodes \X Txs
    /\ mapTxLocks \subseteq Txs /\ expired \subseteq mapTxLocks
    /\ nBlockHeight \in [Txs -> Heights \cup {0}]
    /\ vecConsensusVotes \in [Txs -> Seq(Masternodes \X Heights)]
    /\ \A t \in Txs : Len(vecConsensusVotes[t]) <= Cardinality(Masternodes)
    /\ mapLockedInputs \in [Outpoints -> Txs \cup {None}]
    /\ pool \subseteq Txs /\ mined \subseteq Txs

(* A lock is complete only with the votes of enough different masternodes  *)
(* for the height of the lock, however votes and requests arrive, are      *)
(* repeated or expire.                                                     *)
QuorumIsDistinct ==
    \A t \in Txs : Complete(t) =>
        Cardinality(VotersFor(vecConsensusVotes[t], nBlockHeight[t])) >= Required

(* An input that a complete lock has locked belongs to a lock and to a     *)
(* request that CleanTransactionLocksList will find when the hour is over, *)
(* whatever conflicting requests and votes do in between.                  *)
ConsensusLocksExpire ==
    \A o \in byConsensus : mapLockedInputs[o] \in mapTxLocks \cap mapTxLockReq

(* Such an input is freed in the end. *)
ConsensusLocksReleased == \A o \in Outpoints : o \in byConsensus ~> mapLockedInputs[o] = None
=============================================================================
