------------------------- MODULE MasternodePayments -------------------------
(***************************************************************************)
(* CMasternodePayments (masternode-payments.cpp): the votes of the         *)
(* masternodes for the payee of a coming block, the tally per height that  *)
(* decides which block is refused, and the cache file mnpayments.dat.      *)
(*                                                                         *)
(* A vote is stored in three steps that other threads may interleave: the  *)
(* checks of the handler, the insertion under the two locks, and the count *)
(* after the locks are released.  The message handler ("net") stores votes *)
(* of peers and, like any thread that submits a block ("stake"), the node's*)
(* own vote for the block ten ahead.                                       *)
(*                                                                         *)
(* The masternode list is external: MayVote[h] are the masternodes whose   *)
(* vote for h passes IsValid, and the next in the queue for payment is any *)
(* payee or none.                                                          *)
(***************************************************************************)
EXTENDS Integers, FiniteSets

CONSTANTS Masternodes, Self, Payees, NoPayee,
          MayVote,        \* height -> masternodes ranked in the top ten
          BudgetBlocks,   \* heights paid by the budget
          Window,         \* CountEnabled * 1.25
          Limit,          \* max(size * 1.25, 1000)
          Ahead,          \* 20, how far ahead a vote may be
          VoteAhead,      \* 10, how far ahead the node votes
          maxReorg,       \* -maxreorg, blocks the active chain may lose
          Required,       \* MNPAYMENTS_SIGNATURES_REQUIRED
          nSubsidyHalvingInterval,
          Winners,        \* the votes peers send, any number of times and in any order
          Start,          \* height of the chain when the model starts
          MaxHeight,      \* bound: height of the chain
          MaxStarts       \* bound: starts of the node

Threads == {"net", "stake"}
Heights == 1 .. MaxHeight + Ahead
Scripts == Payees \cup {NoPayee}
Votes == [mn : Masternodes, height : {0} \cup Heights, payee : Scripts]

ASSUME PaymentsAssumption ==
    /\ Self \in Masternodes
    /\ NoPayee \notin Payees
    /\ MayVote \in [Heights -> SUBSET Masternodes]
    /\ BudgetBlocks \subseteq Heights
    /\ {Window, Limit, Ahead, VoteAhead, maxReorg, MaxHeight} \subseteq Nat
    /\ Start \in 1 .. MaxHeight
    /\ Winners \subseteq {v \in Votes : v.height > 0}
    /\ Window <= Limit
    /\ maxReorg <= Limit
    /\ VoteAhead < Ahead
    /\ {Required, nSubsidyHalvingInterval, MaxStarts} \subseteq Nat \ {0}

VARIABLES
    height,           \* height of the active chain
    top,              \* greatest height it has had
    votes,            \* mapMasternodePayeeVotes: the hash of a vote covers all its fields
    blocks,           \* mapMasternodeBlocks: height -> CMasternodeBlockPayees
    lastVote,         \* mapMasternodesLastVote, 0 for no entry
    nLastBlockHeight, \* the last height the node voted for
    job,              \* per thread: the vote on its way, and how far it is
    uncounted,        \* history: votes whose count was lost by a shutdown
    file,             \* mnpayments.dat
    starts

vars == <<height, top, votes, blocks, lastVote, nLastBlockHeight, job,
          uncounted, file, starts>>

----------------------------------------------------------------------------
NoVote == [mn |-> Self, height |-> 0, payee |-> NoPayee]
Idle == [step |-> "idle", vote |-> NoVote, asked |-> 0]
Busy(step, vote, asked) == [step |-> step, vote |-> vote, asked |-> asked]

(* An entry of mapMasternodeBlocks; order of vecPayments left out. *)
BlockPayees(h) == [nBlockHeight |-> h, tally |-> [p \in Scripts |-> 0]]
(* A file not yet written has nothing to load. *)
NoFile == [readable |-> TRUE, votes |-> {}, blocks |-> <<>>, uncounted |-> {}]
Unreadable == [NoFile EXCEPT !.readable = FALSE]

Init ==
    /\ height = Start
    /\ top = Start
    /\ votes = {}
    /\ blocks = <<>>
    /\ lastVote = [m \in Masternodes |-> 0]
    /\ nLastBlockHeight = 0
    /\ job = [t \in Threads |-> Idle]
    /\ uncounted = {}
    /\ file = NoFile
    /\ starts = 1

----------------------------------------------------------------------------
(* The reward of a block (the premine is in block 1), and the share of it  *)
(* for a masternode, in whole coins.                                       *)
GetBlockValue(h) ==
    IF h = 1 THEN 5000000 ELSE 50 \div (2 ^ (h \div nSubsidyHalvingInterval))
GetMasternodePayment(value) == (4 * value) \div 5

(* Mutant: the payee is any of the tally, not one with the most votes. *)
GetBlockPayee_Any(h) == {p \in Scripts : blocks[h].tally[p] > 0}

(* The payees GetPayee may find for h: the first of those with most votes. *)
GetBlockPayee(h) ==
    {p \in Scripts : /\ blocks[h].tally[p] > 0
                     /\ \A q \in Scripts : blocks[h].tally[q] <= blocks[h].tally[p]}

(* What FillBlockPayee pays for the block after the tip: the winner of the *)
(* votes, and without one the current masternode, any payee.               *)
FilledPayments ==
    LET h == height + 1
        payees == IF h \in DOMAIN blocks /\ GetBlockPayee(h) # {}
                  THEN GetBlockPayee(h) ELSE Payees
    IN  [payee : payees, value : {GetMasternodePayment(GetBlockValue(height))}]

(* CMasternodeBlockPayees::IsTransactionValid for a block at h.  Without a *)
(* quorum for a payee every payment passes.                                *)
IsTransactionValid(h, payment) ==
    h \in DOMAIN blocks =>
        LET elected == {p \in Scripts : blocks[h].tally[p] >= Required}
        IN  \/ elected = {}
            \/ /\ payment.payee \in elected
               /\ payment.value =
                      GetMasternodePayment(GetBlockValue(blocks[h].nBlockHeight))

----------------------------------------------------------------------------
(* MNWINNER: the checks of the handler.  CanVote records the vote before   *)
(* the signature is checked; with a bad one the handler stops there.       *)
MNWinner(v, fSigned) ==
    /\ job["net"] = Idle
    /\ v \notin votes
    /\ height - Window <= v.height /\ v.height <= height + Ahead
    /\ v.mn \in MayVote[v.height]
    /\ lastVote[v.mn] # v.height
    /\ lastVote' = [lastVote EXCEPT ![v.mn] = v.height]
    /\ job' = [job EXCEPT !["net"] = IF fSigned THEN Busy("checked", v, 0) ELSE Idle]
    /\ UNCHANGED <<height, top, votes, blocks, nLastBlockHeight, uncounted, file, starts>>

(* Mutant: ten blocks are added twice. *)
NewBlock_Twice(t) ==
    /\ job[t] = Idle
    /\ job' = [job EXCEPT ![t] = Busy("connecting", NoVote, height + 1 + 2 * VoteAhead)]
    /\ UNCHANGED <<height, top, votes, blocks, lastVote, nLastBlockHeight,
                   uncounted, file, starts>>

(* ProcessNewBlock: the height is read before cs_main is taken. *)
NewBlock(t) ==
    /\ job[t] = Idle
    /\ job' = [job EXCEPT ![t] = Busy("connecting", NoVote, height + 1 + VoteAhead)]
    /\ UNCHANGED <<height, top, votes, blocks, lastVote, nLastBlockHeight,
                   uncounted, file, starts>>

(* The vote ProcessBlock signs for h: nothing at all, with height 0 and an *)
(* empty payee, in a budget block or when nobody is in the queue.          *)
OwnVotes(h) ==
    {NoVote} \cup IF h \in BudgetBlocks THEN {}
                  ELSE {[mn |-> Self, height |-> h, payee |-> p] : p \in Payees}

(* ActivateBestChain, which may connect the block, and the checks of       *)
(* ProcessBlock.                                                           *)
ProcessBlock(t) ==
    /\ job[t].step = "connecting"
    /\ height' \in {height, height + 1} /\ height' <= MaxHeight
    /\ top' = IF height' > top THEN height' ELSE top
    /\ LET h == job[t].asked
       IN  IF Self \in MayVote[h] /\ h > nLastBlockHeight
           THEN \E v \in OwnVotes(h) :
                    job' = [job EXCEPT ![t] = Busy("checked", v, h)]
           ELSE job' = [job EXCEPT ![t] = Idle]
    /\ UNCHANGED <<votes, blocks, lastVote, nLastBlockHeight, uncounted, file, starts>>

(* Mutant: a vote already stored is counted again. *)
InsertWinner_Again(t) ==
    /\ job[t].step = "checked"
    /\ LET v == job[t].vote
       IN  /\ votes' = votes \cup {v}
           /\ blocks' = [h \in DOMAIN blocks \cup {v.height} |->
                            IF h \in DOMAIN blocks THEN blocks[h] ELSE BlockPayees(h)]
           /\ job' = [job EXCEPT ![t].step = "inserted"]
    /\ UNCHANGED <<height, top, lastVote, nLastBlockHeight, uncounted, file, starts>>

(* AddWinningMasternode up to the end of its locked block.  The vote is    *)
(* dropped if it is stored already, or if GetBlockHash does not find the   *)
(* block 100 below.                                                        *)
InsertWinner(t) ==
    /\ job[t].step = "checked"
    /\ LET v == job[t].vote
       IN  \/ /\ job' = [job EXCEPT ![t] = Idle]
              /\ UNCHANGED <<votes, blocks>>
           \/ /\ v \notin votes
              /\ votes' = votes \cup {v}
              /\ blocks' = [h \in DOMAIN blocks \cup {v.height} |->
                               IF h \in DOMAIN blocks THEN blocks[h] ELSE BlockPayees(h)]
              /\ job' = [job EXCEPT ![t].step = "inserted"]
    /\ UNCHANGED <<height, top, lastVote, nLastBlockHeight, uncounted, file, starts>>

(* The last line of AddWinningMasternode, outside the locks: an entry that *)
(* CleanPaymentList has removed meanwhile comes back with nBlockHeight 0.  *)
(* The caller then remembers the height it was asked to vote for.          *)
AddPayee(t) ==
    /\ job[t].step = "inserted"
    /\ LET v == job[t].vote
           here == IF v.height \in DOMAIN blocks THEN blocks[v.height] ELSE BlockPayees(0)
       IN  blocks' = [h \in DOMAIN blocks \cup {v.height} |->
                         IF h = v.height THEN [here EXCEPT !.tally[v.payee] = @ + 1]
                         ELSE blocks[h]]
    /\ nLastBlockHeight' = IF job[t].asked > 0 THEN job[t].asked ELSE nLastBlockHeight
    /\ job' = [job EXCEPT ![t] = Idle]
    /\ UNCHANGED <<height, top, votes, lastVote, uncounted, file, starts>>

(* The chain loses its tip, in a reorganisation or by invalidateblock. *)
DisconnectTip ==
    /\ height > top - maxReorg /\ height > 1
    /\ height' = height - 1
    /\ UNCHANGED <<top, votes, blocks, lastVote, nLastBlockHeight, job,
                   uncounted, file, starts>>

----------------------------------------------------------------------------
(* The votes and the tallies CleanPaymentList leaves: the tallies go by    *)
(* the heights of the votes that are too old.                              *)
CleanPaymentList(vs, bs) ==
    LET old == {v \in vs : height - v.height > Limit}
        heights == {v.height : v \in old}
    IN  <<vs \ old, [h \in DOMAIN bs \ heights |-> bs[h]]>>

(* ThreadCheckMasternodes, once a minute. *)
Clean ==
    /\ LET left == CleanPaymentList(votes, blocks)
       IN  votes' = left[1] /\ blocks' = left[2]
    /\ uncounted' = uncounted \cap votes'
    /\ UNCHANGED <<height, top, lastVote, nLastBlockHeight, job, file, starts>>

(* A new process: Read loads and cleans what is in the file, the rest of   *)
(* the object starts empty.                                                *)
LoadFrom(f) ==
    /\ starts < MaxStarts
    /\ starts' = starts + 1
    /\ LET left == CleanPaymentList(f.votes, f.blocks)
       IN  votes' = left[1] /\ blocks' = left[2]
    /\ uncounted' = f.uncounted \cap votes'
    /\ lastVote' = [m \in Masternodes |-> 0]
    /\ nLastBlockHeight' = 0
    /\ job' = [t \in Threads |-> Idle]
    /\ UNCHANGED <<height, top>>

(* The votes that a thread has inserted and not counted yet. *)
OnTheWay == {job[t].vote : t \in {s \in Threads : job[s].step = "inserted"}}

(* DumpMasternodePayments does not overwrite a file it cannot verify.  The *)
(* message handler has stopped by then, the staking thread has not.        *)
Dumped ==
    IF file.readable
    THEN [readable |-> TRUE, votes |-> votes, blocks |-> blocks,
          uncounted |-> uncounted \cup OnTheWay]
    ELSE file

Restart ==
    /\ job["net"] = Idle
    /\ file' = Dumped
    /\ LoadFrom(Dumped)

(* The process dies, possibly while it writes the file. *)
Crash ==
    /\ file' \in {file, Unreadable}
    /\ LoadFrom(file')

Next ==
    \/ \E v \in Winners, fSigned \in BOOLEAN : MNWinner(v, fSigned)
    \/ \E t \in Threads : \/ NewBlock(t)
                          \/ ProcessBlock(t)
                          \/ InsertWinner(t)
                          \/ AddPayee(t)
    \/ DisconnectTip
    \/ Clean
    \/ Restart
    \/ Crash

Spec == Init /\ [][Next]_vars

----------------------------------------------------------------------------
Tallies == [nBlockHeight : {0} \cup Heights, tally : [Scripts -> Nat]]

(* The types of the maps and of what each thread is doing. *)
TypeOK ==
    /\ height \in 1 .. MaxHeight /\ top \in 1 .. MaxHeight
    /\ votes \subseteq Votes /\ uncounted \subseteq votes
    /\ DOMAIN blocks \subseteq {0} \cup Heights
    /\ \A h \in DOMAIN blocks : blocks[h] \in Tallies
    /\ lastVote \in [Masternodes -> {0} \cup Heights]
    /\ nLastBlockHeight \in {0} \cup Heights
    /\ \A t \in Threads : /\ job[t].step \in {"idle", "connecting", "checked", "inserted"}
                          /\ job[t].vote \in Votes
                          /\ job[t].asked \in {0} \cup Heights
    /\ file.votes \subseteq Votes
    /\ starts \in 1 .. MaxStarts

(* Heights of blocks to come, or so recent that no clean-up has been able  *)
(* to remove their votes.                                                  *)
Recent == {h \in Heights : h + Limit >= top}

(* The votes for payee p of block h, but for some that are not counted. *)
Counted(vs, skipped, h, p) == {v \in vs \ skipped : v.height = h /\ v.payee = p}

(* The signatures a block is judged by are votes that differ: for every    *)
(* block to come and every recent one the tally of AddWinningMasternode is *)
(* exactly the number of votes in the map, but for those a thread is about *)
(* to count, whatever threads, cleaning and restarts interleave, and so    *)
(* IsTransactionValid refuses no block without a quorum.  An older entry   *)
(* may be removed while votes are on their way to it.                      *)
TallyExact ==
    \A h \in Recent \cap DOMAIN blocks :
        /\ blocks[h].nBlockHeight = h
        /\ \A p \in Scripts :
              blocks[h].tally[p] = Cardinality(Counted(votes, uncounted \cup OnTheWay, h, p))

(* FillBlockPayee and IsTransactionValid agree: a block this node makes on *)
(* its tip pays what the same node asks of the next block.                 *)
FilledBlockValid ==
    height + 1 \notin BudgetBlocks =>
        \A payment \in FilledPayments : IsTransactionValid(height + 1, payment)
=============================================================================
