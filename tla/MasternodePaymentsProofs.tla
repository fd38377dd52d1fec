---------------------- MODULE MasternodePaymentsProofs ----------------------
(***************************************************************************)
(* Proofs about MasternodePayments: the invariants of the run "payments",  *)
(* for every set of masternodes, payees and votes, every window and limit  *)
(* and any number of restarts.                                             *)
(***************************************************************************)
EXTENDS MasternodePayments, TLAPS, FiniteSetTheorems

Jobs == [step : {"idle", "connecting", "checked", "inserted"}, vote : Votes, asked : {0} \cup Heights]

(* A map of tallies, in memory or in the file. *)
IsTally(bs) == DOMAIN bs \subseteq {0} \cup Heights /\ \A h \in DOMAIN bs : bs[h] \in Tallies

Typed ==
    /\ height \in 1 .. MaxHeight /\ top \in 1 .. MaxHeight
    /\ votes \subseteq Votes /\ IsFiniteSet(votes) /\ uncounted \subseteq votes
    /\ IsTally(blocks)
    /\ lastVote \in [Masternodes -> {0} \cup Heights]
    /\ nLastBlockHeight \in {0} \cup Heights
    /\ job \in [Threads -> Jobs]
    /\ starts \in 1 .. MaxStarts

FileTyped ==
    /\ file.readable \in BOOLEAN
    /\ file.votes \subseteq Votes /\ IsFiniteSet(file.votes)
    /\ IsTally(file.blocks)

(* The chain never is so far below its greatest height that the clean-up   *)
(* could have reached a block that is to come again.                       *)
ReorgBounded == height <= top /\ top <= height + maxReorg

(* The tallies bs of the heights rec are exact for the votes vs, of which  *)
(* some are skipped, and a height without an entry has no votes.           *)
Exact(rec, vs, skipped, bs) ==
    \A h \in rec :
        /\ h \in DOMAIN bs =>
              /\ bs[h].nBlockHeight = h
              /\ \A p \in Scripts : bs[h].tally[p] = Cardinality(Counted(vs, skipped, h, p))
        /\ h \notin DOMAIN bs => \A v \in vs : v.height # h

(* A thread about to count a vote for a recent height is the only one to   *)
(* do so, and the vote is in the map and was not given up.                 *)
OnTheWayOnce ==
    \A t \in Threads : job[t].step = "inserted" /\ job[t].vote.height \in Recent =>
        /\ job[t].vote \in votes \ uncounted
        /\ \A u \in Threads \ {t} : job[u].step = "inserted" => job[u].vote # job[t].vote

(* The inductive invariant. *)
Inv ==
    /\ Typed /\ FileTyped /\ ReorgBounded
    /\ Exact(Recent, votes, uncounted \cup OnTheWay, blocks)
    /\ Exact(Recent, file.votes, file.uncounted, file.blocks)
    /\ OnTheWayOnce

-----------------------------------------------------------------------------
(* Facts about the constants: the empty vote, and an idle thread. *)
LEMMA Constants ==
  /\ NoVote \in Votes /\ NoVote.height = 0
  /\ Idle \in Jobs /\ Idle.step = "idle"
  /\ \A v \in Votes : v.height \in {0} \cup Heights /\ v.payee \in Scripts /\ v.mn \in Masternodes
  /\ \A s \in {"idle", "connecting", "checked", "inserted"}, v \in Votes, h \in {0} \cup Heights :
        Busy(s, v, h) \in Jobs /\ Busy(s, v, h).step = s /\ Busy(s, v, h).vote = v
  BY PaymentsAssumption DEF NoVote, Idle, Busy, Jobs, Votes, Scripts

(* Heights are natural numbers, and the node's own votes are in range. *)
LEMMA HeightsInRange ==
  /\ Heights \subseteq Nat \ {0}
  /\ Limit \in Nat /\ Ahead \in Nat /\ VoteAhead \in Nat /\ maxReorg \in Nat /\ MaxHeight \in Nat
  /\ \A h \in 1 .. MaxHeight : h + 1 + VoteAhead \in Heights
  BY PaymentsAssumption DEF Heights

(* The initial state satisfies the invariant. *)
LEMMA InitInv == Init => Inv
  <1> SUFFICES ASSUME Init PROVE Inv
    OBVIOUS
  <1>1. IsTally(<<>>) /\ DOMAIN <<>> = {}
    BY DEF IsTally
  <1>2. Typed
    BY <1>1, Constants, PaymentsAssumption, FS_EmptySet DEF Init, Typed
  <1>3. FileTyped
    BY <1>1, FS_EmptySet DEF Init, FileTyped, NoFile
  <1>4. \A rec, skipped : Exact(rec, {}, skipped, <<>>)
    BY <1>1 DEF Exact
  <1>5. OnTheWayOnce
    BY Constants DEF Init, OnTheWayOnce
  <1>6. ReorgBounded
    BY PaymentsAssumption DEF Init, ReorgBounded
  <1> QED
    BY <1>2, <1>3, <1>4, <1>5, <1>6 DEF Init, Inv, NoFile

(* What is exact for some heights is exact for fewer. *)
LEMMA ExactFewer ==
  ASSUME NEW rec, NEW fewer \in SUBSET rec, NEW vs, NEW skipped, NEW bs, Exact(rec, vs, skipped, bs)
  PROVE  Exact(fewer, vs, skipped, bs)
  BY DEF Exact

(* The chain that grows leaves fewer heights recent. *)
LEMMA RecentShrinks ==
  ASSUME Typed, Typed', top' >= top
  PROVE  Recent' \subseteq Recent
  <1> SUFFICES ASSUME NEW h \in Recent' PROVE h \in Recent
    OBVIOUS
  <1>1. h \in Heights /\ h \in Nat /\ h + Limit >= top' /\ Limit \in Nat
    BY HeightsInRange DEF Recent
  <1>2. top \in Nat /\ top' \in Nat
    BY DEF Typed
  <1>3. h + Limit >= top
    BY <1>1, <1>2
  <1> QED
    BY <1>1, <1>3 DEF Recent

(* A step that leaves maps and file alone, and the votes on their way.     *)
LEMMA MapsUntouched ==
  ASSUME Inv, Typed', ReorgBounded', top' >= top,
         UNCHANGED <<votes, blocks, uncounted, file>>,
         \A t \in Threads : \/ job'[t] = job[t]
                            \/ job[t].step # "inserted" /\ job'[t].step # "inserted"
  PROVE  Inv'
  <1>1. Recent' \subseteq Recent
    BY RecentShrinks DEF Inv
  <1>2. OnTheWay' = OnTheWay
    BY DEF OnTheWay
  <1>3. /\ Exact(Recent', votes', uncounted' \cup OnTheWay', blocks')
        /\ Exact(Recent', file'.votes, file'.uncounted, file'.blocks)
    BY <1>1, <1>2, ExactFewer DEF Inv
  <1>4. OnTheWayOnce'
    BY <1>1 DEF Inv, OnTheWayOnce
  <1>5. FileTyped'
    BY DEF Inv, FileTyped
  <1> QED
    BY <1>3, <1>4, <1>5 DEF Inv

(* A vote of a peer passes the checks of the handler. *)
LEMMA MNWinnerInv ==
  ASSUME Inv, NEW v \in Winners, NEW fSigned \in BOOLEAN, MNWinner(v, fSigned)
  PROVE  Inv'
  <1>1. v \in Votes /\ v.height \in Heights /\ v.mn \in Masternodes
    BY PaymentsAssumption, Constants
  <1>2. /\ job["net"] = Idle /\ job \in [Threads -> Jobs] /\ "net" \in Threads
        /\ lastVote \in [Masternodes -> {0} \cup Heights]
    BY DEF MNWinner, Inv, Typed, Threads
  <1>3. Typed'
    <2>1. job' \in [Threads -> Jobs]
      BY <1>1, <1>2, Constants DEF MNWinner
    <2>2. lastVote' \in [Masternodes -> {0} \cup Heights]
      BY <1>1, <1>2 DEF MNWinner
    <2> QED
      BY <2>1, <2>2 DEF MNWinner, Inv, Typed
  <1>4. \A t \in Threads : \/ job'[t] = job[t]
                           \/ job[t].step # "inserted" /\ job'[t].step # "inserted"
    BY <1>1, <1>2, Constants DEF MNWinner
  <1>5. UNCHANGED <<height, top, votes, blocks, uncounted, file>> /\ top' >= top
    BY DEF MNWinner, Inv, Typed
  <1>6. ReorgBounded'
    BY <1>5 DEF Inv, ReorgBounded
  <1> QED
    BY <1>3, <1>4, <1>5, <1>6, MapsUntouched

(* A block arrives, and the node reads the height. *)
LEMMA NewBlockInv ==
  ASSUME Inv, NEW t \in Threads, NewBlock(t)
  PROVE  Inv'
  <1>1. /\ job[t] = Idle /\ job \in [Threads -> Jobs]
        /\ job' = [job EXCEPT ![t] = Busy("connecting", NoVote, height + 1 + VoteAhead)]
        /\ height + 1 + VoteAhead \in Heights
        /\ UNCHANGED <<height, top, votes, blocks, lastVote, nLastBlockHeight, uncounted, file, starts>>
    BY HeightsInRange DEF NewBlock, Inv, Typed
  <1>2. Typed'
    <2>1. job' \in [Threads -> Jobs]
      BY <1>1, Constants
    <2> QED
      BY <1>1, <2>1 DEF Inv, Typed
  <1>3. \A u \in Threads : \/ job'[u] = job[u]
                           \/ job[u].step # "inserted" /\ job'[u].step # "inserted"
    <2>1. Busy("connecting", NoVote, height + 1 + VoteAhead).step = "connecting"
      BY DEF Busy
    <2> QED
      BY <1>1, <2>1, Constants
  <1>4. ReorgBounded' /\ top' >= top
    BY <1>1 DEF Inv, ReorgBounded, Typed
  <1> QED
    BY <1>1, <1>2, <1>3, <1>4, MapsUntouched

(* The block is connected or not, and the node decides what to vote for. *)
LEMMA ProcessBlockInv ==
  ASSUME Inv, NEW t \in Threads, ProcessBlock(t)
  PROVE  Inv'
  <1>1. /\ job[t].step = "connecting" /\ job \in [Threads -> Jobs] /\ job[t].asked \in {0} \cup Heights
        /\ height' \in {height, height + 1} /\ height' <= MaxHeight
        /\ top' = IF height' > top THEN height' ELSE top
        /\ UNCHANGED <<votes, blocks, lastVote, nLastBlockHeight, uncounted, file, starts>>
    BY DEF ProcessBlock, Inv, Typed, Jobs
  <1>2. /\ height' \in 1 .. MaxHeight /\ top' \in 1 .. MaxHeight /\ top' >= top
        /\ ReorgBounded'
    BY <1>1, HeightsInRange DEF Inv, Typed, ReorgBounded
  <1>3. /\ job' \in [Threads -> Jobs]
        /\ \A u \in Threads : \/ job'[u] = job[u]
                              \/ job[u].step # "inserted" /\ job'[u].step # "inserted"
    <2>1. PICK j \in Jobs : job' = [job EXCEPT ![t] = j] /\ j.step # "inserted"
      <3>1. CASE Self \in MayVote[job[t].asked] /\ job[t].asked > nLastBlockHeight
        <4>1. PICK v \in OwnVotes(job[t].asked) : job' = [job EXCEPT ![t] = Busy("checked", v, job[t].asked)]
          BY <3>1 DEF ProcessBlock
        <4>2. v \in Votes
          BY <1>1, Constants, PaymentsAssumption DEF OwnVotes, Votes, Scripts
        <4>3. Busy("checked", v, job[t].asked) \in Jobs
          BY <1>1, <4>2, Constants
        <4>4. Busy("checked", v, job[t].asked).step = "checked"
          BY DEF Busy
        <4> QED
          BY <4>1, <4>3, <4>4
      <3>2. CASE ~(Self \in MayVote[job[t].asked] /\ job[t].asked > nLastBlockHeight)
        BY <3>2, Constants DEF ProcessBlock
      <3> QED
        BY <3>1, <3>2
    <2> QED
      BY <1>1, <2>1
  <1>4. Typed'
    BY <1>1, <1>2, <1>3 DEF Inv, Typed
  <1> QED
    BY <1>1, <1>2, <1>3, <1>4, MapsUntouched

(* The chain loses its tip. *)
LEMMA DisconnectTipInv ==
  ASSUME Inv, DisconnectTip
  PROVE  Inv'
  <1>1. /\ height > top - maxReorg /\ height > 1 /\ height' = height - 1
        /\ UNCHANGED <<top, votes, blocks, lastVote, nLastBlockHeight, job, uncounted, file, starts>>
    BY DEF DisconnectTip
  <1>2. Typed' /\ ReorgBounded' /\ top' >= top
    BY <1>1, HeightsInRange DEF Inv, Typed, ReorgBounded
  <1> QED
    BY <1>1, <1>2, MapsUntouched

-----------------------------------------------------------------------------
(* A vote is stored and its entry made, before it is counted. *)
LEMMA InsertWinnerInv ==
  ASSUME Inv, NEW t \in Threads, InsertWinner(t)
  PROVE  Inv'
  <1> DEFINE v == job[t].vote
  <1>1. /\ job[t].step = "checked" /\ job \in [Threads -> Jobs] /\ v \in Votes /\ v.height \in {0} \cup Heights
        /\ UNCHANGED <<height, top, lastVote, nLastBlockHeight, uncounted, file, starts>>
    BY Constants DEF InsertWinner, Inv, Typed, Jobs
  <1>2. top' >= top /\ Recent' = Recent /\ ReorgBounded' /\ FileTyped'
    BY <1>1 DEF Inv, Typed, ReorgBounded, FileTyped, Recent
  <1>3. CASE job' = [job EXCEPT ![t] = Idle] /\ UNCHANGED <<votes, blocks>>
    <2>1. job' = [job EXCEPT ![t] = Idle] /\ UNCHANGED <<votes, blocks>>
      BY <1>3
    <2>2. Typed'
      BY <1>1, <2>1, Constants DEF Inv, Typed
    <2>3. \A u \in Threads : \/ job'[u] = job[u]
                             \/ job[u].step # "inserted" /\ job'[u].step # "inserted"
      BY <1>1, <2>1, Constants
    <2> QED
      BY <1>1, <1>2, <2>1, <2>2, <2>3, MapsUntouched
  <1>4. CASE /\ v \notin votes /\ votes' = votes \cup {v}
             /\ blocks' = [h \in DOMAIN blocks \cup {v.height} |->
                              IF h \in DOMAIN blocks THEN blocks[h] ELSE BlockPayees(h)]
             /\ job' = [job EXCEPT ![t].step = "inserted"]
    <2>1. /\ votes' = votes \cup {v}
          /\ blocks' = [h \in DOMAIN blocks \cup {v.height} |->
                           IF h \in DOMAIN blocks THEN blocks[h] ELSE BlockPayees(h)]
          /\ job' = [job EXCEPT ![t].step = "inserted"]
      BY <1>4
    <2>2. /\ job' \in [Threads -> Jobs] /\ job'[t].step = "inserted" /\ job'[t].vote = v
          /\ \A u \in Threads \ {t} : job'[u] = job[u]
      BY <1>1, <2>1 DEF Jobs
    <2>3. \A h \in {0} \cup Heights : BlockPayees(h) \in Tallies /\ BlockPayees(h).nBlockHeight = h
                                      /\ \A p \in Scripts : BlockPayees(h).tally[p] = 0
      BY DEF BlockPayees, Tallies
    <2>4. Typed'
      <3>1. IsTally(blocks')
        BY <1>1, <2>1, <2>3 DEF Inv, Typed, IsTally
      <3>2. votes' \subseteq Votes /\ IsFiniteSet(votes') /\ uncounted' \subseteq votes'
        BY <1>1, <2>1, FS_AddElement DEF Inv, Typed
      <3> QED
        BY <1>1, <2>2, <3>1, <3>2 DEF Inv, Typed
    <2>5. OnTheWay' = OnTheWay \cup {v}
      BY <1>1, <2>2 DEF OnTheWay
    <2>6. \A h, p : Counted(votes', uncounted' \cup OnTheWay', h, p) = Counted(votes, uncounted \cup OnTheWay, h, p)
      BY <1>1, <1>4, <2>1, <2>5 DEF Counted
    <2>7. Exact(Recent', votes', uncounted' \cup OnTheWay', blocks')
      <3> SUFFICES ASSUME NEW h \in Recent
                   PROVE  /\ h \in DOMAIN blocks' =>
                                /\ blocks'[h].nBlockHeight = h
                                /\ \A p \in Scripts : blocks'[h].tally[p]
                                      = Cardinality(Counted(votes', uncounted' \cup OnTheWay', h, p))
                          /\ h \notin DOMAIN blocks' => \A x \in votes' : x.height # h
        BY <1>2 DEF Exact
      <3>1. h \in Heights
        BY DEF Recent
      <3>2. CASE h \in DOMAIN blocks
        <4>1. /\ blocks[h].nBlockHeight = h
              /\ \A p \in Scripts : blocks[h].tally[p]
                    = Cardinality(Counted(votes, uncounted \cup OnTheWay, h, p))
          BY <3>2 DEF Inv, Exact
        <4>2. h \in DOMAIN blocks' /\ blocks'[h] = blocks[h]
          BY <2>1, <3>2
        <4> QED
          BY <2>6, <4>1, <4>2
      <3>3. CASE h \notin DOMAIN blocks
        <4>1. \A x \in votes : x.height # h
          BY <3>3 DEF Inv, Exact
        <4>2. \A p \in Scripts : Cardinality(Counted(votes, uncounted \cup OnTheWay, h, p)) = 0
          <5>1. \A p \in Scripts : Counted(votes, uncounted \cup OnTheWay, h, p) = {}
            BY <4>1 DEF Counted
          <5> QED
            BY <5>1, FS_EmptySet
        <4> QED
          BY <2>1, <2>3, <2>6, <3>1, <3>3, <4>1, <4>2
      <3> QED
        BY <3>2, <3>3
    <2>8. OnTheWayOnce'
      <3> SUFFICES ASSUME NEW u \in Threads, job'[u].step = "inserted", job'[u].vote.height \in Recent
                   PROVE  /\ job'[u].vote \in votes' \ uncounted'
                          /\ \A w \in Threads \ {u} : job'[w].step = "inserted" => job'[w].vote # job'[u].vote
        BY <1>2 DEF OnTheWayOnce
      <3>1. \A w \in Threads \ {t} : job[w].step = "inserted" /\ job[w].vote.height \in Recent
                                      => job[w].vote \in votes \ uncounted
        BY DEF Inv, OnTheWayOnce
      <3>2. v \notin uncounted
        BY <1>4 DEF Inv, Typed
      <3>3. CASE u = t
        BY <1>1, <1>4, <2>1, <2>2, <3>1, <3>2, <3>3
      <3>4. CASE u # t
        <4>1. job'[u] = job[u] /\ job[u].vote \in votes \ uncounted /\ job[u].vote # v
          BY <1>4, <2>2, <3>1, <3>4
        <4>2. \A w \in Threads \ {u, t} : job[w].step = "inserted" => job[w].vote # job[u].vote
          BY <3>4, <4>1 DEF Inv, OnTheWayOnce
        <4> QED
          BY <1>1, <2>1, <2>2, <4>1, <4>2
      <3> QED
        BY <3>3, <3>4
    <2>9. Exact(Recent', file'.votes, file'.uncounted, file'.blocks)
      BY <1>1, <1>2 DEF Inv
    <2> QED
      BY <1>2, <2>4, <2>7, <2>8, <2>9 DEF Inv
  <1> QED
    BY <1>3, <1>4 DEF InsertWinner

(* The vote is counted, after the locks were released. *)
LEMMA AddPayeeInv ==
  ASSUME Inv, NEW t \in Threads, AddPayee(t)
  PROVE  Inv'
  <1> DEFINE v == job[t].vote
             here == IF v.height \in DOMAIN blocks THEN blocks[v.height] ELSE BlockPayees(0)
  <1>1. /\ job[t].step = "inserted" /\ job \in [Threads -> Jobs] /\ v \in Votes
        /\ v.height \in {0} \cup Heights /\ v.payee \in Scripts
        /\ job' = [job EXCEPT ![t] = Idle]
        /\ UNCHANGED <<height, top, votes, lastVote, uncounted, file, starts>>
        /\ nLastBlockHeight' \in {0} \cup Heights
    BY Constants DEF AddPayee, Inv, Typed, Jobs
  <1>2. Recent' = Recent /\ ReorgBounded' /\ FileTyped' /\ Recent \subseteq Heights
    BY <1>1 DEF Inv, ReorgBounded, FileTyped, Recent
  <1>3. here \in Tallies
    BY Constants DEF Inv, Typed, IsTally, BlockPayees, Tallies
  <1> DEFINE more == [here EXCEPT !.tally[v.payee] = @ + 1]
  <1>4. /\ more \in Tallies /\ more.nBlockHeight = here.nBlockHeight
        /\ more.tally[v.payee] = here.tally[v.payee] + 1
        /\ \A p \in Scripts \ {v.payee} : more.tally[p] = here.tally[p]
    <2> HIDE DEF here, v
    <2> QED
      BY <1>1, <1>3 DEF Tallies
  <1>5. blocks' = [h \in DOMAIN blocks \cup {v.height} |-> IF h = v.height THEN more ELSE blocks[h]]
    BY DEF AddPayee
  <1> HIDE DEF more
  <1>6. job' \in [Threads -> Jobs] /\ job'[t].step = "idle" /\ \A u \in Threads \ {t} : job'[u] = job[u]
    BY <1>1, Constants
  <1>7. Typed'
    <2>1. IsTally(blocks')
      BY <1>1, <1>4, <1>5 DEF Inv, Typed, IsTally
    <2> QED
      BY <1>1, <1>6, <2>1 DEF Inv, Typed
  <1>8. OnTheWay' \subseteq OnTheWay /\ OnTheWay \subseteq OnTheWay' \cup {v} /\ v \in OnTheWay
    BY <1>1, <1>6 DEF OnTheWay
  <1>9. ASSUME v.height \in Recent PROVE v \in votes /\ v \notin uncounted /\ v \notin OnTheWay'
    <2>1. v \in votes \ uncounted /\ \A u \in Threads \ {t} : job[u].step = "inserted" => job[u].vote # v
      BY <1>1, <1>9 DEF Inv, OnTheWayOnce
    <2> QED
      BY <1>6, <2>1 DEF OnTheWay
  <1>10. Exact(Recent', votes', uncounted' \cup OnTheWay', blocks')
    <2> DEFINE old(h, p) == Counted(votes, uncounted \cup OnTheWay, h, p)
               new(h, p) == Counted(votes, uncounted \cup OnTheWay', h, p)
    <2> SUFFICES ASSUME NEW h \in Recent
                 PROVE  /\ h \in DOMAIN blocks' =>
                              /\ blocks'[h].nBlockHeight = h
                              /\ \A p \in Scripts : blocks'[h].tally[p] = Cardinality(new(h, p))
                        /\ h \notin DOMAIN blocks' => \A x \in votes : x.height # h
      BY <1>1, <1>2 DEF Exact
    <2>1. /\ h \in DOMAIN blocks => /\ blocks[h].nBlockHeight = h
                                    /\ \A p \in Scripts : blocks[h].tally[p] = Cardinality(old(h, p))
          /\ h \notin DOMAIN blocks => \A x \in votes : x.height # h
      BY DEF Inv, Exact
    <2>2. ASSUME NEW p \in Scripts, h # v.height \/ p # v.payee PROVE new(h, p) = old(h, p)
      BY <1>8, <2>2 DEF Counted
    <2>3. CASE h # v.height
      <3>1. \A p \in Scripts : new(h, p) = old(h, p)
        BY <2>2, <2>3
      <3>2. (h \in DOMAIN blocks' <=> h \in DOMAIN blocks)
            /\ (h \in DOMAIN blocks => blocks'[h] = blocks[h])
        BY <1>5, <2>3
      <3> QED
        BY <2>1, <3>1, <3>2
    <2>4. CASE h = v.height
      <3>1. v \in votes /\ v \notin uncounted /\ v \notin OnTheWay'
        BY <1>9, <2>4
      <3>2. h \in DOMAIN blocks /\ here = blocks[h]
        BY <2>1, <2>4, <3>1
      <3>3. new(h, v.payee) = old(h, v.payee) \cup {v} /\ v \notin old(h, v.payee)
        BY <1>8, <2>4, <3>1 DEF Counted
      <3>4. IsFiniteSet(old(h, v.payee)) /\ Cardinality(old(h, v.payee)) \in Nat
        BY FS_Subset, FS_CardinalityType DEF Inv, Typed, Counted
      <3>5. Cardinality(new(h, v.payee)) = Cardinality(old(h, v.payee)) + 1
        BY <3>3, <3>4, FS_AddElement
      <3>6. blocks'[h] = more /\ h \in DOMAIN blocks'
        BY <1>5, <2>4
      <3>7. ASSUME NEW p \in Scripts PROVE more.tally[p] = Cardinality(new(h, p))
        <4>1. CASE p = v.payee
          BY <1>1, <1>4, <2>1, <3>2, <3>5, <4>1
        <4>2. CASE p # v.payee
          BY <1>4, <2>1, <2>2, <3>2, <4>2
        <4> QED
          BY <4>1, <4>2
      <3> QED
        BY <1>4, <2>1, <3>2, <3>6, <3>7
    <2> QED
      BY <2>3, <2>4
  <1>11. OnTheWayOnce'
    BY <1>1, <1>2, <1>6 DEF Inv, OnTheWayOnce
  <1>12. Exact(Recent', file'.votes, file'.uncounted, file'.blocks)
    BY <1>1, <1>2 DEF Inv
  <1> QED
    BY <1>2, <1>7, <1>10, <1>11, <1>12 DEF Inv

-----------------------------------------------------------------------------
(* What is too old for the clean-up is not recent. *)
LEMMA OldIsNotRecent ==
  ASSUME Typed, ReorgBounded, NEW h \in Recent
  PROVE  ~(height - h > Limit)
  <1>1. h \in Nat /\ Limit \in Nat /\ h + Limit >= top
    BY HeightsInRange DEF Recent
  <1>2. height \in Nat /\ top \in Nat /\ height <= top
    BY DEF Typed, ReorgBounded
  <1> QED
    BY <1>1, <1>2

(* The clean-up keeps the tallies of recent heights exact, in memory and   *)
(* when the file is loaded.                                                *)
LEMMA CleanExact ==
  ASSUME Typed, ReorgBounded, NEW vs \in SUBSET Votes, IsFiniteSet(vs), NEW bs, IsTally(bs),
         NEW skipped, NEW skipped2, Exact(Recent, vs, skipped, bs),
         skipped2 \cap CleanPaymentList(vs, bs)[1] = skipped \cap CleanPaymentList(vs, bs)[1]
  PROVE  LET left == CleanPaymentList(vs, bs)
         IN  /\ left[1] \subseteq Votes /\ IsFiniteSet(left[1]) /\ IsTally(left[2])
             /\ \A v \in vs : v.height \in Recent => v \in left[1]
             /\ Exact(Recent, left[1], skipped2, left[2])
  <1> DEFINE old == {v \in vs : height - v.height > Limit}
             gone == {v.height : v \in old}
             vs2 == vs \ old
             bs2 == [h \in DOMAIN bs \ gone |-> bs[h]]
  <1>1. CleanPaymentList(vs, bs) = <<vs2, bs2>>
    BY DEF CleanPaymentList
  <1>2. vs2 \subseteq Votes /\ IsFiniteSet(vs2)
    BY FS_Difference
  <1>3. IsTally(bs2)
    BY DEF IsTally
  <1>4. \A v \in vs : v.height \in Recent => v \in vs2
    BY OldIsNotRecent
  <1>5. ASSUME NEW h \in Recent PROVE h \notin gone
    BY OldIsNotRecent
  <1>6. ASSUME NEW h \in Recent, NEW p PROVE Counted(vs2, skipped2, h, p) = Counted(vs, skipped, h, p)
    <2>1. skipped2 \cap vs2 = skipped \cap vs2
      BY <1>1
    <2>2. ASSUME NEW v PROVE (v \in vs2 /\ v \notin skipped2) <=> (v \in vs2 /\ v \notin skipped)
      BY <2>1
    <2>3. ASSUME NEW v, v \in vs, v.height = h PROVE v \in vs2
      BY <1>4, <1>6, <2>3
    <2> QED
      BY <2>2, <2>3 DEF Counted
  <1>7. Exact(Recent, vs2, skipped2, bs2)
    <2> HIDE DEF old, gone
    <2> SUFFICES ASSUME NEW h \in Recent
                 PROVE  /\ h \in DOMAIN bs2 =>
                              /\ bs2[h].nBlockHeight = h
                              /\ \A p \in Scripts : bs2[h].tally[p] = Cardinality(Counted(vs2, skipped2, h, p))
                        /\ h \notin DOMAIN bs2 => \A v \in vs2 : v.height # h
      BY DEF Exact
    <2>1. /\ h \in DOMAIN bs => /\ bs[h].nBlockHeight = h
                                /\ \A p \in Scripts : bs[h].tally[p] = Cardinality(Counted(vs, skipped, h, p))
          /\ h \notin DOMAIN bs => \A v \in vs : v.height # h
      BY DEF Exact
    <2>2. \A p \in Scripts : Counted(vs2, skipped2, h, p) = Counted(vs, skipped, h, p)
      BY <1>6
    <2>3. (h \in DOMAIN bs2 <=> h \in DOMAIN bs) /\ (h \in DOMAIN bs => bs2[h] = bs[h])
      BY <1>5
    <2> QED
      BY <2>1, <2>2, <2>3
  <1> HIDE DEF vs2, bs2
  <1> QED
    BY <1>1, <1>2, <1>3, <1>4, <1>7

(* The clean-up thread removes old votes and their tallies. *)
LEMMA CleanInv ==
  ASSUME Inv, Clean
  PROVE  Inv'
  <1> DEFINE left == CleanPaymentList(votes, blocks)
  <1>1. /\ votes' = left[1] /\ blocks' = left[2] /\ uncounted' = uncounted \cap votes'
        /\ UNCHANGED <<height, top, lastVote, nLastBlockHeight, job, file, starts>>
    BY DEF Clean
  <1>2. OnTheWay' = OnTheWay /\ Recent' = Recent /\ ReorgBounded' /\ FileTyped'
    BY <1>1 DEF OnTheWay, Recent, Inv, ReorgBounded, FileTyped
  <1> HIDE DEF left
  <1>3. (uncounted' \cup OnTheWay') \cap left[1] = (uncounted \cup OnTheWay) \cap left[1]
    BY <1>1, <1>2
  <1>4. /\ left[1] \subseteq Votes /\ IsFiniteSet(left[1]) /\ IsTally(left[2])
        /\ \A v \in votes : v.height \in Recent => v \in left[1]
        /\ Exact(Recent, left[1], uncounted' \cup OnTheWay', left[2])
    BY <1>3, CleanExact DEF Inv, Typed, left
  <1>5. Typed'
    BY <1>1, <1>4 DEF Inv, Typed
  <1>6. OnTheWayOnce'
    BY <1>1, <1>2, <1>4 DEF Inv, OnTheWayOnce
  <1>7. Exact(Recent', file'.votes, file'.uncounted, file'.blocks)
    BY <1>1, <1>2 DEF Inv
  <1> QED
    BY <1>1, <1>2, <1>4, <1>5, <1>6, <1>7 DEF Inv

(* A new process that loads a file with exact tallies has exact tallies.   *)
LEMMA LoadInv ==
  ASSUME Inv, NEW f, LoadFrom(f), file' = f,
         f.readable \in BOOLEAN, f.votes \in SUBSET Votes, IsFiniteSet(f.votes), IsTally(f.blocks),
         Exact(Recent, f.votes, f.uncounted, f.blocks)
  PROVE  Inv'
  <1> DEFINE left == CleanPaymentList(f.votes, f.blocks)
  <1>1. /\ votes' = left[1] /\ blocks' = left[2] /\ uncounted' = f.uncounted \cap votes'
        /\ lastVote' = [m \in Masternodes |-> 0] /\ nLastBlockHeight' = 0
        /\ job' = [t \in Threads |-> Idle]
        /\ starts' = starts + 1 /\ starts < MaxStarts
        /\ UNCHANGED <<height, top>>
    BY DEF LoadFrom
  <1>2. OnTheWay' = {} /\ OnTheWayOnce'
    BY <1>1, Constants DEF OnTheWay, OnTheWayOnce
  <1>3. Recent' = Recent /\ ReorgBounded' /\ FileTyped'
    BY <1>1 DEF Recent, Inv, ReorgBounded, FileTyped
  <1> HIDE DEF left
  <1>4. (uncounted' \cup OnTheWay') \cap left[1] = f.uncounted \cap left[1]
    BY <1>1, <1>2
  <1>5. /\ left[1] \subseteq Votes /\ IsFiniteSet(left[1]) /\ IsTally(left[2])
        /\ Exact(Recent, left[1], uncounted' \cup OnTheWay', left[2])
    BY <1>4, CleanExact DEF Inv, left
  <1>6. Typed'
    BY <1>1, <1>5, Constants, PaymentsAssumption DEF Inv, Typed
  <1> QED
    BY <1>1, <1>2, <1>3, <1>5, <1>6 DEF Inv

(* A shutdown, which writes the file, and the next start. *)
LEMMA RestartInv ==
  ASSUME Inv, Restart
  PROVE  Inv'
  <1>1. file' = Dumped /\ LoadFrom(Dumped)
    BY DEF Restart
  <1>2. /\ Dumped.readable \in BOOLEAN /\ Dumped.votes \in SUBSET Votes /\ IsFiniteSet(Dumped.votes)
        /\ IsTally(Dumped.blocks)
    BY DEF Dumped, Inv, Typed, FileTyped
  <1>3. Exact(Recent, Dumped.votes, Dumped.uncounted, Dumped.blocks)
    BY DEF Dumped, Inv
  <1> QED
    BY <1>1, <1>2, <1>3, LoadInv

(* A crash, possibly with a file half written, and the next start. *)
LEMMA CrashInv ==
  ASSUME Inv, Crash
  PROVE  Inv'
  <1>1. file' \in {file, Unreadable} /\ LoadFrom(file')
    BY DEF Crash
  <1>2. CASE file' = file
    BY <1>1, <1>2, LoadInv DEF Inv, FileTyped
  <1>3. CASE file' = Unreadable
    <2>1. /\ Unreadable.readable = FALSE /\ Unreadable.votes = {} /\ Unreadable.blocks = <<>>
      BY DEF Unreadable, NoFile
    <2>2. IsFiniteSet({}) /\ IsTally(<<>>)
      BY FS_EmptySet DEF IsTally
    <2>3. Exact(Recent, {}, Unreadable.uncounted, <<>>)
      BY DEF Exact
    <2> QED
      BY <1>1, <1>3, <2>1, <2>2, <2>3, LoadInv
  <1> QED
    BY <1>1, <1>2, <1>3

(* Every step keeps the invariant. *)
LEMMA NextInv == Inv /\ [Next]_vars => Inv'
  <1> SUFFICES ASSUME Inv, [Next]_vars PROVE Inv'
    OBVIOUS
  <1>1. CASE UNCHANGED vars
    BY <1>1 DEF vars, Inv, Typed, FileTyped, ReorgBounded, OnTheWay, OnTheWayOnce, Recent
  <1> QED
    BY <1>1, MNWinnerInv, NewBlockInv, ProcessBlockInv, InsertWinnerInv, AddPayeeInv,
       DisconnectTipInv, CleanInv, RestartInv, CrashInv DEF Next

(* The inductive invariant holds in every reachable state. *)
THEOREM PaymentsInvariant == Spec => []Inv
  BY InitInv, NextInv, PTL DEF Spec

(* Maps, threads and file stay well typed. *)
THEOREM PaymentsTypeOK == Spec => []TypeOK
  <1>1. Inv => TypeOK
    BY DEF Inv, Typed, FileTyped, IsTally, Jobs, TypeOK
  <1> QED
    BY PaymentsInvariant, <1>1, PTL

(* The tally of a block to come, or of a recent one, is the number of      *)
(* votes, whatever threads, cleaning, restarts and crashes do.             *)
THEOREM PaymentsTallyExact == Spec => []TallyExact
  <1>1. Inv => TallyExact
    BY DEF Inv, Exact, TallyExact
  <1> QED
    BY PaymentsInvariant, <1>1, PTL

-----------------------------------------------------------------------------
(* A set of natural numbers has a least element. *)
LEMMA LeastNat ==
  ASSUME NEW T, T \subseteq Nat, T # {}
  PROVE  \E n \in T : \A m \in T : n <= m
  <1> DEFINE R == OpToRel(<, Nat)
  <1>1. IsWellFoundedOn(R, Nat)
    BY NatLessThanWellFounded
  <1>2. \A x, y \in Nat : <<y, x>> \in R <=> y < x
    BY DEF OpToRel
  <1> HIDE DEF R
  <1>3. PICK x \in T : \A y \in T : ~ (<<y, x>> \in R)
    BY <1>1, WFMin
  <1>4. \A y \in T : ~(y < x)
    BY <1>2, <1>3
  <1> QED
    BY <1>4

(* GetPayee finds a payee whenever somebody has a vote: the least upper    *)
(* bound of the tally is the tally of some payee.                          *)
LEMMA PayeeFound ==
  ASSUME Inv, NEW h \in Recent \cap DOMAIN blocks, NEW e \in Scripts, blocks[h].tally[e] > 0
  PROVE  GetBlockPayee(h) # {}
  <1> DEFINE tally == blocks[h].tally
             bounds == {n \in Nat : \A p \in Scripts : tally[p] <= n}
  <1>1. \A p \in Scripts : tally[p] \in Nat
    BY DEF Inv, Typed, IsTally, Tallies
  <1>2. Cardinality(votes) \in bounds
    <2>1. IsFiniteSet(votes) /\ Cardinality(votes) \in Nat
      BY FS_CardinalityType DEF Inv, Typed
    <2>2. ASSUME NEW p \in Scripts PROVE tally[p] <= Cardinality(votes)
      <3>1. tally[p] = Cardinality(Counted(votes, uncounted \cup OnTheWay, h, p))
        BY DEF Inv, Exact
      <3>2. Counted(votes, uncounted \cup OnTheWay, h, p) \in SUBSET votes
        BY DEF Counted
      <3>3. Cardinality(Counted(votes, uncounted \cup OnTheWay, h, p)) <= Cardinality(votes)
        BY <2>1, <3>2, FS_Subset, Zenon
      <3> QED
        BY <3>1, <3>3
    <2> QED
      BY <2>1, <2>2
  <1>3. PICK m \in bounds : \A n \in bounds : m <= n
    BY <1>2, LeastNat
  <1> HIDE DEF tally
  <1>4. m \in Nat /\ m > 0 /\ \A p \in Scripts : tally[p] <= m
    BY <1>1, <1>3 DEF tally
  <1>5. \E p \in Scripts : tally[p] = m
    <2> SUFFICES ASSUME \A p \in Scripts : tally[p] # m PROVE FALSE
      OBVIOUS
    <2>1. m - 1 \in Nat /\ \A p \in Scripts : tally[p] <= m - 1
      BY <1>1, <1>4
    <2>2. m - 1 \in bounds
      BY <2>1
    <2> QED
      BY <1>3, <1>4, <2>2
  <1> QED
    BY <1>4, <1>5 DEF GetBlockPayee, tally

(* The masternode's share of the next block is that of the tip. *)
RewardSteady ==
    GetMasternodePayment(GetBlockValue(height)) = GetMasternodePayment(GetBlockValue(height + 1))

(* FillBlockPayee and IsTransactionValid agree on the next block in every  *)
(* state but those where the reward changes with the next block: the       *)
(* premine and the halvings are the only reason for a disagreement.        *)
THEOREM PaymentsFilledBlockValid == Spec => [](RewardSteady => FilledBlockValid)
  <1>1. Inv => (RewardSteady => FilledBlockValid)
    <2> DEFINE h == height + 1
    <2> SUFFICES ASSUME Inv, RewardSteady, NEW payment \in FilledPayments, h \in DOMAIN blocks,
                        NEW e \in Scripts, blocks[h].tally[e] >= Required
                 PROVE  /\ payment.payee \in {p \in Scripts : blocks[h].tally[p] >= Required}
                        /\ payment.value = GetMasternodePayment(GetBlockValue(blocks[h].nBlockHeight))
      BY DEF FilledBlockValid, IsTransactionValid
    <2>1. h \in Recent
      <3>1. /\ height \in Nat /\ top \in Nat /\ height >= 1 /\ height <= MaxHeight
            /\ top <= height + maxReorg
        BY HeightsInRange DEF Inv, Typed, ReorgBounded
      <3>2. VoteAhead < Ahead /\ maxReorg <= Limit
        BY PaymentsAssumption
      <3>3. h \in Heights
        BY <3>1, <3>2, HeightsInRange DEF Heights
      <3>4. h + Limit >= top
        BY <3>1, <3>2, HeightsInRange
      <3> QED
        BY <3>3, <3>4 DEF Recent
    <2>2. blocks[h].nBlockHeight = h /\ \A p \in Scripts : blocks[h].tally[p] \in Nat
      BY <2>1 DEF Inv, Typed, IsTally, Tallies, Exact
    <2>3. Required \in Nat \ {0}
      BY PaymentsAssumption
    <2>4. GetBlockPayee(h) # {}
      BY <2>1, <2>2, <2>3, PayeeFound
    <2>5. /\ payment.payee \in GetBlockPayee(h)
          /\ payment.value = GetMasternodePayment(GetBlockValue(height))
      BY <2>4 DEF FilledPayments
    <2>6. payment.payee \in Scripts /\ blocks[h].tally[payment.payee] >= Required
      BY <2>2, <2>3, <2>5 DEF GetBlockPayee
    <2> QED
      BY <2>2, <2>5, <2>6 DEF RewardSteady
  <1> QED
    BY PaymentsInvariant, <1>1, PTL
=============================================================================
