------------------------ MODULE MasternodeListProofs ------------------------
(***************************************************************************)
(* ServedPingFresh and ListSettles of MasternodeList, for every value of   *)
(* the time limits and any number of restarts of the masternode.           *)
(***************************************************************************)
EXTENDS MasternodeList, TLAPS

States == {"ENABLED", "PRE_ENABLED", "EXPIRED", "REMOVE", "VIN_SPENT"}
Message == [id : Ids, ping : 0..PingCap]

(* What the variables hold. *)
Typed ==
    /\ alive \in BOOLEAN /\ spent \in BOOLEAN /\ checked \in BOOLEAN
    /\ issued \in Ids
    /\ sigAge \in [Ids -> 0..SigCap]
    /\ entry \in [id : Ids, activeState : States, ping : 0..PingCap] \cup {NoEntry}
    /\ seen \in [Ids -> 0..PingCap \cup {NotSeen}]
    /\ pings \subseteq 0..WINDOW /\ seenPings \subseteq 0..WINDOW
    /\ mnb \in Message \cup {NoMessage} /\ pending \in Message \cup {NoMessage}
    /\ calm \in 0..Settling + 1

(* Nobody knows a broadcast that was not issued. *)
OnlyIssued == entry.id <= issued /\ mnb.id <= issued /\ pending.id <= issued

(* An entry is pre-enabled or expired for a reason that time alone does    *)
(* not take away.                                                          *)
StatesLast ==
    /\ entry.activeState = "PRE_ENABLED" =>
          sigAge[entry.id] - entry.ping < MIN_MNP \/ entry.ping >= EXPIRATION
    /\ entry.activeState = "EXPIRED" => entry.ping >= EXPIRATION
    /\ entry.activeState = "REMOVE" => entry.ping >= REMOVAL

(* In a calm time: a ping of this tick, or the last one of a masternode    *)
(* that has stopped, which was before the calm.                            *)
Recent(ping) == IF alive THEN ping = 0 ELSE ping >= calm \/ ping >= WINDOW

(* A masternode that runs has sent a ping in this tick, one that does not  *)
(* has sent none since the time is calm, and a broadcast is not on its way *)
(* for longer than a tick.                                                 *)
CalmMessages ==
    /\ alive => 0 \in pings
    /\ ~alive => \A p \in pings : p >= calm
    /\ calm > 0 /\ mnb # NoMessage => Recent(mnb.ping)

(* Between CheckAndUpdate and CheckInputsAndAdd the broadcast is among the *)
(* seen ones as it came, unless it was removed with the entry or is too    *)
(* old to be added.                                                        *)
PendingSeen ==
    pending # NoMessage =>
        \/ seen[pending.id] = pending.ping
        \/ entry = NoEntry /\ seen[pending.id] = NotSeen
        \/ pending.ping >= WINDOW

(* The copy for peers is behind the entry. *)
Stale ==
    /\ alive /\ entry.activeState = "ENABLED" /\ seen[entry.id] # NotSeen
    /\ seen[entry.id] - entry.ping >= MIN_MNP

(* It has been for as long as the time was calm, and the ping of this tick *)
(* was too soon to be taken.                                               *)
StaleRecent ==
    Stale => /\ calm <= entry.ping /\ calm <= MIN_MNP
             /\ calm > 0 /\ 0 \in seenPings => entry.ping < MIN_MNP

ListInv == Typed /\ OnlyIssued /\ StatesLast /\ CalmMessages /\ PendingSeen /\ StaleRecent

-----------------------------------------------------------------------------
(* The limits are numbers, in the order of the code. *)
LEMMA Limits ==
  /\ MIN_MNP \in Nat /\ MIN_MNP > 0 /\ MIN_MNB \in Nat /\ WINDOW \in Nat /\ WINDOW >= MIN_MNP
  /\ EXPIRATION \in Nat /\ EXPIRATION > WINDOW /\ REMOVAL \in Nat /\ REMOVAL > EXPIRATION
  /\ PingCap = 2 * REMOVAL + 1 /\ SigCap = EXPIRATION + MIN_MNP
  /\ Settling = 2 * REMOVAL + MIN_MNP + 1
  /\ MaxBroadcasts \in Nat /\ 1 \in Ids /\ \A i \in Ids : i \in Nat /\ i # 0
  BY ListAssumption DEF PingCap, SigCap, Settling, Ids

(* An entry and a message are not the empty ones. *)
LEMMA Distinct ==
  /\ NotSeen \notin 0..PingCap
  /\ \A e \in [id : Ids, activeState : States, ping : 0..PingCap] : e # NoEntry /\ e.activeState # "none"
  /\ NoEntry.activeState = "none" /\ NoEntry.id = 0 /\ NoEntry.ping = 0
  /\ \A m \in Message : m # NoMessage
  BY Limits DEF NotSeen, NoEntry, NoMessage, Message, States

(* CMasternode::Check changes only the state, and makes an entry enabled   *)
(* only if it was, or if neither its age nor a young broadcast speaks      *)
(* against it.                                                             *)
LEMMA CheckFacts ==
  ASSUME Typed, NEW e \in [id : Ids, activeState : States, ping : 0..PingCap], NEW busy \in BOOLEAN,
         NEW c, c = Check(e, busy)
  PROVE  /\ c \in [id : Ids, activeState : States, ping : 0..PingCap]
         /\ c.id = e.id /\ c.ping = e.ping
         /\ c.activeState = "PRE_ENABLED" => \/ sigAge[c.id] - c.ping < MIN_MNP
                                             \/ e.activeState = "PRE_ENABLED"
         /\ c.activeState = "EXPIRED" => c.ping >= EXPIRATION \/ e.activeState = "EXPIRED"
         /\ c.activeState = "REMOVE" => c.ping >= REMOVAL \/ e.activeState = "REMOVE"
         /\ c.activeState = "ENABLED" => \/ e.activeState = "ENABLED"
                                         \/ /\ e.activeState # "VIN_SPENT" /\ e.ping < EXPIRATION
                                            /\ sigAge[e.id] - e.ping >= MIN_MNP
  <1>1. sigAge[e.id] \in 0..SigCap /\ e.ping \in 0..PingCap /\ spent \in BOOLEAN
    BY DEF Typed
  <1>2. CASE e.activeState = "VIN_SPENT"
    BY <1>2 DEF Check
  <1>3. CASE e.activeState # "VIN_SPENT" /\ e.ping >= REMOVAL
    <2>1. c = [e EXCEPT !.activeState = "REMOVE"]
      BY <1>1, <1>3, Limits DEF Check
    <2> QED
      BY <1>3, <2>1 DEF States
  <1>4. CASE e.activeState # "VIN_SPENT" /\ EXPIRATION <= e.ping /\ e.ping < REMOVAL
    <2>1. c = [e EXCEPT !.activeState = "EXPIRED"]
      BY <1>1, <1>4, Limits DEF Check
    <2> QED
      BY <1>4, <2>1 DEF States
  <1>5. CASE e.activeState # "VIN_SPENT" /\ e.ping < EXPIRATION /\ sigAge[e.id] - e.ping < MIN_MNP
    <2>1. c = [e EXCEPT !.activeState = "PRE_ENABLED"]
      BY <1>1, <1>5, Limits DEF Check
    <2> QED
      BY <1>5, <2>1 DEF States
  <1>6. CASE e.activeState # "VIN_SPENT" /\ e.ping < EXPIRATION /\ sigAge[e.id] - e.ping >= MIN_MNP
    <2>1. c = IF busy THEN e ELSE [e EXCEPT !.activeState = IF spent THEN "VIN_SPENT" ELSE "ENABLED"]
      BY <1>1, <1>6, Limits DEF Check
    <2>2. c = e \/ c = [e EXCEPT !.activeState = "VIN_SPENT"] \/ c = [e EXCEPT !.activeState = "ENABLED"]
      BY <2>1
    <2> QED
      BY <1>1, <1>6, <2>2 DEF States
  <1> QED
    BY <1>1, <1>2, <1>3, <1>4, <1>5, <1>6, Limits

(* An entry for which time alone has passed is enabled after Check only if *)
(* it was before.                                                          *)
LEMMA CheckKeeps ==
  ASSUME Typed, StatesLast, entry # NoEntry, NEW busy \in BOOLEAN, NEW c, c = Check(entry, busy)
  PROVE  /\ c \in [id : Ids, activeState : States, ping : 0..PingCap]
         /\ c.id = entry.id /\ c.ping = entry.ping
         /\ c.activeState = "ENABLED" => entry.activeState = "ENABLED"
         /\ c.activeState = "PRE_ENABLED" =>
               sigAge[c.id] - c.ping < MIN_MNP \/ c.ping >= EXPIRATION
         /\ c.activeState = "EXPIRED" => c.ping >= EXPIRATION
         /\ c.activeState = "REMOVE" => c.ping >= REMOVAL
  <1>1. entry \in [id : Ids, activeState : States, ping : 0..PingCap]
    BY DEF Typed
  <1>2. sigAge[entry.id] \in Int /\ entry.ping \in Int
    BY <1>1 DEF Typed
  <1> QED
    BY <1>1, <1>2, CheckFacts, Limits DEF StatesLast, States

(* The messages of a calm time stay so when nothing is sent. *)
LEMMA SameMessages ==
  ASSUME ListInv, UNCHANGED <<alive, pings>>, calm' \in {0, calm}, mnb' \in {mnb, NoMessage}
  PROVE  CalmMessages'
  <1>1. calm \in Nat /\ pings \subseteq 0..WINDOW
    BY DEF ListInv, Typed
  <1>2. \A p \in pings : p \in Nat
    BY <1>1
  <1>3. CASE calm' = 0
    BY <1>2, <1>3 DEF ListInv, CalmMessages
  <1>4. CASE calm' = calm
    BY <1>4 DEF ListInv, CalmMessages, Recent
  <1> QED
    BY <1>3, <1>4

(* What a peer sends is the last broadcast with the last ping. *)
LEMMA ServedFacts ==
  ASSUME ListInv, NEW m \in Served
  PROVE  m \in Message /\ m # NoMessage /\ m.id = issued /\ Recent(m.ping)
  <1>1. pings \subseteq 0..WINDOW /\ issued \in Ids
    BY DEF ListInv, Typed
  <1>2. m.id = issued /\ m = [id |-> issued, ping |-> m.ping]
    BY DEF Served
  <1>3. CASE pings = {}
    <2>1. m.ping \in WINDOW + 1 .. PingCap
      BY <1>3 DEF Served
    <2>2. m.ping \in 0..PingCap /\ m.ping >= WINDOW
      BY <2>1, Limits
    <2>3. ~alive
      BY <1>3 DEF ListInv, CalmMessages
    <2>4. m \in Message
      BY <1>1, <1>2, <2>2 DEF Message
    <2> QED
      BY <1>2, <2>2, <2>3, <2>4, Distinct DEF Recent
  <1>4. CASE pings # {}
    <2>1. m.ping \in pings /\ \A q \in pings : m.ping <= q
      BY <1>4 DEF Served
    <2>2. m.ping \in 0..PingCap
      <3>1. m.ping \in 0..WINDOW
        BY <1>1, <2>1
      <3> QED
        BY <3>1, Limits
    <2>3. Recent(m.ping)
      BY <2>1, <2>2 DEF ListInv, CalmMessages, Recent
    <2>4. m \in Message
      BY <1>1, <1>2, <2>2 DEF Message
    <2> QED
      BY <1>2, <2>3, <2>4, Distinct
  <1> QED
    BY <1>3, <1>4

-----------------------------------------------------------------------------
(* Steps that leave the node's state alone, and the time not calmer. *)
LEMMA NodeSame ==
  ASSUME ListInv, UNCHANGED node, UNCHANGED sigAge, calm' \in {0, calm}, alive' \in BOOLEAN, spent' \in BOOLEAN,
         issued' \in Ids, issued' >= issued, pings' \subseteq 0..WINDOW,
         mnb' \in Message \cup {NoMessage}, mnb'.id <= issued', CalmMessages',
         alive' => alive \/ calm' = 0
  PROVE  ListInv'
  <1>1. UNCHANGED <<entry, seen, seenPings, asked, pending, checked>>
    BY DEF node
  <1>2. entry.id \in Nat /\ pending.id \in Nat /\ issued \in Nat /\ issued' \in Nat /\ calm \in Nat
    BY Limits, Distinct DEF ListInv, Typed, Message, NoMessage
  <1>3. Typed'
    BY <1>1, <1>2, Limits DEF ListInv, Typed
  <1>4. OnlyIssued' /\ StatesLast' /\ PendingSeen'
    BY <1>1, <1>2 DEF ListInv, OnlyIssued, StatesLast, PendingSeen
  <1>5. StaleRecent'
    <2>1. entry.activeState = "ENABLED" => entry.ping \in Nat
      BY Distinct DEF ListInv, Typed
    <2>2. CASE calm' = 0
      BY <1>1, <2>1, <2>2, Limits DEF StaleRecent, Stale
    <2>3. CASE calm' = calm /\ (alive' => alive)
      BY <1>1, <2>3 DEF ListInv, StaleRecent, Stale
    <2> QED
      BY <2>2, <2>3
  <1> QED
    BY <1>3, <1>4, <1>5 DEF ListInv

(* The masternode, the chain and the peers. *)
LEMMA AroundInv ==
  ASSUME ListInv, StartMasternode \/ StopMasternode \/ SpendCollateral \/ PeerSends \/ LoseBroadcast
  PROVE  ListInv'
  <1>1. /\ issued \in Ids /\ issued \in Nat /\ mnb \in Message \cup {NoMessage} /\ mnb.id <= issued
        /\ pings \subseteq 0..WINDOW /\ NoMessage.id = 0 /\ 0 \in 0..WINDOW /\ 0 \in 0..PingCap
        /\ alive \in BOOLEAN /\ spent \in BOOLEAN /\ calm \in Nat
    BY Limits DEF ListInv, Typed, OnlyIssued, NoMessage
  <1>2. CASE StartMasternode
    <2>1. issued' \in Ids /\ issued' = issued + 1
      BY <1>1, <1>2, Limits DEF StartMasternode, Ids
    <2>2. mnb' \in Message /\ mnb'.id = issued' /\ mnb'.ping = 0
      BY <1>1, <1>2, <2>1 DEF StartMasternode, Message
    <2>3. CalmMessages'
      BY <1>2, <2>2 DEF StartMasternode, CalmMessages
    <2> QED
      BY <1>1, <1>2, <2>1, <2>2, <2>3, NodeSame DEF StartMasternode
  <1>3. CASE StopMasternode \/ SpendCollateral \/ LoseBroadcast
    <2>1. /\ UNCHANGED node /\ UNCHANGED <<sigAge, issued, pings>> /\ calm' = 0
          /\ mnb' \in {mnb, NoMessage} /\ alive' \in BOOLEAN /\ (alive' => alive) /\ spent' \in BOOLEAN
      <3>1. CASE StopMasternode
        BY <1>1, <3>1 DEF StopMasternode
      <3>2. CASE SpendCollateral
        <4>1. spent' \in BOOLEAN
          BY <3>2 DEF SpendCollateral
        <4> QED
          BY <1>1, <3>2, <4>1 DEF SpendCollateral
      <3>3. CASE LoseBroadcast
        BY <1>1, <3>3 DEF LoseBroadcast
      <3> QED
        BY <1>3, <3>1, <3>2, <3>3
    <2>2. CalmMessages'
      <3>1. \A p \in pings : p >= 0
        BY <1>1
      <3> QED
        BY <2>1, <3>1 DEF ListInv, CalmMessages
    <2>3. mnb' \in Message \cup {NoMessage} /\ mnb'.id <= issued
      BY <1>1, <2>1
    <2> QED
      BY <1>1, <2>1, <2>2, <2>3, NodeSame
  <1>4. CASE PeerSends
    <2>1. mnb' \in Message /\ mnb'.id = issued /\ Recent(mnb'.ping)
      BY <1>4, ServedFacts DEF PeerSends
    <2>2. CalmMessages'
      BY <1>4, <2>1 DEF PeerSends, ListInv, CalmMessages, Recent
    <2> QED
      BY <1>1, <1>4, <2>1, <2>2, NodeSame DEF PeerSends
  <1> QED
    BY <1>2, <1>3, <1>4

(* GETMNLIST: what is served is the ping of the entry. *)
LEMMA GetMNListInv ==
  ASSUME ListInv, GetMNList
  PROVE  ListInv'
  <1>1. /\ entry \in [id : Ids, activeState : States, ping : 0..PingCap] /\ entry # NoEntry
        /\ seen \in [Ids -> 0..PingCap \cup {NotSeen}] /\ seen[entry.id] = NotSeen
        /\ seen' = [seen EXCEPT ![entry.id] = entry.ping]
        /\ UNCHANGED <<alive, spent, issued, sigAge, entry, pings, seenPings, asked, mnb, pending, checked, calm>>
    BY Distinct DEF GetMNList, ListInv, Typed
  <1>2. Typed'
    BY <1>1 DEF ListInv, Typed
  <1>3. OnlyIssued' /\ StatesLast' /\ CalmMessages'
    BY <1>1, SameMessages DEF ListInv, OnlyIssued, StatesLast
  <1>4. PendingSeen'
    <2>1. CASE pending.id = entry.id /\ pending # NoMessage
      <3>1. pending.ping \in 0..PingCap /\ seen[pending.id] = NotSeen
        BY <1>1, <2>1 DEF ListInv, Typed, Message
      <3>2. pending.ping >= WINDOW
        BY <1>1, <2>1, <3>1, Distinct DEF ListInv, PendingSeen
      <3> QED
        BY <1>1, <3>2 DEF PendingSeen
    <2>2. CASE pending.id # entry.id \/ pending = NoMessage
      <3>1. pending # NoMessage => pending.id \in Ids
        BY DEF ListInv, Typed, Message
      <3> QED
        BY <1>1, <2>2, <3>1 DEF ListInv, PendingSeen
    <2> QED
      BY <2>1, <2>2
  <1>5. StaleRecent'
    BY <1>1, Limits DEF StaleRecent, Stale
  <1> QED
    BY <1>2, <1>3, <1>4, <1>5 DEF ListInv

(* CheckAndRemove. *)
LEMMA CheckAndRemoveInv ==
  ASSUME ListInv, NEW busy \in BOOLEAN, CheckAndRemove(busy)
  PROVE  ListInv'
  <1> DEFINE e == IF entry = NoEntry THEN entry ELSE Check(entry, busy)
             fRemove == e.activeState \in {"REMOVE", "VIN_SPENT"}
             left == IF fRemove THEN Erased ELSE seen
  <1>1. /\ entry' = IF fRemove THEN NoEntry ELSE e
        /\ seen' = [i \in Ids |-> IF left[i] > 2 * REMOVAL THEN NotSeen ELSE left[i]]
        /\ checked' = TRUE /\ calm' = IF busy THEN 0 ELSE calm
        /\ UNCHANGED <<alive, spent, issued, sigAge, pings, seenPings, mnb, pending>>
    BY DEF CheckAndRemove
  <1>2. /\ Typed /\ StatesLast /\ calm \in Nat /\ calm' \in {0, calm}
        /\ seen \in [Ids -> 0..PingCap \cup {NotSeen}] /\ NotSeen = -1
    BY <1>1 DEF ListInv, Typed, NotSeen
  <1>3. CASE entry = NoEntry
    <2>1. entry' = NoEntry /\ ~fRemove
      BY <1>1, <1>3, Distinct
    <2>2. seen' = [i \in Ids |-> IF seen[i] > 2 * REMOVAL THEN NotSeen ELSE seen[i]]
      BY <1>1, <2>1
    <2>3. \A i \in Ids : \/ seen'[i] = seen[i]
                         \/ seen'[i] = NotSeen /\ seen[i] > 2 * REMOVAL
      BY <2>2
    <2>4. Typed' /\ OnlyIssued' /\ StatesLast' /\ CalmMessages'
      <3>1. seen' \in [Ids -> 0..PingCap \cup {NotSeen}]
        BY <1>2, <2>2
      <3>2. Typed'
        BY <1>1, <1>2, <2>1, <3>1, Limits DEF Typed
      <3> QED
        BY <1>1, <1>2, <1>3, <2>1, <3>2, Distinct, SameMessages DEF ListInv, OnlyIssued, StatesLast
    <2>5. PendingSeen' /\ StaleRecent'
      <3>1. pending # NoMessage => pending.id \in Ids
        BY DEF ListInv, Typed, Message
      <3>2. PendingSeen'
        BY <1>1, <1>2, <1>3, <2>1, <2>3, <3>1, Limits DEF ListInv, PendingSeen
      <3> QED
        BY <2>1, <3>2, Distinct DEF StaleRecent, Stale
    <2> QED
      BY <2>4, <2>5 DEF ListInv
  <1>4. CASE entry # NoEntry
    <2>1. /\ e \in [id : Ids, activeState : States, ping : 0..PingCap] /\ e.id = entry.id /\ e.ping = entry.ping
          /\ e.activeState = "ENABLED" => entry.activeState = "ENABLED"
          /\ e.activeState = "PRE_ENABLED" => sigAge[e.id] - e.ping < MIN_MNP \/ e.ping >= EXPIRATION
          /\ e.activeState = "EXPIRED" => e.ping >= EXPIRATION
          /\ e.activeState = "REMOVE" => e.ping >= REMOVAL
      BY <1>2, <1>4, CheckKeeps
    <2> HIDE DEF e
    <2>2. pending # NoMessage => pending \in Message /\ pending.id \in Ids /\ pending.ping \in Nat
      BY DEF ListInv, Typed, Message
    <2>3. CASE fRemove
      <3>1. entry' = NoEntry /\ seen' = [i \in Ids |-> NotSeen]
        BY <1>1, <1>2, <2>3, Limits DEF Erased
      <3>2. Typed'
        BY <1>1, <1>2, <3>1, Limits DEF Typed
      <3>3. CalmMessages'
        BY <1>1, <1>2, SameMessages
      <3> QED
        BY <1>1, <1>2, <2>2, <3>1, <3>2, <3>3, Distinct, Limits DEF ListInv, OnlyIssued, StatesLast,
           PendingSeen, StaleRecent, Stale, Typed
    <2>4. CASE ~fRemove
      <3>1. entry' = e /\ seen' = [i \in Ids |-> IF seen[i] > 2 * REMOVAL THEN NotSeen ELSE seen[i]]
        BY <1>1, <2>4
      <3>2. \A i \in Ids : \/ seen'[i] = seen[i]
                           \/ seen'[i] = NotSeen /\ seen[i] > 2 * REMOVAL
        BY <3>1
      <3>3. Typed'
        <4>1. seen' \in [Ids -> 0..PingCap \cup {NotSeen}]
          BY <1>2, <3>1
        <4> QED
          BY <1>1, <1>2, <2>1, <3>1, <4>1, Limits DEF Typed
      <3>4. OnlyIssued' /\ StatesLast' /\ CalmMessages'
        BY <1>1, <1>2, <2>1, <3>1, SameMessages DEF ListInv, OnlyIssued, StatesLast
      <3>5. PendingSeen'
        BY <1>1, <1>2, <1>4, <2>2, <3>2, Limits DEF ListInv, PendingSeen
      <3>6. StaleRecent'
        <4>1. Stale' => Stale
          BY <1>1, <2>1, <3>1, <3>2 DEF Stale
        <4>2. e.ping \in Nat
          BY <2>1
        <4> QED
          BY <1>1, <1>2, <2>1, <3>1, <4>1, <4>2, Limits DEF ListInv, StaleRecent
      <3> QED
        BY <3>3, <3>4, <3>5, <3>6 DEF ListInv
    <2> QED
      BY <2>3, <2>4
  <1> QED
    BY <1>3, <1>4

(* CheckInputsAndAdd: the entry that is added is as fresh as its copy. *)
LEMMA CheckInputsAndAddInv ==
  ASSUME ListInv, NEW later \in BOOLEAN, CheckInputsAndAdd(later)
  PROVE  ListInv'
  <1>1. /\ pending \in Message /\ pending.id \in Ids /\ pending.ping \in 0..PingCap
        /\ pending.id <= issued /\ issued \in Nat /\ pending.id \in Nat
    BY Limits DEF CheckInputsAndAdd, ListInv, Typed, Message, OnlyIssued
  <1>2. /\ pending' = NoMessage /\ calm' \in {0, calm}
        /\ UNCHANGED <<alive, spent, issued, sigAge, pings, seenPings, asked, mnb, checked>>
    BY DEF CheckInputsAndAdd
  <1>3. /\ Typed /\ calm \in Nat /\ NoMessage.id = 0
        /\ seen \in [Ids -> 0..PingCap \cup {NotSeen}]
    BY DEF ListInv, Typed, NoMessage
  <1>4. PendingSeen' /\ CalmMessages'
    BY <1>2, <1>3, SameMessages DEF ListInv, PendingSeen
  <1>5. CASE UNCHANGED <<entry, seen>>
    <2>1. Typed' /\ OnlyIssued' /\ StatesLast'
      BY <1>1, <1>2, <1>3, <1>5, Limits DEF ListInv, Typed, OnlyIssued, StatesLast
    <2>2. Stale => entry.ping \in Nat
      BY Distinct DEF Stale, ListInv, Typed
    <2>3. StaleRecent'
      BY <1>2, <1>3, <1>5, <2>2, Limits DEF ListInv, StaleRecent, Stale
    <2> QED
      BY <1>4, <2>1, <2>3 DEF ListInv
  <1>6. CASE /\ pending.ping < WINDOW
             /\ entry' = IF later \/ spent THEN NoEntry
                         ELSE [id |-> pending.id, activeState |-> "ENABLED", ping |-> pending.ping]
             /\ seen' = IF later THEN [seen EXCEPT ![pending.id] = NotSeen] ELSE seen
    <2>1. seen[pending.id] = pending.ping \/ seen[pending.id] = NotSeen
      <3>1. ~(pending.ping >= WINDOW)
        BY <1>1, <1>6, Limits
      <3>2. pending # NoMessage
        BY <1>1, Distinct
      <3> QED
        BY <3>1, <3>2 DEF ListInv, PendingSeen
    <2>2. seen' \in [Ids -> 0..PingCap \cup {NotSeen}]
      BY <1>1, <1>3, <1>6
    <2>3. CASE entry' = NoEntry
      <3>1. Typed'
        BY <1>2, <1>3, <2>2, <2>3, Limits DEF Typed
      <3> QED
        BY <1>1, <1>2, <1>3, <1>4, <2>3, <3>1, Distinct DEF ListInv, OnlyIssued, StatesLast, StaleRecent, Stale
    <2>4. CASE /\ entry' = [id |-> pending.id, activeState |-> "ENABLED", ping |-> pending.ping]
               /\ ~later /\ seen' = seen
      <3>1. /\ entry' \in [id : Ids, activeState : States, ping : 0..PingCap]
            /\ entry'.id = pending.id /\ entry'.ping = pending.ping /\ entry'.activeState = "ENABLED"
        BY <1>1, <2>4 DEF States
      <3>2. Typed'
        BY <1>2, <1>3, <2>2, <3>1, Limits DEF Typed
      <3>3. ~Stale'
        BY <1>1, <2>1, <2>4, <3>1, Limits DEF Stale
      <3> QED
        BY <1>1, <1>2, <1>3, <1>4, <3>1, <3>2, <3>3 DEF ListInv, OnlyIssued, StatesLast, StaleRecent
    <2> QED
      BY <1>6, <2>3, <2>4
  <1> QED
    BY <1>1, <1>5, <1>6, Limits DEF CheckInputsAndAdd

(* AskForMN asks for the last broadcast. *)
LEMMA AskForMNFacts ==
  ASSUME ListInv, AskForMN \/ UNCHANGED <<asked, mnb>>
  PROVE  /\ mnb' \in Message \cup {NoMessage} /\ mnb'.id <= issued
         /\ calm > 0 /\ mnb' # NoMessage => Recent(mnb'.ping)
  <1>1. issued \in Ids /\ issued \in Nat
    BY Limits DEF ListInv, Typed
  <1>2. CASE mnb' \in Served
    BY <1>1, <1>2, ServedFacts
  <1>3. CASE mnb' = mnb
    BY <1>3 DEF ListInv, Typed, OnlyIssued, CalmMessages
  <1> QED
    BY <1>2, <1>3 DEF AskForMN

(* MNPING: the entry and its copy take the same ping. *)
LEMMA MNPingInv ==
  ASSUME ListInv, NEW ping \in pings, NEW busy \in BOOLEAN, NEW fBlockKnown \in BOOLEAN,
         MNPing(ping, busy, fBlockKnown)
  PROVE  ListInv'
  <1> DEFINE fTake == ping < WINDOW /\ entry.activeState = "ENABLED" /\ PingTaken(entry, ping, fBlockKnown)
             asking == AskForMN \/ UNCHANGED <<asked, mnb>>
  <1>1. /\ pending = NoMessage /\ seenPings' = seenPings \cup {ping} /\ asking
        /\ entry' = IF fTake THEN Check([entry EXCEPT !.ping = ping], busy) ELSE entry
        /\ seen' = IF fTake THEN WithPing(seen, entry.id, ping) ELSE seen
        /\ calm' = IF busy \/ ~fBlockKnown THEN 0 ELSE calm
        /\ UNCHANGED <<alive, spent, issued, sigAge, pings, pending, checked>>
    BY DEF MNPing
  <1>2. /\ mnb' \in Message \cup {NoMessage} /\ mnb'.id <= issued
        /\ calm > 0 /\ mnb' # NoMessage => Recent(mnb'.ping)
    BY <1>1, AskForMNFacts
  <1>3. /\ Typed /\ calm \in Nat /\ calm' \in {0, calm} /\ ping \in 0..WINDOW /\ ping \in 0..PingCap
        /\ seenPings' \subseteq 0..WINDOW /\ issued \in Nat
        /\ seen \in [Ids -> 0..PingCap \cup {NotSeen}]
    BY <1>1, Limits DEF ListInv, Typed
  <1>4. PendingSeen' /\ CalmMessages'
    <2>1. \A p \in pings : p \in Nat
      BY <1>3 DEF Typed
    <2> QED
      BY <1>1, <1>2, <1>3, <2>1 DEF ListInv, PendingSeen, CalmMessages, Recent
  <1>5. CASE fTake
    <2>1. entry \in [id : Ids, activeState : States, ping : 0..PingCap]
      BY <1>5, Distinct DEF ListInv, Typed
    <2>2. PICK e \in [id : Ids, activeState : States, ping : 0..PingCap] : e = [entry EXCEPT !.ping = ping]
      BY <1>3, <2>1
    <2>3. e.id = entry.id /\ e.ping = ping /\ e.activeState = "ENABLED"
      BY <1>5, <2>1, <2>2
    <2>4. entry' = Check(e, busy)
      BY <1>1, <1>5, <2>2
    <2>5. /\ entry' \in [id : Ids, activeState : States, ping : 0..PingCap]
          /\ entry'.id = e.id /\ entry'.ping = e.ping
          /\ entry'.activeState = "PRE_ENABLED" => sigAge[e.id] - e.ping < MIN_MNP
          /\ entry'.activeState = "EXPIRED" => e.ping >= EXPIRATION
          /\ entry'.activeState = "REMOVE" => e.ping >= REMOVAL
      BY <1>3, <2>3, <2>4, CheckFacts
    <2>6. /\ seen' \in [Ids -> 0..PingCap \cup {NotSeen}]
          /\ seen'[entry.id] \in {NotSeen, ping}
      BY <1>1, <1>3, <1>5, <2>1 DEF WithPing
    <2>7. Typed'
      BY <1>1, <1>2, <1>3, <2>5, <2>6, Limits DEF Typed
    <2>8. OnlyIssued' /\ StatesLast'
      BY <1>1, <1>2, <1>3, <2>3, <2>5 DEF ListInv, OnlyIssued, StatesLast
    <2>9. StaleRecent'
      BY <1>3, <2>3, <2>5, <2>6, Limits DEF StaleRecent, Stale
    <2> QED
      BY <1>4, <2>7, <2>8, <2>9 DEF ListInv
  <1>6. CASE ~fTake
    <2>1. entry' = entry /\ seen' = seen
      BY <1>1, <1>6
    <2>2. Typed'
      BY <1>1, <1>2, <1>3, <2>1, Limits DEF Typed
    <2>3. OnlyIssued' /\ StatesLast'
      BY <1>1, <1>2, <1>3, <2>1 DEF ListInv, OnlyIssued, StatesLast
    <2>4. ASSUME Stale, calm' > 0, ping = 0
          PROVE  entry.ping < MIN_MNP
      <3>1. entry.ping \in Nat /\ entry.activeState = "ENABLED" /\ fBlockKnown
        BY <1>1, <2>4, Distinct DEF Stale, ListInv, Typed
      <3> QED
        BY <1>6, <2>4, <3>1, Limits DEF PingTaken
    <2>5. StaleRecent'
      <3>1. Stale' <=> Stale
        BY <1>1, <2>1 DEF Stale
      <3>2. Stale => entry.ping \in Nat
        BY Distinct DEF Stale, ListInv, Typed
      <3> QED
        BY <1>1, <1>3, <2>1, <2>4, <3>1, <3>2, Limits DEF ListInv, StaleRecent
    <2> QED
      BY <1>4, <2>2, <2>3, <2>5 DEF ListInv
  <1> QED
    BY <1>5, <1>6

(* MNBROADCAST: in a calm time the broadcast carries a new ping, so that   *)
(* the copy it becomes is not behind the entry.                            *)
LEMMA MNBroadcastInv ==
  ASSUME ListInv, NEW busy \in BOOLEAN, NEW fBlockKnown \in BOOLEAN, MNBroadcast(busy, fBlockKnown)
  PROVE  ListInv'
  <1> DEFINE m == mnb
             fNew == seen[m.id] = NotSeen
             fValid == fNew /\ m.ping < WINDOW /\ (entry = NoEntry \/ entry.id < m.id)
             fUpdate == fValid /\ entry.activeState = "ENABLED" /\ sigAge[entry.id] >= MIN_MNB
             fPing == fUpdate /\ PingTaken(entry, m.ping, fBlockKnown)
             updated == Check(UpdateFromNewBroadcast(entry, m, fPing), busy)
  <1>1. /\ mnb' = NoMessage /\ mnb # NoMessage
        /\ seen' = IF fNew THEN [seen EXCEPT ![m.id] = m.ping] ELSE seen
        /\ pending' = IF fValid THEN m ELSE NoMessage
        /\ entry' = IF fUpdate THEN updated ELSE entry
        /\ seenPings' = IF fPing /\ updated.activeState = "ENABLED"
                        THEN seenPings \cup ({m.ping} \cap pings) ELSE seenPings
        /\ calm' = IF busy \/ ~fBlockKnown THEN 0 ELSE calm
        /\ UNCHANGED <<alive, spent, issued, sigAge, pings, asked, checked>>
    BY DEF MNBroadcast
  <1>2. /\ m \in Message /\ m.id \in Ids /\ m.ping \in 0..PingCap /\ m.id <= issued
        /\ issued \in Nat /\ m.id \in Nat /\ (calm > 0 /\ alive => m.ping = 0)
    BY <1>1, Limits DEF ListInv, Typed, Message, OnlyIssued, CalmMessages, Recent
  <1>3. /\ Typed /\ calm \in Nat /\ calm' \in {0, calm} /\ NoMessage.id = 0
        /\ seen \in [Ids -> 0..PingCap \cup {NotSeen}] /\ seenPings' \subseteq 0..WINDOW
        /\ pending' \in Message \cup {NoMessage} /\ pending'.id <= issued'
    <2>1. Typed /\ calm \in Nat /\ NoMessage.id = 0 /\ pings \subseteq 0..WINDOW /\ seenPings \subseteq 0..WINDOW
      BY DEF ListInv, Typed, NoMessage
    <2>2. pending' = m \/ pending' = NoMessage
      BY <1>1
    <2>3. seenPings' = seenPings \/ seenPings' = seenPings \cup ({m.ping} \cap pings)
      BY <1>1
    <2>4. calm' \in {0, calm} /\ issued' = issued
      BY <1>1
    <2>5. seen \in [Ids -> 0..PingCap \cup {NotSeen}]
      BY <2>1 DEF Typed
    <2>6. pending'.id <= issued'
      BY <1>2, <2>1, <2>2, <2>4
    <2>7. seenPings' \subseteq 0..WINDOW
      BY <2>1, <2>3
    <2> QED
      BY <1>2, <2>1, <2>2, <2>4, <2>5, <2>6, <2>7
  <1>4. seen' \in [Ids -> 0..PingCap \cup {NotSeen}] /\ (fNew => seen'[m.id] = m.ping)
    BY <1>1, <1>2, <1>3
  <1>5. PendingSeen' /\ CalmMessages'
    <2>1. PendingSeen'
      BY <1>1, <1>4 DEF PendingSeen
    <2>2. CalmMessages'
      BY <1>1, <1>3, SameMessages
    <2> QED
      BY <2>1, <2>2
  <1>6. CASE fUpdate
    <2>1. entry \in [id : Ids, activeState : States, ping : 0..PingCap] /\ entry.activeState = "ENABLED"
      BY <1>6, Distinct DEF ListInv, Typed
    <2>2. PICK e \in [id : Ids, activeState : States, ping : 0..PingCap] :
             /\ e = UpdateFromNewBroadcast(entry, m, fPing)
             /\ e.id = m.id /\ e.activeState = "ENABLED" /\ e.ping = IF fPing THEN m.ping ELSE entry.ping
      <3> HIDE DEF fPing
      <3> DEFINE p == IF fPing THEN m.ping ELSE entry.ping
      <3>1. UpdateFromNewBroadcast(entry, m, fPing) = [entry EXCEPT !.id = m.id, !.ping = p]
        BY <2>1 DEF UpdateFromNewBroadcast
      <3>2. UpdateFromNewBroadcast(entry, m, fPing) \in [id : Ids, activeState : States, ping : 0..PingCap]
        <4>1. p \in 0..PingCap
          BY <1>2, <2>1
        <4> HIDE DEF p
        <4> QED
          BY <1>2, <2>1, <3>1, <4>1
      <3> QED
        BY <2>1, <3>1, <3>2
    <2>3. entry' = Check(e, busy)
      BY <1>1, <1>6, <2>2
    <2>4. /\ entry' \in [id : Ids, activeState : States, ping : 0..PingCap]
          /\ entry'.id = e.id /\ entry'.ping = e.ping
          /\ entry'.activeState = "PRE_ENABLED" => sigAge[e.id] - e.ping < MIN_MNP
          /\ entry'.activeState = "EXPIRED" => e.ping >= EXPIRATION
          /\ entry'.activeState = "REMOVE" => e.ping >= REMOVAL
      BY <1>3, <2>2, <2>3, CheckFacts
    <2>5. Typed'
      BY <1>1, <1>3, <1>4, <2>4, Limits DEF Typed
    <2>6. OnlyIssued' /\ StatesLast'
      BY <1>1, <1>2, <1>3, <2>2, <2>4 DEF ListInv, OnlyIssued, StatesLast
    <2>7. Stale' => calm' = 0
      <3>1. Stale' => m.ping - e.ping >= MIN_MNP /\ alive
        BY <1>1, <1>4, <1>6, <2>2, <2>4 DEF Stale
      <3> QED
        BY <1>2, <1>3, <3>1, Limits
    <2>8. StaleRecent'
      BY <2>4, <2>7, Limits DEF StaleRecent
    <2> QED
      BY <1>5, <2>5, <2>6, <2>8 DEF ListInv
  <1>7. CASE ~fUpdate
    <2>1. entry' = entry /\ seenPings' = seenPings
      BY <1>1, <1>7
    <2>2. Typed'
      BY <1>1, <1>3, <1>4, <2>1, Limits DEF Typed
    <2>3. OnlyIssued' /\ StatesLast'
      BY <1>1, <1>2, <1>3, <2>1 DEF ListInv, OnlyIssued, StatesLast
    <2>4. Stale' => entry.ping \in Nat /\ entry.id \in Ids
      BY <2>1, Distinct DEF Stale, ListInv, Typed
    <2>5. Stale' => Stale \/ calm' = 0
      <3>1. CASE fNew /\ entry.id = m.id
        BY <1>1, <1>2, <1>3, <1>4, <2>1, <2>4, <3>1, Limits DEF Stale
      <3>2. CASE ~fNew \/ entry.id # m.id
        <4>1. entry.id \in Ids => seen'[entry.id] = seen[entry.id]
          BY <1>1, <1>3, <3>2
        <4> QED
          BY <1>1, <2>1, <2>4, <4>1 DEF Stale
      <3> QED
        BY <3>1, <3>2
    <2>6. StaleRecent'
      BY <1>3, <2>1, <2>4, <2>5, Limits DEF ListInv, StaleRecent
    <2> QED
      BY <1>5, <2>2, <2>3, <2>6 DEF ListInv
  <1> QED
    BY <1>6, <1>7

(* A tick makes everything older alike. *)
LEMMA TickInv ==
  ASSUME ListInv, Tick
  PROVE  ListInv'
  <1>1. /\ Typed /\ calm \in 0..Settling + 1 /\ issued \in Nat
        /\ seen \in [Ids -> 0..PingCap \cup {NotSeen}] /\ NotSeen = -1
        /\ UNCHANGED <<alive, spent, issued>>
    BY Limits DEF ListInv, Typed, Tick, NotSeen
  <1>2. calm' \in 0..Settling + 1 /\ calm' <= calm + 1 /\ (calm' # 0 => Quiet)
    BY <1>1, Limits DEF Tick, Aged
  <1>3. \/ entry = NoEntry /\ entry' = NoEntry
        \/ /\ entry \in [id : Ids, activeState : States, ping : 0..PingCap] /\ entry # NoEntry
           /\ entry' \in [id : Ids, activeState : States, ping : 0..PingCap]
           /\ entry'.id = entry.id /\ entry'.activeState = entry.activeState
           /\ entry'.ping = Aged(entry.ping, PingCap)
    <2>1. CASE entry = NoEntry
      BY <2>1 DEF Tick
    <2>2. CASE entry # NoEntry
      <3>1. entry \in [id : Ids, activeState : States, ping : 0..PingCap]
        BY <2>2 DEF ListInv, Typed
      <3>2. Aged(entry.ping, PingCap) \in 0..PingCap
        BY <3>1, Limits DEF Aged
      <3>3. entry' = [entry EXCEPT !.ping = Aged(entry.ping, PingCap)]
        BY <2>2 DEF Tick
      <3> QED
        BY <2>2, <3>1, <3>2, <3>3
    <2> QED
      BY <2>1, <2>2
  <1>4. \A i \in Ids : /\ seen[i] = NotSeen => seen'[i] = NotSeen
                       /\ seen[i] # NotSeen => /\ seen[i] \in 0..PingCap /\ seen'[i] \in 0..PingCap
                                               /\ seen'[i] = Aged(seen[i], PingCap)
    <2>1. seen' = [i \in Ids |-> IF seen[i] = NotSeen THEN NotSeen ELSE Aged(seen[i], PingCap)]
      BY DEF Tick
    <2> QED
      BY <1>1, <2>1, Limits DEF Aged
  <1>5. ASSUME NEW x \in Message \cup {NoMessage},
               NEW y, y = IF x = NoMessage THEN x ELSE [x EXCEPT !.ping = Aged(@, PingCap)]
        PROVE  \/ x = NoMessage /\ y = NoMessage
               \/ /\ x \in Message /\ x # NoMessage /\ y \in Message /\ y.id = x.id
                  /\ y.ping = Aged(x.ping, PingCap)
    <2>1. CASE x # NoMessage
      <3>1. x.ping \in 0..PingCap /\ Aged(x.ping, PingCap) \in 0..PingCap
        BY <1>5, <2>1, Limits DEF Message, Aged
      <3> QED
        BY <1>5, <2>1, <3>1 DEF Message
    <2> QED
      BY <1>5, <2>1
  <1>6. \/ mnb = NoMessage /\ mnb' = NoMessage
        \/ mnb # NoMessage /\ mnb' \in Message /\ mnb'.id = mnb.id
    BY <1>5 DEF Tick, ListInv, Typed
  <1>7. \/ pending = NoMessage /\ pending' = NoMessage
        \/ /\ pending \in Message /\ pending # NoMessage /\ pending' \in Message /\ pending'.id = pending.id
           /\ pending'.ping = Aged(pending.ping, PingCap)
    BY <1>5 DEF Tick, ListInv, Typed
  <1>8. Typed'
    <2>1. sigAge' \in [Ids -> 0..SigCap]
      <3>1. sigAge' = [i \in Ids |-> IF i <= issued THEN Aged(sigAge[i], SigCap) ELSE 0]
        BY DEF Tick
      <3>2. \A i \in Ids : Aged(sigAge[i], SigCap) \in 0..SigCap
        BY Limits DEF ListInv, Typed, Aged
      <3> QED
        BY <3>1, <3>2, Limits
    <2>2. seen' \in [Ids -> 0..PingCap \cup {NotSeen}]
      <3>1. seen' = [i \in Ids |-> seen'[i]]
        BY DEF Tick
      <3> QED
        BY <1>1, <1>4, <3>1
    <2>3. pings' \subseteq 0..WINDOW
      BY Limits DEF Tick, ListInv, Typed
    <2>4. seenPings' \subseteq 0..WINDOW
      BY Limits DEF Tick, ListInv, Typed
    <2>5. checked' \in BOOLEAN
      BY DEF Tick
    <2> QED
      BY <1>1, <1>2, <1>3, <1>6, <1>7, <2>1, <2>2, <2>3, <2>4, <2>5 DEF Typed
  <1>9. OnlyIssued'
    BY <1>1, <1>3, <1>6, <1>7 DEF ListInv, OnlyIssued
  <1>10. StatesLast'
    <2>1. CASE entry' = NoEntry
      BY <2>1, Distinct DEF StatesLast
    <2>2. CASE entry' # NoEntry
      <3>1. /\ entry.id \in Ids /\ entry.id \in Nat /\ entry.ping \in 0..PingCap /\ entry'.id = entry.id
            /\ entry'.activeState = entry.activeState /\ entry'.ping = Aged(entry.ping, PingCap)
        BY <1>3, <2>2, Limits
      <3>2. entry'.ping = entry.ping + 1 \/ (entry.ping = PingCap /\ entry'.ping = PingCap)
        BY <3>1, Limits DEF Aged
      <3>3. sigAge[entry.id] \in Nat /\ sigAge'[entry.id] \in Nat /\ sigAge'[entry.id] <= sigAge[entry.id] + 1
        <4>1. sigAge[entry.id] \in 0..SigCap
          BY <3>1 DEF ListInv, Typed
        <4>2. sigAge'[entry.id] = IF entry.id <= issued THEN Aged(sigAge[entry.id], SigCap) ELSE 0
          BY <3>1 DEF Tick
        <4> QED
          BY <4>1, <4>2, Limits DEF Aged
      <3>4. PingCap >= EXPIRATION /\ PingCap >= REMOVAL
        BY Limits
      <3> QED
        BY <3>1, <3>2, <3>3, <3>4, Limits DEF ListInv, StatesLast
    <2> QED
      BY <2>1, <2>2
  <1>11. CalmMessages'
    <2>1. alive' => 0 \in pings'
      BY <1>1 DEF Tick
    <2>2. calm' > 0 => mnb' = NoMessage
      BY <1>2, <1>6 DEF Quiet
    <2>3. ASSUME ~alive', NEW p \in pings'
          PROVE  p >= calm'
      <3>1. PICK q \in pings : p = q + 1
        BY <1>1, <2>3 DEF Tick
      <3>2. q \in Nat /\ q >= calm
        BY <1>1, <2>3 DEF ListInv, CalmMessages, Typed
      <3> QED
        BY <1>1, <1>2, <3>1, <3>2
    <2> QED
      BY <2>1, <2>2, <2>3 DEF CalmMessages
  <1>12. PendingSeen'
    <2>1. CASE pending # NoMessage
      <3>1. pending.id \in Ids /\ pending.ping \in 0..PingCap /\ pending.ping # NotSeen
        BY <1>7, <2>1, Distinct DEF Message
      <3>2. pending.ping >= WINDOW => pending'.ping >= WINDOW
        BY <1>7, <2>1, <3>1, Limits DEF Aged
      <3>3. seen[pending.id] = pending.ping => seen'[pending.id] = pending'.ping
        BY <1>4, <1>7, <2>1, <3>1
      <3>4. entry = NoEntry /\ seen[pending.id] = NotSeen => entry' = NoEntry /\ seen'[pending.id] = NotSeen
        BY <1>3, <1>4, <3>1
      <3> QED
        BY <1>7, <2>1, <3>2, <3>3, <3>4 DEF ListInv, PendingSeen
    <2> QED
      BY <1>7, <2>1 DEF PendingSeen
  <1>13. StaleRecent'
    <2>1. SUFFICES ASSUME Stale'
                   PROVE  /\ calm' <= entry'.ping /\ calm' <= MIN_MNP /\ 0 \notin seenPings'
      BY DEF StaleRecent
    <2>2. /\ entry.id \in Ids /\ entry.ping \in 0..PingCap /\ entry'.id = entry.id
          /\ entry'.activeState = entry.activeState /\ entry'.ping = Aged(entry.ping, PingCap)
      BY <1>3, <2>1, Distinct DEF Stale
    <2>3. seen[entry.id] \in 0..PingCap /\ seen[entry.id] # NotSeen
          /\ seen'[entry.id] = Aged(seen[entry.id], PingCap)
      BY <1>4, <2>1, <2>2 DEF Stale
    <2>4. entry'.ping = entry.ping + 1 /\ seen[entry.id] - entry.ping >= MIN_MNP
      <3>1. Aged(seen[entry.id], PingCap) - Aged(entry.ping, PingCap) >= MIN_MNP
        BY <2>1, <2>2, <2>3 DEF Stale
      <3> QED
        BY <2>2, <2>3, <3>1, Limits DEF Aged
    <2>5. Stale
      BY <1>1, <2>1, <2>2, <2>3, <2>4 DEF Stale
    <2>6. 0 \notin seenPings'
      BY DEF Tick, ListInv, Typed
    <2>7. calm' # 0 /\ calm > 0 => entry.ping < MIN_MNP
      BY <1>2, <2>5 DEF Quiet, ListInv, CalmMessages, StaleRecent, Stale
    <2>8. calm <= entry.ping
      BY <2>5 DEF ListInv, StaleRecent
    <2> QED
      BY <1>1, <1>2, <2>2, <2>4, <2>6, <2>7, <2>8, Limits
  <1> QED
    BY <1>8, <1>9, <1>10, <1>11, <1>12, <1>13 DEF ListInv

-----------------------------------------------------------------------------
(* The node starts with an empty list and the first broadcast on its way. *)
LEMMA ListInit ==
  Init => ListInv
  <1> SUFFICES ASSUME Init PROVE ListInv
    OBVIOUS
  <1>1. 0 \in 0..WINDOW /\ 0 \in 0..SigCap /\ 0 \in 0..PingCap /\ 0 \in 0..Settling + 1 /\ 1 \in Ids
    BY Limits
  <1>2. mnb \in Message /\ mnb.id = 1 /\ mnb.ping = 0 /\ NoMessage.id = 0 /\ NoEntry.id = 0
    BY <1>1 DEF Init, Message, NoMessage, NoEntry
  <1>3. Typed
    BY <1>1, <1>2 DEF Init, Typed
  <1> QED
    BY <1>2, <1>3, Distinct DEF Init, ListInv, OnlyIssued, StatesLast, CalmMessages, PendingSeen, StaleRecent, Stale

(* Every step keeps the invariant. *)
LEMMA ListNext ==
  ListInv /\ [Next]_vars => ListInv'
  <1> SUFFICES ASSUME ListInv, [Next]_vars PROVE ListInv'
    OBVIOUS
  <1>1. CASE UNCHANGED vars
    BY <1>1 DEF vars, ListInv, Typed, OnlyIssued, StatesLast, CalmMessages, Recent, PendingSeen, StaleRecent, Stale
  <1>2. CASE Next
    BY <1>2, MNBroadcastInv, MNPingInv, CheckInputsAndAddInv, CheckAndRemoveInv, GetMNListInv, AroundInv, TickInv
       DEF Next
  <1> QED
    BY <1>1, <1>2

(* The invariant of the list of masternodes: a copy that is behind the     *)
(* entry (masternodeman.cpp, masternode.cpp) has been so for as long as    *)
(* the time was calm, and that is at most MASTERNODE_MIN_MNP_SECONDS.      *)
THEOREM ListInvariant == Spec => []ListInv
  <1>1. Init => ListInv
    BY ListInit
  <1>2. ListInv /\ [Next]_vars => ListInv'
    BY ListNext
  <1> QED
    BY <1>1, <1>2, PTL DEF Spec

(* The broadcast of an enabled masternode that the node hands to peers     *)
(* (mapSeenMasternodeBroadcast) carries a ping hardly older than the one   *)
(* of the entry, whatever the limits are, once the time has been calm.     *)
THEOREM ListServedPingFresh == Spec => []ServedPingFresh
  <1>1. ListInv => ServedPingFresh
    <2> SUFFICES ASSUME ListInv, calm > MIN_MNP, alive, entry.activeState = "ENABLED", seen[entry.id] # NotSeen
                 PROVE  seen[entry.id] - entry.ping < MIN_MNP
      BY DEF ServedPingFresh
    <2>1. entry.id \in Ids /\ entry.ping \in Nat /\ calm \in Nat
      BY Distinct DEF ListInv, Typed
    <2>2. seen[entry.id] \in Nat
      BY <2>1 DEF ListInv, Typed
    <2>3. ~Stale
      BY <2>1, Limits DEF ListInv, StaleRecent
    <2> QED
      BY <2>1, <2>2, <2>3, Limits DEF Stale
  <1> QED
    BY <1>1, ListInvariant, PTL

-----------------------------------------------------------------------------
(***************************************************************************)
(* The list settles: the history of calm ticks bounds how long an entry    *)
(* that should go can stay, and how long a masternode that should be       *)
(* listed can be shut out.                                                 *)
(***************************************************************************)
Entries == [id : Ids, activeState : States, ping : 0..PingCap]

(* Waiting is bounded, and a broadcast is at least as old as the calm.     *)
Waiting ==
    /\ asked \in 0..MIN_MNP
    /\ \A i \in 1..issued : sigAge[i] >= calm \/ sigAge[i] = SigCap

(* In a calm time only the last broadcast and the ping of this tick are on *)
(* their way, and no ping of a masternode that does not run.               *)
CalmTraffic ==
    calm > 0 =>
        /\ \A m \in {mnb, pending} \ {NoMessage} : m.id = issued /\ Recent(m.ping)
        /\ pings \ {0} \subseteq seenPings
        /\ ~alive => pings \subseteq seenPings

(* An enabled masternode that runs has its pings taken. *)
PingsTaken ==
    alive /\ entry.activeState = "ENABLED" =>
        /\ calm > 1 => entry.ping <= MIN_MNP
        /\ calm > 0 /\ 0 \in seenPings => entry.ping < MIN_MNP

(* Any other entry has its last ping from before the calm time or shortly  *)
(* after its beginning.                                                    *)
Fading ==
    calm > 0 /\ entry # NoEntry /\ (entry.activeState # "ENABLED" \/ ~alive) =>
        calm <= entry.ping + MIN_MNP

(* What CheckAndRemove leaves is to stay. *)
Kept ==
    /\ entry.activeState \notin {"VIN_SPENT", "REMOVE"}
    /\ spent => entry.activeState # "ENABLED"

Examined ==
    /\ calm > 0 /\ checked => Kept /\ entry.ping < REMOVAL /\ (alive => seen[issued] <= 2 * REMOVAL)
    /\ calm > 1 => Kept /\ entry.ping <= REMOVAL

(* Nor is an old entry enabled. *)
EnabledYoung ==
    entry.activeState = "ENABLED" =>
        /\ calm > 0 /\ checked => entry.ping < EXPIRATION
        /\ calm > 1 => entry.ping <= EXPIRATION

Missing == calm > 0 /\ alive /\ ~spent /\ entry = NoEntry

(* A masternode that should be listed and is not is shut out by a          *)
(* broadcast seen before the calm time, or the node has asked for it, or   *)
(* the entry was removed a short time ago.                                 *)
ShutOut ==
    Missing =>
        /\ calm <= Settling
        /\ asked = 0 /\ 0 \in seenPings => calm <= REMOVAL + MIN_MNP
        /\ pending = NoMessage /\ seen[issued] # NotSeen => calm <= seen[issued]
        /\ pending = NoMessage /\ seen[issued] = NotSeen /\ mnb = NoMessage =>
               calm + asked <= Settling

SettleInv == Waiting /\ CalmTraffic /\ PingsTaken /\ Fading /\ Examined /\ ShutOut

-----------------------------------------------------------------------------
(* A disturbance starts the count again. *)
LEMMA Disturbed ==
  ASSUME ListInv', calm' = 0, asked' \in 0..MIN_MNP
  PROVE  SettleInv'
  <1>1. issued' \in Ids /\ sigAge' \in [Ids -> 0..SigCap]
    BY DEF ListInv, Typed
  <1>2. 1..issued' \subseteq Ids
    BY <1>1, Limits DEF Ids
  <1>3. Waiting'
    BY <1>1, <1>2 DEF Waiting
  <1> QED
    BY <1>3 DEF SettleInv, CalmTraffic, PingsTaken, Fading, Examined, ShutOut, Missing

(* What the state holds, in the form the steps below use. *)
LEMMA Held ==
  ASSUME ListInv
  PROVE  /\ Typed /\ calm \in Nat /\ issued \in Ids /\ issued \in Nat /\ 1..issued \subseteq Ids
         /\ seen \in [Ids -> 0..PingCap \cup {NotSeen}] /\ NotSeen = -1
         /\ entry = NoEntry \/ entry \in Entries
         /\ mnb = NoMessage \/ mnb \in Message
         /\ pending = NoMessage \/ pending \in Message
         /\ seen[issued] \in Int /\ seen[issued] <= 2 * REMOVAL + 1
         /\ NoEntry.activeState = "none" /\ NoEntry.ping = 0
  <1>1. Typed /\ seen[issued] \in 0..PingCap \cup {NotSeen}
    BY DEF ListInv, Typed
  <1> QED
    BY <1>1, Limits, Distinct DEF Typed, Entries, Ids, NotSeen

(* CMasternode::Check when cs_main is free decides by age, then by the     *)
(* collateral.                                                             *)
LEMMA CheckCalm ==
  ASSUME Typed, NEW e \in Entries, NEW c, c = Check(e, FALSE)
  PROVE  /\ c \in Entries /\ c.id = e.id /\ c.ping = e.ping
         /\ \/ c.activeState = "VIN_SPENT" /\ (e.activeState = "VIN_SPENT" \/ spent)
            \/ c.activeState = "REMOVE" /\ e.ping >= REMOVAL
            \/ c.activeState = "EXPIRED" /\ e.ping >= EXPIRATION /\ e.ping < REMOVAL
            \/ c.activeState = "PRE_ENABLED" /\ e.ping < EXPIRATION /\ sigAge[e.id] - e.ping < MIN_MNP
            \/ c.activeState = "ENABLED" /\ e.ping < EXPIRATION /\ ~spent
  <1>1. sigAge[e.id] \in 0..SigCap /\ e.ping \in 0..PingCap /\ spent \in BOOLEAN
    BY DEF Typed, Entries
  <1>2. c \in Entries /\ c.id = e.id /\ c.ping = e.ping
    BY CheckFacts DEF Entries
  <1>3. CASE e.activeState = "VIN_SPENT"
    BY <1>2, <1>3 DEF Check
  <1>4. CASE e.activeState # "VIN_SPENT" /\ e.ping >= REMOVAL
    <2>1. c = [e EXCEPT !.activeState = "REMOVE"]
      BY <1>1, <1>4, Limits DEF Check
    <2> QED
      BY <1>2, <1>4, <2>1 DEF Entries
  <1>5. CASE e.activeState # "VIN_SPENT" /\ EXPIRATION <= e.ping /\ e.ping < REMOVAL
    <2>1. c = [e EXCEPT !.activeState = "EXPIRED"]
      BY <1>1, <1>5, Limits DEF Check
    <2> QED
      BY <1>2, <1>5, <2>1 DEF Entries
  <1>6. CASE e.activeState # "VIN_SPENT" /\ e.ping < EXPIRATION /\ sigAge[e.id] - e.ping < MIN_MNP
    <2>1. c = [e EXCEPT !.activeState = "PRE_ENABLED"]
      BY <1>1, <1>6, Limits DEF Check
    <2> QED
      BY <1>2, <1>6, <2>1 DEF Entries
  <1>7. CASE e.activeState # "VIN_SPENT" /\ e.ping < EXPIRATION /\ sigAge[e.id] - e.ping >= MIN_MNP
    <2>1. c = [e EXCEPT !.activeState = IF spent THEN "VIN_SPENT" ELSE "ENABLED"]
      BY <1>1, <1>7, Limits DEF Check
    <2>2. CASE spent
      <3>1. c = [e EXCEPT !.activeState = "VIN_SPENT"]
        BY <2>1, <2>2
      <3> QED
        BY <1>2, <2>2, <3>1 DEF Entries
    <2>3. CASE ~spent
      <3>1. c = [e EXCEPT !.activeState = "ENABLED"]
        BY <2>1, <2>3
      <3> QED
        BY <1>2, <1>7, <2>3, <3>1 DEF Entries
    <2> QED
      BY <2>2, <2>3
  <1>8. \/ e.ping >= REMOVAL
        \/ EXPIRATION <= e.ping /\ e.ping < REMOVAL
        \/ e.ping < EXPIRATION /\ sigAge[e.id] - e.ping < MIN_MNP
        \/ e.ping < EXPIRATION /\ sigAge[e.id] - e.ping >= MIN_MNP
    BY <1>1, Limits
  <1> QED
    BY <1>3, <1>4, <1>5, <1>6, <1>7, <1>8, Zenon

(* An entry that Check, CheckInputsAndAdd or a ping in a calm time enables *)
(* is young, and a tick is calm only if CheckAndRemove has run in it.      *)
LEMMA YoungNext ==
  ASSUME ListInv, EnabledYoung, Next
  PROVE  EnabledYoung'
  <1>1. CASE UNCHANGED <<entry, checked>> /\ calm' \in {0, calm}
    BY <1>1 DEF EnabledYoung
  <1>2. CASE calm' = 0 \/ entry'.activeState # "ENABLED" \/ (entry'.ping \in Nat /\ entry'.ping < EXPIRATION)
    BY <1>2, Limits DEF EnabledYoung
  <1>3. ASSUME NEW e \in Entries, entry' = Check(e, FALSE)
        PROVE  entry'.activeState # "ENABLED" \/ (entry'.ping \in Nat /\ entry'.ping < EXPIRATION)
    <2>1. PICK c : c = Check(e, FALSE)
      OBVIOUS
    <2>2. c.activeState # "ENABLED" \/ e.ping < EXPIRATION
      BY <2>1, Held, CheckCalm, Zenon
    <2>3. c.ping = e.ping
      BY <2>1, Held, CheckCalm, Zenon
    <2>4. e.ping \in Nat
      BY DEF Entries
    <2> QED
      BY <1>3, <2>1, <2>2, <2>3, <2>4
  <1>4. ASSUME NEW busy \in BOOLEAN, NEW fBlockKnown \in BOOLEAN, MNBroadcast(busy, fBlockKnown)
        PROVE  EnabledYoung'
    <2>1. calm' = (IF busy \/ ~fBlockKnown THEN 0 ELSE calm) /\ checked' = checked
      BY <1>4 DEF MNBroadcast
    <2>2. CASE entry' = entry
      BY <1>1, <2>1, <2>2
    <2>3. CASE entry' # entry /\ calm' # 0
      <3>1. busy = FALSE
        BY <2>1, <2>3
      <3>2. PICK f \in BOOLEAN : entry' = Check(UpdateFromNewBroadcast(entry, mnb, f), FALSE)
        BY <1>4, <2>3, <3>1 DEF MNBroadcast
      <3>3. entry \in Entries /\ mnb \in Message
        BY <1>4, <2>3, Held, Distinct DEF MNBroadcast
      <3>4. UpdateFromNewBroadcast(entry, mnb, f) \in Entries
        <4>1. PICK p : p = IF f THEN mnb.ping ELSE entry.ping
          OBVIOUS
        <4>2. UpdateFromNewBroadcast(entry, mnb, f) = [entry EXCEPT !.id = mnb.id, !.ping = p]
          BY <3>3, <4>1 DEF UpdateFromNewBroadcast
        <4>3. p \in 0..PingCap /\ mnb.id \in Ids
          BY <3>3, <4>1 DEF Entries, Message
        <4> QED
          BY <3>3, <4>2, <4>3 DEF Entries
      <3> QED
        BY <1>2, <1>3, <3>2, <3>4
    <2> QED
      BY <1>2, <2>2, <2>3
  <1>5. ASSUME NEW ping \in pings, NEW busy \in BOOLEAN, NEW fBlockKnown \in BOOLEAN,
               MNPing(ping, busy, fBlockKnown)
        PROVE  EnabledYoung'
    <2>1. calm' = (IF busy \/ ~fBlockKnown THEN 0 ELSE calm) /\ checked' = checked
      BY <1>5 DEF MNPing
    <2>2. CASE entry' = entry
      BY <1>1, <2>1, <2>2
    <2>3. CASE entry' # entry /\ calm' # 0
      <3>1. busy = FALSE
        BY <2>1, <2>3
      <3>2. entry' = Check([entry EXCEPT !.ping = ping], FALSE) /\ entry.activeState = "ENABLED"
        BY <1>5, <2>3, <3>1 DEF MNPing
      <3>3. entry \in Entries /\ ping \in 0..PingCap
        BY <3>2, Held, Distinct, Limits DEF Typed
      <3>4. [entry EXCEPT !.ping = ping] \in Entries
        BY <3>3 DEF Entries
      <3> QED
        BY <1>2, <1>3, <3>2, <3>4
    <2> QED
      BY <1>2, <2>2, <2>3
  <1>6. ASSUME NEW later \in BOOLEAN, CheckInputsAndAdd(later)
        PROVE  EnabledYoung'
    <2>1. calm' \in {0, calm} /\ checked' = checked /\ pending \in Message
      BY <1>6, Held DEF CheckInputsAndAdd
    <2>2. pending.ping \in Nat
      BY <2>1 DEF Message
    <2>3. CASE pending.ping >= WINDOW \/ entry.activeState = "ENABLED"
      BY <1>1, <1>6, <2>1, <2>3 DEF CheckInputsAndAdd
    <2>4. CASE ~(pending.ping >= WINDOW \/ entry.activeState = "ENABLED")
      <3>1. \/ entry' = NoEntry
            \/ entry' = [id |-> pending.id, activeState |-> "ENABLED", ping |-> pending.ping]
        BY <1>6, <2>4 DEF CheckInputsAndAdd
      <3>2. pending.ping < EXPIRATION
        BY <2>2, <2>4, Limits
      <3> QED
        BY <1>2, <2>2, <3>1, <3>2, Held
    <2> QED
      BY <2>3, <2>4
  <1>7. ASSUME NEW busy \in BOOLEAN, CheckAndRemove(busy)
        PROVE  EnabledYoung'
    <2>1. CASE calm' # 0
      <3>1. busy = FALSE
        BY <1>7, <2>1 DEF CheckAndRemove
      <3>2. entry' = NoEntry \/ (entry \in Entries /\ entry' = Check(entry, FALSE))
        BY <1>7, <3>1, Held DEF CheckAndRemove
      <3> QED
        BY <1>2, <1>3, <3>2, Held
    <2> QED
      BY <1>2, <2>1
  <1>8. CASE Tick
    <2>1. CASE calm' # 0 /\ entry # NoEntry
      <3>1. checked /\ checked' = FALSE /\ calm' <= calm + 1 /\ calm' \in Nat /\ calm \in Nat
        BY <1>8, <2>1, Held, Limits DEF Tick, Quiet, Aged
      <3>2. entry \in Entries /\ entry' = [entry EXCEPT !.ping = Aged(entry.ping, PingCap)]
        BY <1>8, <2>1, Held DEF Tick
      <3>3. entry.ping \in Nat /\ entry'.ping <= entry.ping + 1 /\ entry'.ping \in Nat
            /\ entry'.activeState = entry.activeState
        BY <3>2, Limits DEF Entries, Aged
      <3> QED
        BY <3>1, <3>3, Limits DEF EnabledYoung
    <2>2. CASE entry = NoEntry
      BY <1>2, <1>8, <2>2, Held DEF Tick
    <2> QED
      BY <1>2, <2>1, <2>2
  <1>9. CASE GetMNList \/ StartMasternode \/ StopMasternode \/ SpendCollateral \/ PeerSends \/ LoseBroadcast
    BY <1>1, <1>9 DEF GetMNList, StartMasternode, StopMasternode, SpendCollateral, PeerSends, LoseBroadcast, node
  <1> QED
    BY <1>4, <1>5, <1>6, <1>7, <1>8, <1>9 DEF Next

(* In a calm time Check takes an entry out of the enabled ones only while  *)
(* the calm is young, measured by the last ping.                           *)
LEMMA CheckFades ==
  ASSUME ListInv, Waiting, calm > 0, NEW e \in Entries, e.id <= issued,
         alive /\ e.activeState = "ENABLED" /\ calm > 1 => e.ping <= MIN_MNP /\ ~spent,
         e.activeState # "ENABLED" \/ ~alive => calm <= e.ping + MIN_MNP,
         NEW c, c = Check(e, FALSE), c.activeState # "ENABLED" \/ ~alive
  PROVE  calm <= e.ping + MIN_MNP
  <1>1. Typed /\ calm \in Nat /\ e.ping \in Nat /\ e.id \in 1..issued
    BY Held, Limits DEF Entries, Ids
  <1>2. sigAge[e.id] >= calm \/ sigAge[e.id] = SigCap
    BY <1>1 DEF Waiting
  <1>3. sigAge[e.id] \in Nat
    BY <1>1 DEF Typed, Entries
  <1>4. CASE e.activeState # "ENABLED" \/ ~alive \/ calm = 1
    BY <1>1, <1>4, Limits
  <1>5. CASE e.activeState = "ENABLED" /\ alive /\ calm > 1
    <2>1. e.ping <= MIN_MNP /\ ~spent /\ c.activeState # "ENABLED"
      BY <1>5
    <2>2. \/ c.activeState = "VIN_SPENT" /\ (e.activeState = "VIN_SPENT" \/ spent)
          \/ e.ping >= EXPIRATION
          \/ e.ping < EXPIRATION /\ sigAge[e.id] - e.ping < MIN_MNP
          \/ c.activeState = "ENABLED"
      <3>1. e.ping >= REMOVAL => e.ping >= EXPIRATION
        BY <1>1, Limits
      <3> QED
        BY <1>1, <3>1, CheckCalm, Zenon
    <2>3. e.ping < EXPIRATION /\ ~(e.ping >= EXPIRATION)
      BY <1>1, <2>1, Limits
    <2>4. sigAge[e.id] - e.ping < MIN_MNP
      BY <1>5, <2>1, <2>2, <2>3, Zenon
    <2> QED
      BY <1>1, <1>2, <1>3, <2>3, <2>4, Limits
  <1> QED
    BY <1>1, <1>4, <1>5

-----------------------------------------------------------------------------
(* The masternode, the chain and the peers; all but one disturb. *)
LEMMA AroundSettles ==
  ASSUME ListInv, ListInv', SettleInv,
         StartMasternode \/ StopMasternode \/ SpendCollateral \/ PeerSends \/ LoseBroadcast
  PROVE  SettleInv'
  <1>1. asked \in 0..MIN_MNP
    BY DEF SettleInv, Waiting
  <1>2. CASE StartMasternode \/ StopMasternode \/ SpendCollateral \/ LoseBroadcast
    <2>1. calm' = 0 /\ asked' = asked
      BY <1>2 DEF StartMasternode, StopMasternode, SpendCollateral, LoseBroadcast, node
    <2> QED
      BY <1>1, <2>1, Disturbed
  <1>3. CASE PeerSends
    <2>1. /\ mnb'.id = issued /\ Recent(mnb'.ping) /\ mnb' # NoMessage
          /\ UNCHANGED <<alive, spent, issued, sigAge, pings, calm, entry, seen, seenPings, asked, pending, checked>>
      BY <1>3, ServedFacts DEF PeerSends, node
    <2>2. CalmTraffic'
      BY <2>1 DEF SettleInv, CalmTraffic, Recent
    <2>3. Waiting' /\ PingsTaken' /\ Fading'
      BY <2>1 DEF SettleInv, Waiting, PingsTaken, Fading
    <2>4. Examined' /\ ShutOut'
      BY <2>1 DEF SettleInv, Examined, Kept, ShutOut, Missing
    <2> QED
      BY <2>2, <2>3, <2>4 DEF SettleInv
  <1> QED
    BY <1>2, <1>3

(* GETMNLIST serves an enabled entry that has been examined. *)
LEMMA GetMNListSettles ==
  ASSUME ListInv, ListInv', SettleInv, GetMNList
  PROVE  SettleInv'
  <1>1. /\ entry \in Entries /\ entry # NoEntry
        /\ seen' = [seen EXCEPT ![entry.id] = entry.ping]
        /\ UNCHANGED <<alive, spent, issued, sigAge, entry, pings, seenPings, asked, mnb, pending, checked, calm>>
    BY Held, Distinct DEF GetMNList
  <1>2. Waiting' /\ CalmTraffic' /\ PingsTaken' /\ Fading'
    BY <1>1 DEF SettleInv, Waiting, CalmTraffic, Recent, PingsTaken, Fading
  <1>3. Examined'
    <2>1. seen'[issued] = seen[issued] \/ seen'[issued] = entry.ping
      BY <1>1, Held
    <2>2. entry.ping \in Nat
      BY <1>1 DEF Entries
    <2> QED
      BY <1>1, <2>1, <2>2, Limits DEF SettleInv, Examined, Kept
  <1>4. ShutOut'
    BY <1>1 DEF ShutOut, Missing
  <1> QED
    BY <1>2, <1>3, <1>4 DEF SettleInv

(* CheckInputsAndAdd: the entry that is added is new and has its           *)
(* collateral.                                                             *)
LEMMA AddSettles ==
  ASSUME ListInv, ListInv', SettleInv, NEW later \in BOOLEAN, CheckInputsAndAdd(later)
  PROVE  SettleInv'
  <1>1. /\ pending # NoMessage /\ pending' = NoMessage /\ calm' = IF later THEN 0 ELSE calm
        /\ UNCHANGED <<alive, spent, issued, sigAge, pings, seenPings, asked, mnb, checked>>
    BY DEF CheckInputsAndAdd
  <1>2. CASE calm' = 0
    <2>1. asked' \in 0..MIN_MNP
      BY <1>1 DEF SettleInv, Waiting
    <2> QED
      BY <1>2, <2>1, Disturbed
  <1>3. CASE calm' # 0
    <2>1. ~later /\ calm' = calm /\ calm > 0
      BY <1>1, <1>3, Held
    <2>2. pending.id = issued /\ Recent(pending.ping) /\ pending.ping \in Nat
      BY <1>1, <2>1, Held DEF SettleInv, CalmTraffic, Message
    <2>3. Waiting' /\ CalmTraffic'
      BY <1>1, <2>1, <2>2 DEF SettleInv, Waiting, CalmTraffic, Recent
    <2>4. CASE entry.activeState = "ENABLED" \/ pending.ping >= WINDOW
      <3>1. UNCHANGED <<entry, seen>>
        BY <2>4 DEF CheckInputsAndAdd
      <3>2. entry # NoEntry \/ ~alive
        BY <2>2, <2>4, Distinct, Limits DEF Recent
      <3> QED
        BY <1>1, <2>1, <2>3, <3>1, <3>2 DEF SettleInv, PingsTaken, Fading, Examined, Kept, ShutOut, Missing
    <2>5. CASE entry.activeState # "ENABLED" /\ pending.ping < WINDOW
      <3>1. /\ seen' = seen
            /\ entry' = IF spent THEN NoEntry
                        ELSE [id |-> issued, activeState |-> "ENABLED", ping |-> pending.ping]
        <4>1. ~(pending.ping >= WINDOW)
          BY <2>2, <2>5, Limits
        <4> QED
          BY <2>1, <2>2, <2>5, <4>1 DEF CheckInputsAndAdd
      <3>2. CASE spent
        <4>1. entry' = NoEntry
          BY <3>1, <3>2
        <4>2. Kept' /\ entry'.ping = 0
          BY <4>1, Held DEF Kept
        <4>3. PingsTaken' /\ Fading' /\ ShutOut'
          BY <1>1, <3>2, <4>1, Held DEF PingsTaken, Fading, ShutOut, Missing
        <4>4. Examined'
          BY <1>1, <2>1, <3>1, <4>2, Limits DEF SettleInv, Examined
        <4> QED
          BY <2>3, <4>3, <4>4 DEF SettleInv
      <3>3. CASE ~spent
        <4>1. entry' = [id |-> issued, activeState |-> "ENABLED", ping |-> pending.ping]
          BY <3>1, <3>3
        <4>2. entry'.activeState = "ENABLED" /\ entry'.ping = pending.ping /\ entry' # NoEntry
          BY <4>1 DEF NoEntry
        <4>3. /\ alive => pending.ping = 0
              /\ ~alive => calm <= pending.ping + MIN_MNP
              /\ pending.ping < REMOVAL /\ pending.ping <= REMOVAL
          BY <2>2, <2>5, Held, Limits DEF Recent
        <4>4. PingsTaken' /\ Fading' /\ ShutOut'
          BY <1>1, <2>1, <4>2, <4>3, Limits DEF PingsTaken, Fading, ShutOut, Missing
        <4>5. Kept'
          BY <1>1, <3>3, <4>2 DEF Kept
        <4>6. Examined'
          BY <1>1, <2>1, <3>1, <4>2, <4>3, <4>5 DEF SettleInv, Examined
        <4> QED
          BY <2>3, <4>4, <4>6 DEF SettleInv
      <3> QED
        BY <3>2, <3>3
    <2> QED
      BY <2>2, <2>4, <2>5, Limits
  <1> QED
    BY <1>2, <1>3

(* CheckAndRemove: what goes has been fading, and what stays is examined.  *)
LEMMA CheckAndRemoveSettles ==
  ASSUME ListInv, ListInv', SettleInv, NEW busy \in BOOLEAN, CheckAndRemove(busy)
  PROVE  SettleInv'
  <1> DEFINE e == IF entry = NoEntry THEN entry ELSE Check(entry, busy)
             fRemove == e.activeState \in {"REMOVE", "VIN_SPENT"}
             left == IF fRemove THEN Erased ELSE seen
  <1>1. /\ entry' = IF fRemove THEN NoEntry ELSE e
        /\ asked' = IF fRemove THEN 0 ELSE asked
        /\ seen' = [i \in Ids |-> IF left[i] > 2 * REMOVAL THEN NotSeen ELSE left[i]]
        /\ checked' = TRUE /\ calm' = IF busy THEN 0 ELSE calm
        /\ UNCHANGED <<alive, spent, issued, sigAge, pings, seenPings, mnb, pending>>
    BY DEF CheckAndRemove
  <1>2. asked' \in 0..MIN_MNP /\ asked \in 0..MIN_MNP
    BY <1>1, Limits DEF SettleInv, Waiting
  <1>3. CASE calm' = 0
    BY <1>2, <1>3, Disturbed
  <1>4. CASE calm' # 0
    <2>1. busy = FALSE /\ calm' = calm /\ calm > 0
      BY <1>1, <1>4, Held
    <2>2. Waiting' /\ CalmTraffic'
      BY <1>1, <1>2, <2>1 DEF SettleInv, Waiting, CalmTraffic, Recent
    <2>3. CASE entry = NoEntry
      <3>1. entry' = NoEntry /\ ~fRemove
        BY <1>1, <2>3, Held
      <3>2. asked' = asked /\ seen'[issued] = IF seen[issued] > 2 * REMOVAL THEN NotSeen ELSE seen[issued]
        BY <1>1, <3>1, Held
      <3>3. PingsTaken' /\ Fading' /\ Kept' /\ entry'.ping = 0
        BY <3>1, Held DEF PingsTaken, Fading, Kept
      <3>4. Examined'
        BY <1>1, <3>2, <3>3, Held, Limits DEF Examined
      <3>5. ShutOut'
        <4>1. SUFFICES ASSUME Missing' PROVE ShutOut'
          BY DEF ShutOut
        <4>2. Missing
          BY <1>1, <2>1, <2>3, <4>1 DEF Missing
        <4>3. /\ calm <= Settling
              /\ asked = 0 /\ 0 \in seenPings => calm <= REMOVAL + MIN_MNP
              /\ pending = NoMessage /\ seen[issued] # NotSeen => calm <= seen[issued]
              /\ pending = NoMessage /\ seen[issued] = NotSeen /\ mnb = NoMessage =>
                    calm + asked <= Settling
          BY <4>2 DEF SettleInv, ShutOut
        <4>4. seen'[issued'] # NotSeen => seen'[issued'] = seen[issued]
          BY <1>1, <3>2
        <4>5. pending = NoMessage /\ seen'[issued'] = NotSeen /\ mnb = NoMessage => calm + asked <= Settling
          BY <1>1, <1>2, <3>2, <4>3, Held, Limits
        <4> QED
          BY <1>1, <2>1, <3>2, <4>3, <4>4, <4>5 DEF ShutOut
      <3> QED
        BY <2>2, <3>3, <3>4, <3>5 DEF SettleInv
    <2>4. CASE entry # NoEntry
      <3>1. entry \in Entries /\ e = Check(entry, FALSE) /\ Typed /\ entry.ping \in Nat
        <4>1. entry \in Entries /\ Typed
          BY <2>4, Held
        <4>2. entry.ping \in Nat
          BY <4>1 DEF Entries
        <4>3. e = Check(entry, busy)
          BY <2>4
        <4> HIDE DEF e
        <4> QED
          BY <2>1, <4>1, <4>2, <4>3
      <3> HIDE DEF e
      <3>2. /\ e \in Entries /\ e # NoEntry /\ e.id = entry.id /\ e.ping = entry.ping
            /\ \/ e.activeState = "VIN_SPENT"
               \/ e.activeState = "REMOVE"
               \/ e.activeState \in {"EXPIRED", "PRE_ENABLED"} /\ e.ping < REMOVAL
               \/ e.activeState = "ENABLED" /\ ~spent /\ e.ping < REMOVAL
        <4>1. e \in Entries /\ e # NoEntry /\ e.id = entry.id /\ e.ping = entry.ping
          BY <3>1, CheckCalm, Distinct DEF Entries
        <4>2. entry.ping < EXPIRATION => entry.ping < REMOVAL
          BY <3>1, Limits
        <4>3. \/ e.activeState = "VIN_SPENT"
              \/ e.activeState = "REMOVE"
              \/ e.activeState \in {"EXPIRED", "PRE_ENABLED"} /\ entry.ping < REMOVAL
              \/ e.activeState = "ENABLED" /\ ~spent /\ entry.ping < REMOVAL
          BY <3>1, <4>2, CheckCalm, Zenon
        <4> QED
          BY <4>1, <4>3
      <3>3. e.activeState = "ENABLED" => entry.activeState = "ENABLED"
        BY <2>4, <3>1, CheckKeeps DEF ListInv
      <3>4. e.activeState # "ENABLED" \/ ~alive => calm <= entry.ping + MIN_MNP
        <4>1. entry.id <= issued /\ Waiting
          BY DEF ListInv, OnlyIssued, SettleInv
        <4>2. alive /\ entry.activeState = "ENABLED" /\ calm > 1 => entry.ping <= MIN_MNP /\ ~spent
          BY <2>1 DEF SettleInv, PingsTaken, Examined, Kept
        <4>3. entry.activeState # "ENABLED" \/ ~alive => calm <= entry.ping + MIN_MNP
          BY <2>1, <2>4 DEF SettleInv, Fading
        <4> QED
          BY <2>1, <3>1, <4>1, <4>2, <4>3, CheckFades
      <3>5. CASE fRemove
        <4>1. entry' = NoEntry /\ asked' = 0 /\ seen'[issued] = NotSeen
          BY <1>1, <3>5, Held, Limits DEF Erased
        <4>2. PingsTaken' /\ Fading' /\ Kept' /\ entry'.ping = 0
          BY <4>1, Held DEF PingsTaken, Fading, Kept
        <4>3. Examined'
          BY <1>1, <4>1, <4>2, Held, Limits DEF Examined
        <4>4. calm <= REMOVAL + MIN_MNP
          <5>1. calm <= entry.ping + MIN_MNP
            BY <3>4, <3>5
          <5>2. calm > 1 => entry.ping <= REMOVAL
            BY DEF SettleInv, Examined
          <5> QED
            BY <2>1, <3>1, <5>1, <5>2, Held, Limits
        <4>5. ShutOut'
          BY <1>1, <2>1, <4>1, <4>4, Held, Limits DEF ShutOut
        <4> QED
          BY <2>2, <4>2, <4>3, <4>5 DEF SettleInv
      <3>6. CASE ~fRemove
        <4>1. /\ entry' = e /\ entry' # NoEntry
              /\ seen'[issued] = IF seen[issued] > 2 * REMOVAL THEN NotSeen ELSE seen[issued]
          BY <1>1, <3>2, <3>6, Held
        <4>2. PingsTaken' /\ Fading'
          BY <1>1, <2>1, <3>2, <3>3, <3>4, <4>1 DEF SettleInv, PingsTaken, Fading
        <4>3. Kept' /\ entry'.ping < REMOVAL
          BY <1>1, <3>2, <3>6, <4>1 DEF Kept
        <4>4. Examined'
          <5>1. entry'.ping \in Nat
            BY <3>1, <3>2, <4>1
          <5>2. seen'[issued] <= 2 * REMOVAL
            BY <4>1, Held, Limits
          <5>3. entry'.ping <= REMOVAL
            BY <4>3, <5>1, Limits
          <5> QED
            BY <1>1, <4>3, <5>2, <5>3 DEF Examined
        <4>5. ShutOut'
          BY <4>1 DEF ShutOut, Missing
        <4> QED
          BY <2>2, <4>2, <4>4, <4>5 DEF SettleInv
      <3> QED
        BY <3>5, <3>6
    <2> QED
      BY <2>3, <2>4
  <1> QED
    BY <1>3, <1>4

(* MNPING: in a calm time the ping is the one of this tick.  Taken, it     *)
(* keeps the entry enabled; refused, the last one is new enough; and for a *)
(* masternode that is not listed the node asks, or has.                    *)
LEMMA MNPingSettles ==
  ASSUME ListInv, ListInv', SettleInv, NEW ping \in pings, NEW busy \in BOOLEAN, NEW fBlockKnown \in BOOLEAN,
         MNPing(ping, busy, fBlockKnown)
  PROVE  SettleInv'
  <1> DEFINE fTake == ping < WINDOW /\ entry.activeState = "ENABLED" /\ PingTaken(entry, ping, fBlockKnown)
  <1>1. /\ pending = NoMessage /\ ping \notin seenPings /\ seenPings' = seenPings \cup {ping}
        /\ entry' = IF fTake THEN Check([entry EXCEPT !.ping = ping], busy) ELSE entry
        /\ seen' = IF fTake THEN WithPing(seen, entry.id, ping) ELSE seen
        /\ IF entry = NoEntry \/ ping >= WINDOW THEN AskForMN ELSE UNCHANGED <<asked, mnb>>
        /\ calm' = IF busy \/ ~fBlockKnown THEN 0 ELSE calm
        /\ UNCHANGED <<alive, spent, issued, sigAge, pings, pending, checked>>
    BY DEF MNPing
  <1>2. asked' \in 0..MIN_MNP /\ asked \in 0..MIN_MNP
    BY <1>1, Limits DEF SettleInv, Waiting, AskForMN
  <1>3. CASE calm' = 0
    BY <1>2, <1>3, Disturbed
  <1>4. CASE calm' # 0
    <2>1. busy = FALSE /\ fBlockKnown = TRUE /\ calm' = calm /\ calm > 0
      BY <1>1, <1>4, Held
    <2>2. ping = 0 /\ alive
      BY <1>1, <2>1 DEF SettleInv, CalmTraffic
    <2>3. mnb' = mnb \/ mnb' \in Served
      BY <1>1 DEF AskForMN
    <2>4. Waiting'
      BY <1>1, <1>2, <2>1 DEF SettleInv, Waiting
    <2>5. CalmTraffic'
      <3>1. \A m \in {mnb', pending'} \ {NoMessage} : m.id = issued /\ Recent(m.ping)
        BY <1>1, <2>1, <2>3, ServedFacts DEF SettleInv, CalmTraffic
      <3>2. pings' \ {0} \subseteq seenPings'
        BY <1>1, <2>1 DEF SettleInv, CalmTraffic
      <3> QED
        BY <1>1, <2>1, <2>2, <3>1, <3>2 DEF CalmTraffic, Recent
    <2>6. CASE fTake
      <3>1. entry \in Entries /\ entry # NoEntry /\ entry.activeState = "ENABLED" /\ entry.id <= issued
        BY <2>6, Held, Distinct DEF ListInv, OnlyIssued
      <3>2. PICK e : e = [entry EXCEPT !.ping = ping]
        OBVIOUS
      <3>3. e \in Entries /\ e.id = entry.id /\ e.ping = 0 /\ e.activeState = "ENABLED"
        BY <2>2, <3>1, <3>2, Limits DEF Entries
      <3>4. entry' = Check(e, FALSE)
        BY <1>1, <2>1, <2>6, <3>2
      <3>5. entry' \in Entries /\ entry' # NoEntry /\ entry'.ping = 0
        BY <3>3, <3>4, CheckCalm, Held, Distinct DEF Entries
      <3>6. \/ entry'.activeState = "VIN_SPENT" /\ spent
            \/ entry'.activeState = "EXPIRED"
            \/ entry'.activeState = "PRE_ENABLED"
            \/ entry'.activeState = "ENABLED" /\ ~spent
        <4>1. ~(e.ping >= REMOVAL)
          BY <3>3, Limits
        <4>2. e.activeState # "VIN_SPENT"
          BY <3>3
        <4>3. Typed /\ e \in Entries
          BY <3>3, Held
        <4>4. PICK c : c = Check(e, FALSE)
          OBVIOUS
        <4>5. \/ c.activeState = "VIN_SPENT" /\ spent
              \/ c.activeState = "EXPIRED"
              \/ c.activeState = "PRE_ENABLED"
              \/ c.activeState = "ENABLED" /\ ~spent
          BY <4>1, <4>2, <4>3, <4>4, CheckCalm, Zenon
        <4>6. entry' = c
          BY <3>4, <4>4
        <4> QED
          BY <4>5, <4>6, Zenon
      <3>7. PingsTaken'
        BY <3>5, Limits DEF PingsTaken
      <3>8. Fading'
        <4>1. Waiting /\ (calm > 1 => ~spent)
          BY <3>1 DEF SettleInv, Examined, Kept
        <4>2. e.id <= issued /\ e.ping <= MIN_MNP
          BY <3>1, <3>3, Limits
        <4>3. entry'.activeState # "ENABLED" \/ ~alive => calm <= e.ping + MIN_MNP
          BY <2>1, <2>2, <3>3, <3>4, <4>1, <4>2, CheckFades
        <4> QED
          BY <1>1, <2>1, <3>3, <3>5, <4>3 DEF Fading
      <3>9. Examined'
        <4>1. (calm > 0 /\ checked) \/ calm > 1 => ~spent
          BY <3>1 DEF SettleInv, Examined, Kept
        <4>2. ~spent => Kept'
          BY <1>1, <3>6 DEF Kept
        <4>3. seen'[issued] = seen[issued] \/ seen'[issued] = 0
          BY <1>1, <2>2, <2>6, Held DEF WithPing
        <4>4. calm > 0 /\ checked => seen'[issued] <= 2 * REMOVAL
          BY <2>2, <4>3, Limits DEF SettleInv, Examined
        <4>5. entry'.ping < REMOVAL /\ entry'.ping <= REMOVAL
          BY <3>5, Limits
        <4> QED
          BY <1>1, <2>1, <4>1, <4>2, <4>4, <4>5 DEF Examined
      <3>10. ShutOut'
        BY <3>5 DEF ShutOut, Missing
      <3> QED
        BY <2>4, <2>5, <3>7, <3>8, <3>9, <3>10 DEF SettleInv
    <2>7. CASE ~fTake
      <3>1. entry' = entry /\ seen' = seen
        BY <1>1, <2>7
      <3>2. entry.activeState = "ENABLED" => entry.ping < MIN_MNP
        <4>1. entry.activeState = "ENABLED" => entry \in Entries /\ entry.ping \in Nat
          BY Held DEF Entries
        <4> QED
          BY <2>1, <2>2, <2>7, <4>1, Limits DEF PingTaken
      <3>3. PingsTaken'
        <4>1. entry.activeState = "ENABLED" => entry.ping \in Nat
          BY Held DEF Entries
        <4> QED
          BY <3>1, <3>2, <4>1, Limits DEF PingsTaken
      <3>4. Fading' /\ Examined'
        BY <1>1, <2>1, <3>1 DEF SettleInv, Fading, Examined, Kept
      <3>5. ShutOut'
        <4>1. SUFFICES ASSUME Missing' PROVE ShutOut'
          BY DEF ShutOut
        <4>2. Missing /\ entry = NoEntry
          BY <1>1, <2>1, <3>1, <4>1 DEF Missing
        <4>3. /\ calm <= Settling
              /\ asked = 0 /\ 0 \in seenPings => calm <= REMOVAL + MIN_MNP
              /\ pending = NoMessage /\ seen[issued] # NotSeen => calm <= seen[issued]
              /\ pending = NoMessage /\ seen[issued] = NotSeen /\ mnb = NoMessage =>
                    calm + asked <= Settling
          BY <4>2 DEF SettleInv, ShutOut
        <4>4. \/ asked > 0 /\ UNCHANGED <<asked, mnb>>
              \/ asked' = MIN_MNP /\ mnb' \in Served
          BY <1>1, <1>2, <4>2, Limits DEF AskForMN
        <4>5. mnb' \in Served => mnb' # NoMessage
          BY ServedFacts
        <4>6. asked' # 0
          BY <1>2, <4>4, Limits
        <4> QED
          BY <1>1, <2>1, <3>1, <4>3, <4>4, <4>5, <4>6 DEF ShutOut
      <3> QED
        BY <2>4, <2>5, <3>3, <3>4, <3>5 DEF SettleInv
    <2> QED
      BY <2>6, <2>7
  <1> QED
    BY <1>3, <1>4

(* MNBROADCAST: in a calm time it is the last broadcast, with a new ping.  *)
LEMMA MNBroadcastSettles ==
  ASSUME ListInv, ListInv', SettleInv, EnabledYoung, NEW busy \in BOOLEAN, NEW fBlockKnown \in BOOLEAN,
         MNBroadcast(busy, fBlockKnown)
  PROVE  SettleInv'
  <1> DEFINE m == mnb
             fNew == seen[m.id] = NotSeen
             fValid == fNew /\ m.ping < WINDOW /\ (entry = NoEntry \/ entry.id < m.id)
             fUpdate == fValid /\ entry.activeState = "ENABLED" /\ sigAge[entry.id] >= MIN_MNB
             fPing == fUpdate /\ PingTaken(entry, m.ping, fBlockKnown)
             updated == Check(UpdateFromNewBroadcast(entry, m, fPing), busy)
  <1>1. /\ mnb' = NoMessage /\ mnb # NoMessage /\ pending = NoMessage
        /\ seen' = IF fNew THEN [seen EXCEPT ![m.id] = m.ping] ELSE seen
        /\ pending' = IF fValid THEN m ELSE NoMessage
        /\ entry' = IF fUpdate THEN updated ELSE entry
        /\ seenPings' = IF fPing /\ updated.activeState = "ENABLED"
                        THEN seenPings \cup ({m.ping} \cap pings) ELSE seenPings
        /\ calm' = IF busy \/ ~fBlockKnown THEN 0 ELSE calm
        /\ UNCHANGED <<alive, spent, issued, sigAge, pings, asked, checked>>
    BY DEF MNBroadcast
  <1>2. asked' \in 0..MIN_MNP
    BY <1>1 DEF SettleInv, Waiting
  <1>3. CASE calm' = 0
    BY <1>2, <1>3, Disturbed
  <1>4. CASE calm' # 0 /\ alive
    <2>1. busy = FALSE /\ calm' = calm /\ calm > 0
      BY <1>1, <1>4, Held
    <2>2. m.id = issued /\ m.ping = 0 /\ alive
      BY <1>1, <1>4, <2>1 DEF SettleInv, CalmTraffic, Recent
    <2>3. Waiting'
      BY <1>1, <2>1 DEF SettleInv, Waiting
    <2>4. CalmTraffic'
      <3>1. \A x \in {mnb', pending'} \ {NoMessage} : x.id = issued /\ x.ping = 0
        BY <1>1, <2>2
      <3>2. seenPings \subseteq seenPings'
        BY <1>1
      <3>3. pings' \ {0} \subseteq seenPings'
        BY <1>1, <2>1, <3>2 DEF SettleInv, CalmTraffic
      <3> QED
        BY <1>1, <2>2, <3>1, <3>3 DEF CalmTraffic, Recent
    <2>5. seen'[issued] = IF fNew THEN 0 ELSE seen[issued]
      BY <1>1, <2>2, Held
    <2>6. CASE fUpdate
      <3>1. entry \in Entries /\ entry # NoEntry /\ entry.activeState = "ENABLED"
        BY <2>6, Held, Distinct
      <3>2. entry.ping \in Nat
        BY <3>1 DEF Entries
      <3>3. PICK p : p = IF fPing THEN 0 ELSE entry.ping
        OBVIOUS
      <3>4. PICK e : e = UpdateFromNewBroadcast(entry, m, fPing)
        OBVIOUS
      <3>5. e \in Entries /\ e.id = issued /\ e.ping = p /\ e.activeState = "ENABLED"
        <4>1. e = [entry EXCEPT !.id = issued, !.ping = p]
          BY <2>2, <3>1, <3>3, <3>4 DEF UpdateFromNewBroadcast
        <4>2. p \in 0..PingCap /\ issued \in Ids
          BY <3>1, <3>3, Held, Limits DEF Entries
        <4> QED
          BY <3>1, <4>1, <4>2 DEF Entries
      <3>6. entry' = Check(e, FALSE)
        BY <1>1, <2>1, <2>6, <3>4
      <3>7. entry' \in Entries /\ entry' # NoEntry /\ entry'.ping = p
        BY <3>5, <3>6, CheckCalm, Held, Distinct DEF Entries
      <3>8. p \in Nat /\ p <= entry.ping /\ (p = 0 \/ (seenPings' = seenPings /\ p = entry.ping))
        <4>1. CASE fPing
          <5> HIDE DEF fPing
          <5>1. p = 0
            BY <3>3, <4>1
          <5>2. p \in Nat /\ p <= entry.ping
            BY <3>2, <5>1
          <5> QED
            BY <5>1, <5>2
        <4>2. CASE ~fPing
          BY <1>1, <3>2, <3>3, <4>2
        <4> QED
          BY <4>1, <4>2
      <3>9. /\ calm > 1 => entry.ping <= MIN_MNP
            /\ 0 \in seenPings => entry.ping < MIN_MNP
            /\ checked \/ calm > 1 => ~spent
            /\ checked => entry.ping < REMOVAL
        BY <2>1, <2>2, <3>1 DEF SettleInv, PingsTaken, Examined, Kept
      <3>10. PingsTaken'
        BY <1>1, <2>1, <3>2, <3>7, <3>8, <3>9, Limits DEF PingsTaken
      <3>11. Fading'
        <4>1. Waiting /\ e.id <= issued
          BY <3>5, Held DEF SettleInv
        <4>2. calm > 1 => e.ping <= MIN_MNP /\ ~spent
          BY <3>2, <3>5, <3>8, <3>9, Limits
        <4>3. entry'.activeState # "ENABLED" \/ ~alive => calm <= e.ping + MIN_MNP
          BY <2>1, <2>2, <3>5, <3>6, <4>1, <4>2, CheckFades
        <4> QED
          BY <1>1, <2>1, <3>5, <3>7, <4>3 DEF Fading
      <3>12. Examined'
        <4>1. checked \/ calm > 1 => p < REMOVAL
          BY <3>2, <3>8, <3>9, Limits
        <4>2. p < REMOVAL /\ ~spent => Kept'
          <5>1. SUFFICES ASSUME p < REMOVAL, ~spent PROVE Kept'
            OBVIOUS
          <5>2. ~(e.ping >= REMOVAL) /\ e.activeState # "VIN_SPENT" /\ e \in Entries /\ Typed
            BY <3>5, <3>8, <5>1, Held, Limits
          <5>3. PICK c : c = Check(e, FALSE)
            OBVIOUS
          <5>4. c.activeState \in {"EXPIRED", "PRE_ENABLED", "ENABLED"}
            BY <5>1, <5>2, <5>3, CheckCalm, Zenon
          <5> QED
            BY <1>1, <3>6, <5>1, <5>3, <5>4 DEF Kept
        <4>3. seen'[issued] <= 2 * REMOVAL
          BY <2>5, <2>6, Limits
        <4>4. p < REMOVAL => p <= REMOVAL
          BY <3>8, Limits
        <4> QED
          BY <1>1, <2>1, <3>7, <3>9, <4>1, <4>2, <4>3, <4>4 DEF Examined
      <3>13. ShutOut'
        BY <3>7 DEF ShutOut, Missing
      <3> QED
        BY <2>3, <2>4, <3>10, <3>11, <3>12, <3>13 DEF SettleInv
    <2>7. CASE ~fUpdate
      <3>1. entry' = entry /\ seenPings' = seenPings
        BY <1>1, <2>7
      <3>2. PingsTaken' /\ Fading'
        BY <1>1, <2>1, <3>1 DEF SettleInv, PingsTaken, Fading
      <3>3. Examined'
        <4>1. calm > 0 /\ checked => seen'[issued] <= 2 * REMOVAL
          BY <2>2, <2>5, Limits DEF SettleInv, Examined
        <4> QED
          BY <1>1, <2>1, <3>1, <4>1 DEF SettleInv, Examined, Kept
      <3>4. ShutOut'
        <4>1. SUFFICES ASSUME Missing' PROVE ShutOut'
          BY DEF ShutOut
        <4>2. Missing /\ entry = NoEntry
          BY <1>1, <2>1, <3>1, <4>1 DEF Missing
        <4>3. /\ calm <= Settling
              /\ asked = 0 /\ 0 \in seenPings => calm <= REMOVAL + MIN_MNP
              /\ pending = NoMessage /\ seen[issued] # NotSeen => calm <= seen[issued]
          BY <4>2 DEF SettleInv, ShutOut
        <4>4. fNew => pending' = m
          BY <1>1, <2>2, <4>2, Limits
        <4>5. pending' = NoMessage => seen'[issued] # NotSeen /\ calm <= seen'[issued]
          BY <1>1, <2>2, <2>5, <4>3, <4>4
        <4> QED
          BY <1>1, <2>1, <3>1, <4>3, <4>5 DEF ShutOut
      <3> QED
        BY <2>3, <2>4, <3>2, <3>3, <3>4 DEF SettleInv
    <2> QED
      BY <2>6, <2>7
  <1>5. CASE calm' # 0 /\ ~alive
    <2>1. busy = FALSE /\ calm' = calm /\ calm > 0
      BY <1>1, <1>5, Held
    <2>2. /\ m.id = issued /\ m.ping \in 0..PingCap
          /\ m.ping < WINDOW => calm <= m.ping + MIN_MNP /\ m.ping < REMOVAL
      <3>1. m.id = issued /\ Recent(m.ping) /\ m.ping \in 0..PingCap
        BY <1>1, <2>1, Held DEF SettleInv, CalmTraffic, Message
      <3> QED
        BY <1>5, <3>1, Held, Limits DEF Recent
    <2>3. Waiting' /\ PingsTaken' /\ ShutOut'
      BY <1>1, <1>5, <2>1 DEF SettleInv, Waiting, PingsTaken, ShutOut, Missing
    <2>4. CalmTraffic'
      <3>1. \A x \in {mnb', pending'} \ {NoMessage} : x.id = issued /\ Recent(x.ping)
        BY <1>1, <2>1 DEF SettleInv, CalmTraffic
      <3>2. seenPings \subseteq seenPings'
        BY <1>1
      <3> QED
        BY <1>1, <2>1, <3>1, <3>2 DEF SettleInv, CalmTraffic, Recent
    <2>5. CASE fUpdate
      <3>1. entry \in Entries /\ entry # NoEntry /\ entry.activeState = "ENABLED"
        BY <2>5, Held, Distinct
      <3>2. PICK p : p = IF fPing THEN m.ping ELSE entry.ping
        OBVIOUS
      <3>3. PICK e : e = UpdateFromNewBroadcast(entry, m, fPing)
        OBVIOUS
      <3>4. entry.ping \in 0..PingCap /\ calm <= entry.ping + MIN_MNP
        BY <1>5, <2>1, <3>1 DEF SettleInv, Fading, Entries
      <3>5. p \in 0..PingCap /\ calm <= p + MIN_MNP /\ (entry.ping < REMOVAL => p < REMOVAL)
        BY <2>2, <2>5, <3>2, <3>4
      <3>6. e \in Entries /\ e.id = issued /\ e.ping = p /\ e.activeState = "ENABLED"
        <4>1. e = [entry EXCEPT !.id = issued, !.ping = p]
          BY <2>2, <3>1, <3>2, <3>3 DEF UpdateFromNewBroadcast
        <4> QED
          BY <3>1, <3>5, <4>1, Held DEF Entries
      <3>7. entry' = Check(e, FALSE)
        BY <1>1, <2>1, <2>5, <3>3
      <3>8. entry' \in Entries /\ entry' # NoEntry /\ entry'.ping = p
        BY <3>6, <3>7, CheckCalm, Held, Distinct DEF Entries
      <3>9. Fading'
        BY <2>1, <3>5, <3>8 DEF Fading
      <3>10. Examined'
        <4>1. checked \/ calm > 1 => ~spent /\ entry.ping < REMOVAL
          BY <2>1, <3>1, <3>4, Limits DEF SettleInv, Examined, Kept, EnabledYoung
        <4>2. p < REMOVAL /\ ~spent => Kept'
          <5>1. SUFFICES ASSUME p < REMOVAL, ~spent PROVE Kept'
            OBVIOUS
          <5>2. ~(e.ping >= REMOVAL) /\ e.activeState # "VIN_SPENT" /\ e \in Entries /\ Typed
            BY <3>5, <3>6, <5>1, Held, Limits
          <5>3. PICK c : c = Check(e, FALSE)
            OBVIOUS
          <5>4. c.activeState \in {"EXPIRED", "PRE_ENABLED", "ENABLED"}
            BY <5>1, <5>2, <5>3, CheckCalm, Zenon
          <5> QED
            BY <1>1, <3>7, <5>1, <5>3, <5>4 DEF Kept
        <4>3. p < REMOVAL => p <= REMOVAL
          BY <3>5, Limits
        <4> QED
          BY <1>1, <1>5, <2>1, <3>5, <3>8, <4>1, <4>2, <4>3 DEF Examined
      <3> QED
        BY <2>3, <2>4, <3>9, <3>10 DEF SettleInv
    <2>6. CASE ~fUpdate
      <3>1. entry' = entry
        BY <1>1, <2>6
      <3>2. Fading' /\ Examined'
        BY <1>1, <1>5, <2>1, <3>1 DEF SettleInv, Fading, Examined, Kept
      <3> QED
        BY <2>3, <2>4, <3>2 DEF SettleInv
    <2> QED
      BY <2>5, <2>6
  <1> QED
    BY <1>1, <1>3, <1>4, <1>5

(* A tick after which the time is still calm ends one in which everything  *)
(* was done.                                                               *)
LEMMA TickSettles ==
  ASSUME ListInv, ListInv', SettleInv, Tick
  PROVE  SettleInv'
  <1>1. /\ entry' = IF entry = NoEntry THEN entry ELSE [entry EXCEPT !.ping = Aged(@, PingCap)]
        /\ seen' = [i \in Ids |-> IF seen[i] = NotSeen THEN NotSeen ELSE Aged(seen[i], PingCap)]
        /\ pings' = {p + 1 : p \in pings \ {WINDOW}} \cup (IF alive THEN {0} ELSE {})
        /\ seenPings' = {p + 1 : p \in seenPings \ {WINDOW}}
        /\ asked' = IF asked > 0 THEN asked - 1 ELSE 0
        /\ mnb' = IF mnb = NoMessage THEN mnb ELSE [mnb EXCEPT !.ping = Aged(@, PingCap)]
        /\ pending' = IF pending = NoMessage THEN pending ELSE [pending EXCEPT !.ping = Aged(@, PingCap)]
        /\ checked' = FALSE
        /\ calm' = IF Quiet THEN Aged(calm, Settling + 1) ELSE 0
        /\ UNCHANGED <<alive, spent, issued>>
    BY DEF Tick
  <1>2. asked \in 0..MIN_MNP /\ asked' \in 0..MIN_MNP
    <2>1. asked \in 0..MIN_MNP
      BY DEF SettleInv, Waiting
    <2> QED
      BY <1>1, <2>1, Limits
  <1>3. CASE calm' = 0
    BY <1>2, <1>3, Disturbed
  <1>4. CASE calm' # 0
    <2>1. Quiet /\ calm' > 0 /\ calm' <= calm + 1 /\ calm \in Nat /\ calm' \in Nat
      BY <1>1, <1>4, Held, Limits DEF Aged
    <2>2. /\ checked /\ mnb = NoMessage /\ pending = NoMessage /\ pings \subseteq seenPings
          /\ mnb' = NoMessage /\ pending' = NoMessage
      BY <1>1, <2>1 DEF Quiet
    <2>3. 0 \notin seenPings'
      BY <1>1 DEF ListInv, Typed
    <2>4. Waiting'
      <3>1. ASSUME NEW i \in 1..issued
            PROVE  sigAge'[i] >= calm' \/ sigAge'[i] = SigCap
        <4>1. i \in Ids /\ i <= issued /\ (sigAge[i] >= calm \/ sigAge[i] = SigCap) /\ sigAge[i] \in 0..SigCap
          BY Held DEF SettleInv, Waiting, Typed
        <4>2. sigAge'[i] = Aged(sigAge[i], SigCap)
          BY <4>1 DEF Tick
        <4> QED
          BY <2>1, <4>1, <4>2, Limits DEF Aged
      <3> QED
        BY <1>1, <1>2, <3>1 DEF Waiting
    <2>5. CalmTraffic'
      <3>1. {p + 1 : p \in pings \ {WINDOW}} \subseteq seenPings'
        BY <1>1, <2>2
      <3>2. pings' \ {0} \subseteq seenPings' /\ (~alive => pings' \subseteq seenPings')
        BY <1>1, <3>1
      <3> QED
        BY <1>1, <2>2, <3>2 DEF CalmTraffic
    <2>6. /\ calm > 0 => Kept /\ entry.ping < REMOVAL /\ (alive => seen[issued] <= 2 * REMOVAL)
          /\ alive /\ entry.activeState = "ENABLED" /\ calm > 0 => entry.ping < MIN_MNP
      <3>1. calm > 0 => Kept /\ entry.ping < REMOVAL /\ (alive => seen[issued] <= 2 * REMOVAL)
        BY <2>2 DEF SettleInv, Examined
      <3>2. alive => 0 \in seenPings
        BY <2>2 DEF ListInv, CalmMessages
      <3> QED
        BY <3>1, <3>2 DEF SettleInv, PingsTaken
    <2>7. CASE entry # NoEntry
      <3>1. entry \in Entries
        BY <2>7, Held
      <3>2. entry.ping \in 0..PingCap
        BY <3>1 DEF Entries
      <3>3. entry' = [entry EXCEPT !.ping = Aged(entry.ping, PingCap)]
        BY <1>1, <2>7
      <3>4. /\ entry'.activeState = entry.activeState /\ entry'.ping = Aged(entry.ping, PingCap)
            /\ entry' # NoEntry
        <4>1. entry'.activeState = entry.activeState /\ entry'.ping = Aged(entry.ping, PingCap)
          BY <3>1, <3>3 DEF Entries
        <4> QED
          BY <3>1, <4>1, Distinct DEF Entries
      <3>5. entry'.ping \in Nat /\ (entry.ping < PingCap => entry'.ping = entry.ping + 1)
        BY <3>2, <3>4, Limits DEF Aged
      <3>6. calm' > 1 => calm > 0 /\ entry'.ping = entry.ping + 1
        BY <2>1, <2>6, <3>2, <3>5, Limits
      <3>7. PingsTaken'
        BY <1>1, <2>1, <2>3, <2>6, <3>2, <3>4, <3>6, Limits DEF PingsTaken
      <3>8. Fading'
        <4>1. calm > 0 /\ (entry.activeState # "ENABLED" \/ ~alive) => calm <= entry.ping + MIN_MNP
          BY <2>7 DEF SettleInv, Fading
        <4>2. CASE calm' > 1
          BY <1>1, <2>1, <3>2, <3>4, <3>6, <4>1, <4>2, Limits DEF Fading
        <4>3. CASE calm' = 1
          BY <3>5, <4>3, Limits DEF Fading
        <4> QED
          BY <2>1, <4>2, <4>3
      <3>9. Examined'
        <4>1. Kept => Kept'
          BY <1>1, <3>4 DEF Kept
        <4>2. calm' > 1 => Kept' /\ entry'.ping <= REMOVAL
          BY <2>6, <3>2, <3>6, <4>1, Limits
        <4> QED
          BY <1>1, <4>2 DEF Examined
      <3>10. ShutOut'
        BY <3>4 DEF ShutOut, Missing
      <3> QED
        BY <2>4, <2>5, <3>7, <3>8, <3>9, <3>10 DEF SettleInv
    <2>8. CASE entry = NoEntry
      <3>1. entry' = NoEntry
        BY <1>1, <2>8
      <3>2. Kept' /\ PingsTaken' /\ Fading' /\ Examined'
        <4>1. Kept' /\ PingsTaken' /\ Fading' /\ entry'.ping = 0
          BY <3>1, Held DEF Kept, PingsTaken, Fading
        <4> QED
          BY <1>1, <4>1, Limits DEF Examined
      <3>3. ShutOut'
        <4>1. SUFFICES ASSUME Missing' PROVE ShutOut'
          BY DEF ShutOut
        <4>2. seen'[issued] = IF seen[issued] = NotSeen THEN NotSeen ELSE Aged(seen[issued], PingCap)
          BY <1>1, Held
        <4>3. seen[issued] # NotSeen => seen[issued] \in Nat
          BY Held DEF Typed
        <4>4. CASE calm = 0
          <5>1. calm' = 1
            BY <2>1, <4>4
          <5>2. seen'[issued] # NotSeen => seen'[issued] >= 1
            BY <4>2, <4>3, Held, Limits DEF Aged
          <5>3. calm' <= Settling /\ calm' + asked' <= Settling
            <6>1. PICK a \in 0..MIN_MNP : a = asked'
              BY <1>2
            <6>2. 1 + a <= Settling /\ 1 <= Settling
              BY Limits
            <6> QED
              BY <5>1, <6>1, <6>2
          <5> QED
            BY <1>1, <2>3, <5>1, <5>2, <5>3 DEF ShutOut
        <4>5. CASE calm > 0
          <5>1. Missing
            BY <1>1, <2>8, <4>1, <4>5 DEF Missing
          <5>2. alive /\ 0 \in seenPings
            BY <2>2, <5>1 DEF Missing, ListInv, CalmMessages
          <5>3. /\ asked = 0 => calm <= REMOVAL + MIN_MNP
                /\ seen[issued] # NotSeen => calm <= seen[issued]
                /\ seen[issued] = NotSeen => calm + asked <= Settling
            BY <2>2, <5>1, <5>2 DEF SettleInv, ShutOut
          <5>4. seen[issued] <= 2 * REMOVAL
            BY <2>6, <4>5, <5>2
          <5>5. CASE seen[issued] # NotSeen
            <6>1. seen'[issued] = seen[issued] + 1 /\ calm' <= seen'[issued] /\ calm' <= Settling
              BY <2>1, <4>2, <4>3, <5>3, <5>4, <5>5, Limits DEF Aged
            <6>2. seen'[issued] # NotSeen
              BY <4>3, <5>5, <6>1 DEF NotSeen
            <6> QED
              BY <1>1, <2>3, <6>1, <6>2 DEF ShutOut
          <5>6. CASE seen[issued] = NotSeen
            <6>1. seen'[issued] = NotSeen
              BY <4>2, <5>6
            <6>2. calm' + asked' <= Settling /\ calm' <= Settling
              BY <1>1, <1>2, <2>1, <5>3, <5>6, Limits
            <6> QED
              BY <1>1, <2>3, <6>1, <6>2 DEF ShutOut
          <5> QED
            BY <5>5, <5>6
        <4> QED
          BY <2>1, <4>4, <4>5
      <3> QED
        BY <2>4, <2>5, <3>2, <3>3 DEF SettleInv
    <2> QED
      BY <2>7, <2>8
  <1> QED
    BY <1>3, <1>4

-----------------------------------------------------------------------------
(* Every step keeps the count of the calm ticks and the list together. *)
LEMMA SettleNext ==
  ListInv /\ ListInv' /\ SettleInv /\ EnabledYoung /\ [Next]_vars => SettleInv' /\ EnabledYoung'
  <1> SUFFICES ASSUME ListInv, ListInv', SettleInv, EnabledYoung, [Next]_vars
               PROVE  SettleInv' /\ EnabledYoung'
    OBVIOUS
  <1>1. CASE UNCHANGED vars
    BY <1>1 DEF vars, SettleInv, Waiting, CalmTraffic, Recent, PingsTaken, Fading, Examined, Kept, ShutOut, Missing,
       EnabledYoung
  <1>2. CASE Next
    BY <1>2, YoungNext, MNBroadcastSettles, MNPingSettles, AddSettles, CheckAndRemoveSettles, GetMNListSettles,
       AroundSettles, TickSettles DEF Next
  <1> QED
    BY <1>1, <1>2

(* The invariant is enough: an entry that should not be listed, or is not  *)
(* enabled, fades away before the calm is long, and the masternode that    *)
(* should be listed is not shut out longer.                                *)
LEMMA SettleEnough ==
  ListInv /\ SettleInv => ListSettles
  <1> SUFFICES ASSUME ListInv, SettleInv, calm > Settling
               PROVE  IF alive /\ ~spent THEN entry.activeState = "ENABLED" ELSE entry = NoEntry
    BY DEF ListSettles
  <1>1. calm \in Nat /\ calm > 1
    BY Held, Limits
  <1>2. entry # NoEntry => entry.activeState = "ENABLED" /\ alive
    <2>1. SUFFICES ASSUME entry # NoEntry, entry.activeState # "ENABLED" \/ ~alive PROVE FALSE
      OBVIOUS
    <2>2. entry.ping \in Nat
      BY <2>1, Held DEF Entries
    <2>3. calm <= entry.ping + MIN_MNP /\ entry.ping <= REMOVAL
      BY <1>1, <2>1 DEF SettleInv, Fading, Examined
    <2> QED
      BY <1>1, <2>2, <2>3, Limits
  <1>3. spent => entry.activeState # "ENABLED"
    BY <1>1 DEF SettleInv, Examined, Kept
  <1>4. CASE alive /\ ~spent
    <2>1. entry # NoEntry
      BY <1>1, <1>4, Limits DEF SettleInv, ShutOut, Missing
    <2> QED
      BY <1>2, <1>4, <2>1
  <1>5. CASE ~(alive /\ ~spent)
    BY <1>2, <1>3, <1>5
  <1> QED
    BY <1>4, <1>5

(* The list of masternodes tells the truth after a calm time               *)
(* (CMasternodeMan::CheckAndRemove, CMasternodeBroadcast and               *)
(* CMasternodePing), whatever the limits are and whatever losses, delays,  *)
(* busy locks, spends and restarts came before: the masternode is enabled  *)
(* if it runs with its collateral, and gone if not.                        *)
THEOREM ListAlwaysSettles == Spec => []ListSettles
  <1>1. Init => SettleInv /\ EnabledYoung
    <2> SUFFICES ASSUME Init PROVE SettleInv /\ EnabledYoung
      OBVIOUS
    <2>1. calm = 0 /\ asked = 0 /\ issued = 1 /\ sigAge = [i \in Ids |-> 0] /\ 1 \in Ids
      BY Limits DEF Init
    <2>2. Waiting
      BY <2>1, Limits DEF Waiting
    <2> QED
      BY <2>1, <2>2 DEF SettleInv, CalmTraffic, PingsTaken, Fading, Examined, ShutOut, Missing, EnabledYoung
  <1>2. ListInv /\ ListInv' /\ SettleInv /\ EnabledYoung /\ [Next]_vars => SettleInv' /\ EnabledYoung'
    BY SettleNext
  <1>3. ListInv /\ SettleInv => ListSettles
    BY SettleEnough
  <1> QED
    BY <1>1, <1>2, <1>3, ListInvariant, PTL DEF Spec

=============================================================================
