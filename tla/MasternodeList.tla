--------------------------- MODULE MasternodeList ---------------------------
(***************************************************************************)
(* CMasternodeMan (masternodeman.cpp) and the checks of broadcasts and     *)
(* pings (masternode.cpp), as one node keeps them for one masternode: the  *)
(* maps are keyed by the masternode, so masternodes do not interact here.  *)
(*                                                                         *)
(* Time is counted in ticks of MASTERNODE_PING_SECONDS and every time      *)
(* stamp is kept as its age, capped where no check tells greater ages      *)
(* apart.  The n-th start of the masternode signs broadcast n; sigTime     *)
(* grows with n, and the hash of a broadcast (sigTime and collateral key)  *)
(* is n, whatever ping it carries.                                         *)
(*                                                                         *)
(* The masternode and the peers are external: a masternode that runs pings *)
(* every tick, peers send its last broadcast with its last ping, and any   *)
(* message may be delayed or lost.                                         *)
(***************************************************************************)
EXTENDS Integers, FiniteSets

CONSTANTS MIN_MNP,      \* MASTERNODE_MIN_MNP_SECONDS
          MIN_MNB,      \* MASTERNODE_MIN_MNB_SECONDS
          WINDOW,       \* the hour a ping may be old
          EXPIRATION,   \* MASTERNODE_EXPIRATION_SECONDS
          REMOVAL,      \* MASTERNODE_REMOVAL_SECONDS
          MaxBroadcasts \* bound: starts of the masternode

ASSUME ListAssumption ==
    /\ {MIN_MNP, MIN_MNB, WINDOW, EXPIRATION, REMOVAL, MaxBroadcasts} \subseteq Nat \ {0}
    /\ MIN_MNB <= MIN_MNP /\ MIN_MNP <= WINDOW
    /\ WINDOW < EXPIRATION /\ EXPIRATION < REMOVAL

Ids == 1 .. MaxBroadcasts
PingCap == 2 * REMOVAL + 1
SigCap == EXPIRATION + MIN_MNP
NoEntry == [id |-> 0, activeState |-> "none", ping |-> 0]
NoMessage == [id |-> 0, ping |-> 0]
NotSeen == -1

(* Ticks without a disturbance after which the list must be right: those a *)
(* broadcast that failed stays in the map of seen ones, and a round trip.  *)
Settling == 2 * REMOVAL + MIN_MNP + 1

VARIABLES
    alive,     \* the masternode runs
    spent,     \* its collateral is spent in the chain of this node
    issued,    \* its last broadcast
    sigAge,    \* age of sigTime per broadcast
    entry,     \* its element of vMasternodes
    seen,      \* mapSeenMasternodeBroadcast: age of lastPing per broadcast
    pings,     \* ages of its pings that may still arrive
    seenPings, \* mapSeenMasternodePing, those that may still arrive
    asked,     \* mWeAskedForMasternodeListEntry: ticks until it expires
    mnb,       \* a broadcast on its way to the node
    pending,   \* the broadcast between CheckAndUpdate and CheckInputsAndAdd
    checked,   \* CheckAndRemove has run in this tick
    calm       \* history: ticks without loss, delay, busy lock or change

vars == <<alive, spent, issued, sigAge, entry, seen, pings, seenPings, asked,
          mnb, pending, checked, calm>>
node == <<entry, seen, seenPings, asked, pending, checked>>

Init ==
    /\ alive = TRUE /\ spent = FALSE
    /\ issued = 1
    /\ sigAge = [i \in Ids |-> 0]
    /\ entry = NoEntry
    /\ seen = [i \in Ids |-> NotSeen]
    /\ pings = {0} /\ seenPings = {}
    /\ asked = 0
    /\ mnb = [id |-> 1, ping |-> 0]
    /\ pending = NoMessage
    /\ checked = FALSE
    /\ calm = 0

----------------------------------------------------------------------------
Erased == [i \in Ids |-> NotSeen]

(* CMasternode::Check.  cs_main is tried last: a busy lock leaves the      *)
(* state as it is.                                                         *)
Check(e, busy) ==
    CASE e.activeState = "VIN_SPENT" -> e
      [] e.activeState # "VIN_SPENT" /\ e.ping >= REMOVAL ->
             [e EXCEPT !.activeState = "REMOVE"]
      [] e.activeState # "VIN_SPENT" /\ EXPIRATION <= e.ping /\ e.ping < REMOVAL ->
             [e EXCEPT !.activeState = "EXPIRED"]
      [] e.activeState # "VIN_SPENT" /\ e.ping < EXPIRATION
         /\ sigAge[e.id] - e.ping < MIN_MNP ->
             [e EXCEPT !.activeState = "PRE_ENABLED"]
      [] OTHER ->
             IF busy THEN e
             ELSE [e EXCEPT !.activeState = IF spent THEN "VIN_SPENT" ELSE "ENABLED"]

(* The ping part of CMasternodePing::CheckAndUpdate once the masternode is *)
(* found: a ping too soon after the last one, or whose block the node does *)
(* not have, changes nothing.                                              *)
PingTaken(e, ping, fBlockKnown) == fBlockKnown /\ e.ping - ping >= MIN_MNP

(* Mutant: the broadcast kept for peers is left as it was. *)
WithPing_Not(s, id, ping) == s

(* The seen broadcast of an entry, kept for peers, gets its new ping. *)
WithPing(s, id, ping) == [s EXCEPT ![id] = IF s[id] = NotSeen THEN NotSeen ELSE ping]

(* What a peer sends: the last broadcast, with the last ping, which may be *)
(* too old for any check when the masternode has stopped.                  *)
Served == [id : {issued}, ping : IF pings = {} THEN WINDOW + 1 .. PingCap
                                 ELSE {p \in pings : \A q \in pings : p <= q}]

(* AskForMN: at most once in MASTERNODE_MIN_MNP_SECONDS.  The peer that    *)
(* sent the ping answers with the broadcast it has.                        *)
AskForMN ==
    IF asked > 0 THEN UNCHANGED <<asked, mnb>>
    ELSE asked' = MIN_MNP /\ mnb' \in Served

----------------------------------------------------------------------------
(* An enabled entry takes a newer broadcast, and its ping if that is not   *)
(* too soon.                                                               *)
UpdateFromNewBroadcast(e, m, fPing) ==
    [e EXCEPT !.id = m.id, !.ping = IF fPing THEN m.ping ELSE @]

(* MNBROADCAST up to CheckAndUpdate.  A broadcast stays in the map of seen *)
(* ones when a check fails; the ping it carries counts as seen only if the *)
(* entry is still enabled with it.                                         *)
MNBroadcast(busy, fBlockKnown) ==
    /\ pending = NoMessage /\ mnb # NoMessage
    /\ mnb' = NoMessage
    /\ LET m == mnb
           fNew == seen[m.id] = NotSeen
           fValid == fNew /\ m.ping < WINDOW
                          /\ (entry = NoEntry \/ entry.id < m.id)
           fUpdate == /\ fValid /\ entry.activeState = "ENABLED"
                      /\ sigAge[entry.id] >= MIN_MNB
           fPing == fUpdate /\ PingTaken(entry, m.ping, fBlockKnown)
           updated == Check(UpdateFromNewBroadcast(entry, m, fPing), busy)
       IN  /\ seen' = IF fNew THEN [seen EXCEPT ![m.id] = m.ping] ELSE seen
           /\ pending' = IF fValid THEN m ELSE NoMessage
           /\ entry' = IF fUpdate THEN updated ELSE entry
           /\ seenPings' = IF fPing /\ updated.activeState = "ENABLED"
                           THEN seenPings \cup ({m.ping} \cap pings) ELSE seenPings
    /\ calm' = IF busy \/ ~fBlockKnown THEN 0 ELSE calm
    /\ UNCHANGED <<alive, spent, issued, sigAge, pings, asked, checked>>

(* CheckInputsAndAdd.  An entry that is not enabled is removed first; when *)
(* cs_main is busy or the collateral too young the broadcast is forgotten, *)
(* to be checked again later.                                              *)
CheckInputsAndAdd(later) ==
    /\ pending # NoMessage
    /\ pending' = NoMessage
    /\ IF pending.ping >= WINDOW \/ entry.activeState = "ENABLED"
       THEN UNCHANGED <<entry, seen>>
       ELSE /\ entry' = IF later \/ spent THEN NoEntry
                        ELSE [id |-> pending.id, activeState |-> "ENABLED",
                              ping |-> pending.ping]
            /\ seen' = IF later THEN [seen EXCEPT ![pending.id] = NotSeen] ELSE seen
    /\ calm' = IF later THEN 0 ELSE calm
    /\ UNCHANGED <<alive, spent, issued, sigAge, pings, seenPings, asked, mnb, checked>>

(* MNPING.  Only an enabled entry takes a ping; the node asks for the      *)
(* broadcast of a masternode it does not list, or when the ping is too old.*)
MNPing(ping, busy, fBlockKnown) ==
    /\ pending = NoMessage
    /\ ping \in pings \ seenPings
    /\ seenPings' = seenPings \cup {ping}
    /\ LET fTake == /\ ping < WINDOW /\ entry.activeState = "ENABLED"
                    /\ PingTaken(entry, ping, fBlockKnown)
       IN  /\ entry' = IF fTake THEN Check([entry EXCEPT !.ping = ping], busy) ELSE entry
           /\ seen' = IF fTake THEN WithPing(seen, entry.id, ping) ELSE seen
    /\ IF entry = NoEntry \/ ping >= WINDOW THEN AskForMN ELSE UNCHANGED <<asked, mnb>>
    /\ calm' = IF busy \/ ~fBlockKnown THEN 0 ELSE calm
    /\ UNCHANGED <<alive, spent, issued, sigAge, pings, pending, checked>>

(* Mutant: the broadcasts of a removed masternode stay seen. *)
CheckAndRemove_KeepsSeen(busy) ==
    /\ LET e == IF entry = NoEntry THEN entry ELSE Check(entry, busy)
           fRemove == e.activeState \in {"REMOVE", "VIN_SPENT"}
       IN  /\ entry' = IF fRemove THEN NoEntry ELSE e
           /\ asked' = IF fRemove THEN 0 ELSE asked
           /\ seen' = [i \in Ids |-> IF seen[i] > 2 * REMOVAL THEN NotSeen ELSE seen[i]]
    /\ checked' = TRUE
    /\ calm' = IF busy THEN 0 ELSE calm
    /\ UNCHANGED <<alive, spent, issued, sigAge, pings, seenPings, mnb, pending>>

(* CheckAndRemove: with the entry go the broadcasts seen of it and the     *)
(* memory of having asked; seen broadcasts expire by their last ping.      *)
CheckAndRemove(busy) ==
    /\ LET e == IF entry = NoEntry THEN entry ELSE Check(entry, busy)
           fRemove == e.activeState \in {"REMOVE", "VIN_SPENT"}
           left == IF fRemove THEN Erased ELSE seen
       IN  /\ entry' = IF fRemove THEN NoEntry ELSE e
           /\ asked' = IF fRemove THEN 0 ELSE asked
           /\ seen' = [i \in Ids |-> IF left[i] > 2 * REMOVAL THEN NotSeen ELSE left[i]]
    /\ checked' = TRUE
    /\ calm' = IF busy THEN 0 ELSE calm
    /\ UNCHANGED <<alive, spent, issued, sigAge, pings, seenPings, mnb, pending>>

(* GETMNLIST from a peer: an enabled entry is put among the seen ones. *)
GetMNList ==
    /\ entry.activeState = "ENABLED"
    /\ seen[entry.id] = NotSeen
    /\ seen' = [seen EXCEPT ![entry.id] = entry.ping]
    /\ UNCHANGED <<alive, spent, issued, sigAge, entry, pings, seenPings, asked,
                   mnb, pending, checked, calm>>

----------------------------------------------------------------------------
(* The masternode is started, again or for the first time, or stops. *)
StartMasternode ==
    /\ issued < MaxBroadcasts
    /\ issued' = issued + 1
    /\ alive' = TRUE
    /\ pings' = pings \cup {0}
    /\ mnb' = [id |-> issued + 1, ping |-> 0]
    /\ calm' = 0
    /\ UNCHANGED <<spent, sigAge>> /\ UNCHANGED node

StopMasternode ==
    /\ alive
    /\ alive' = FALSE
    /\ calm' = 0
    /\ UNCHANGED <<spent, issued, sigAge, pings, mnb>> /\ UNCHANGED node

(* The collateral is spent, or a reorganisation takes that back. *)
SpendCollateral ==
    /\ spent' = ~spent
    /\ calm' = 0
    /\ UNCHANGED <<alive, issued, sigAge, pings, mnb>> /\ UNCHANGED node

(* A peer sends the broadcast it has, unasked. *)
PeerSends ==
    /\ mnb = NoMessage
    /\ mnb' \in Served
    /\ UNCHANGED <<alive, spent, issued, sigAge, pings, calm>> /\ UNCHANGED node

LoseBroadcast ==
    /\ mnb # NoMessage
    /\ mnb' = NoMessage
    /\ calm' = 0
    /\ UNCHANGED <<alive, spent, issued, sigAge, pings>> /\ UNCHANGED node

Aged(age, cap) == IF age < cap THEN age + 1 ELSE cap

(* Nothing was left undone in the tick that ends. *)
Quiet ==
    /\ checked /\ mnb = NoMessage /\ pending = NoMessage
    /\ pings \subseteq seenPings

Tick ==
    /\ sigAge' = [i \in Ids |-> IF i <= issued THEN Aged(sigAge[i], SigCap) ELSE 0]
    /\ entry' = IF entry = NoEntry THEN entry
                ELSE [entry EXCEPT !.ping = Aged(@, PingCap)]
    /\ seen' = [i \in Ids |-> IF seen[i] = NotSeen THEN NotSeen ELSE Aged(seen[i], PingCap)]
    /\ pings' = {p + 1 : p \in pings \ {WINDOW}} \cup (IF alive THEN {0} ELSE {})
    /\ seenPings' = {p + 1 : p \in seenPings \ {WINDOW}}
    /\ asked' = IF asked > 0 THEN asked - 1 ELSE 0
    /\ mnb' = IF mnb = NoMessage THEN mnb ELSE [mnb EXCEPT !.ping = Aged(@, PingCap)]
    /\ pending' = IF pending = NoMessage THEN pending
                  ELSE [pending EXCEPT !.ping = Aged(@, PingCap)]
    /\ checked' = FALSE
    /\ calm' = IF Quiet THEN Aged(calm, Settling + 1) ELSE 0
    /\ UNCHANGED <<alive, spent, issued>>

Next ==
    \/ \E busy, fBlockKnown \in BOOLEAN :
           \/ MNBroadcast(busy, fBlockKnown)
           \/ \E ping \in pings : MNPing(ping, busy, fBlockKnown)
    \/ \E later \in BOOLEAN : CheckInputsAndAdd(later)
    \/ \E busy \in BOOLEAN : CheckAndRemove(busy)
    \/ GetMNList
    \/ StartMasternode
    \/ StopMasternode
    \/ SpendCollateral
    \/ PeerSends
    \/ LoseBroadcast
    \/ Tick

Spec == Init /\ [][Next]_vars

----------------------------------------------------------------------------
(* The broadcast the node hands to peers that ask for an enabled           *)
(* masternode carries a ping hardly older than the one of the entry, once  *)
(* the masternode has pinged through a calm time: a stale one would be     *)
(* refused by the peers and kept among the broadcasts they have seen.      *)
ServedPingFresh ==
    /\ calm > MIN_MNP /\ alive
    /\ entry.activeState = "ENABLED"
    /\ seen[entry.id] # NotSeen
    => seen[entry.id] - entry.ping < MIN_MNP

(* After a calm time, whatever losses, delays, busy locks, spends and      *)
(* restarts came before it, the list tells the truth: the masternode is    *)
(* enabled if it runs with its collateral, and gone if not.  A broadcast   *)
(* that failed its checks, a ping seen and refused, a masternode that      *)
(* was pre-enabled too early or was just removed must not shut it out.     *)
ListSettles ==
    calm > Settling =>
        IF alive /\ ~spent THEN entry.activeState = "ENABLED"
                           ELSE entry = NoEntry
=============================================================================
