---------------------------- MODULE CoinsLedger ----------------------------
(***************************************************************************)
(* What the stack of coin views promises: three plain maps from outpoints  *)
(* to coins and no cache.  `disk' is the chainstate database, `tip' the    *)
(* UTXO set of the active chain and `work' the set a block is being        *)
(* applied to; each map travels with the block it belongs to.              *)
(***************************************************************************)
CONSTANTS Outpoints, Coins, Spent, Blocks, NoBlock

VARIABLES
    disk,    \* [coins, best] in the database
    tip,     \* [coins, best] of the active chain
    work     \* [coins, best] being prepared by ConnectBlock / DisconnectBlock

ledgerVars == <<disk, tip, work>>

Snapshot == [coins : [Outpoints -> Coins \cup {Spent}], best : Blocks \cup {NoBlock}]

Init ==
    /\ disk = [coins |-> [o \in Outpoints |-> Spent], best |-> NoBlock]
    /\ tip = disk
    /\ work = disk

(* An output is created where no unspent one exists. *)
Create(o, c) ==
    /\ work.coins[o] = Spent
    /\ work' = [work EXCEPT !.coins[o] = c]
    /\ UNCHANGED <<disk, tip>>

Spend(o) ==
    /\ work' = [work EXCEPT !.coins[o] = Spent]
    /\ UNCHANGED <<disk, tip>>

SetBest(b) ==
    /\ work' = [work EXCEPT !.best = b]
    /\ UNCHANGED <<disk, tip>>

(* The block is applied to the active chain, or forgotten, as a whole. *)
Commit  == tip' = work /\ UNCHANGED <<disk, work>>
Discard == work' = tip /\ UNCHANGED <<disk, tip>>

(* The database moves to the state of the tip in one step. *)
Persist == disk' = tip /\ UNCHANGED <<tip, work>>
Crash   == tip' = disk /\ work' = disk /\ UNCHANGED disk

Next ==
    \/ \E o \in Outpoints : Spend(o) \/ \E c \in Coins : Create(o, c)
    \/ \E b \in Blocks : SetBest(b)
    \/ Commit \/ Discard \/ Persist \/ Crash

Spec == Init /\ [][Next]_ledgerVars
=============================================================================
