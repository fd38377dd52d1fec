------------------------- MODULE CoinsFlushFailure -------------------------
(***************************************************************************)
(* The coin views when a write of the chainstate database fails.           *)
(* CCoinsViewDB::BatchWrite empties the cache's map while it builds the    *)
(* batch and only then writes it; CDBWrapper::WriteBatch throws on an I/O  *)
(* error.  FlushStateToDisk catches the error and asks for a shutdown, and *)
(* PrepareShutdown flushes pcoinsTip once more.                            *)
(***************************************************************************)
EXTENDS CoinsCache

VARIABLES
    committed,   \* the state last flushed into pcoinsTip, with its block
    stopping     \* fRequestShutdown, set by AbortNode

allVars == <<vars, committed, stopping>>

FailInit ==
    /\ Init
    /\ committed = [coins |-> db, best |-> dbBest]
    /\ stopping = FALSE

(* The operations of a node that is not stopping.  A restart begins from   *)
(* the database.                                                           *)
Run ==
    /\ ~stopping
    /\ Next
    /\ committed' = IF FlushView THEN [coins |-> [o \in Outpoints |-> ViewCoin(o)], best |-> ViewBlock]
                    ELSE IF Crash THEN [coins |-> db, best |-> dbBest]
                    ELSE committed
    /\ UNCHANGED stopping

(* pcoinsTip->Flush() throws: the entries are gone, hashBlock and          *)
(* cachedCoinsUsage keep their values, AbortNode asks for the shutdown.    *)
FlushTipFails ==
    /\ ~open /\ ~stopping
    /\ tip' = EmptyCache
    /\ stopping' = TRUE
    /\ UNCHANGED <<dbVars, tipBest, tipUsage, viewVars, committed>>

(* FlushStateToDisk of PrepareShutdown. *)
ShutdownFlush ==
    /\ stopping
    /\ FlushTip
    /\ UNCHANGED <<committed, stopping>>

Restart ==
    /\ stopping
    /\ Crash
    /\ committed' = [coins |-> db, best |-> dbBest]
    /\ stopping' = FALSE

FailNext == Run \/ FlushTipFails \/ ShutdownFlush \/ Restart

FailSpec == FailInit /\ [][FailNext]_allVars

(* Whenever the chainstate database changes, it changes to a state that    *)
(* was committed to the tip, with the block of that state: after a failed  *)
(* write too, which "is handled by the caller" (init.cpp).                 *)
DiskHoldsCommitted ==
    [][ <<db, dbBest>>' # <<db, dbBest>> =>
            db' = committed.coins /\ dbBest' = committed.best ]_allVars
=============================================================================
