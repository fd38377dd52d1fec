---------------------------- MODULE MCCheckQueue ----------------------------
(* Blocks of up to three checks, one of them bad, on a pool of workers.    *)
EXTENDS CheckQueue
=============================================================================
