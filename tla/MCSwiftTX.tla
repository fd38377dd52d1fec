----------------------------- MODULE MCSwiftTX ------------------------------
(* Two transactions that spend the same output, one of them another too.   *)
EXTENDS SwiftTX, TLC

CONSTANTS t1, t2, o1, o2

MCVin == t1 :> {o1} @@ t2 :> {o1, o2}
MCLockHeight == t1 :> 1 @@ t2 :> 2
=============================================================================
