----------------------------- MODULE MCAddrMan ------------------------------
(* Five services, two of them on one host.  The tables are so small that   *)
(* every insertion may collide, and the residents of both tried positions  *)
(* may have the same home in the new table.                                *)
EXTENDS AddrMan, TLC

CONSTANTS a, a8, b, c, d, s1, s2

MCHost == a :> "A" @@ a8 :> "A" @@ b :> "B" @@ c :> "C" @@ d :> "D"
MCNewBucket ==
    <<a, s1>> :> 1 @@ <<a, s2>> :> 2 @@ <<a8, s1>> :> 1 @@ <<a8, s2>> :> 1 @@
    <<b, s1>> :> 1 @@ <<b, s2>> :> 1 @@ <<c, s1>> :> 1 @@ <<c, s2>> :> 1 @@
    <<d, s1>> :> 2 @@ <<d, s2>> :> 2
MCNewPosition ==
    <<a, 1>> :> 1 @@ <<a, 2>> :> 1 @@ <<a8, 1>> :> 2 @@ <<a8, 2>> :> 1 @@
    <<b, 1>> :> 1 @@ <<b, 2>> :> 1 @@ <<c, 1>> :> 2 @@ <<c, 2>> :> 1 @@
    <<d, 1>> :> 2 @@ <<d, 2>> :> 1
MCTriedSlot == a :> 1 @@ a8 :> 1 @@ b :> 2 @@ c :> 1 @@ d :> 2
=============================================================================
