---------------------------- MODULE MCCoinsCache ----------------------------
(* Two outpoints and two coins of different size on the three-level stack. *)
EXTENDS CoinsCache, TLC

CONSTANTS c1, c2

MCCoinUsage == (c1 :> 1) @@ (c2 :> 3)
=============================================================================
