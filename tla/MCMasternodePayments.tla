----------------------- MODULE MCMasternodePayments -----------------------
EXTENDS MasternodePayments

CONSTANTS m1, m2, pA, pB

(* All masternodes are ranked for block 4, m2 for every block. *)
MCMayVote == [h \in Heights |-> IF h = 4 THEN Masternodes ELSE {m2}]

(* An old vote of m2 and its two votes for block 4. *)
MCWinners == {[mn |-> m2, height |-> 1, payee |-> pA],
              [mn |-> m2, height |-> 4, payee |-> pA],
              [mn |-> m2, height |-> 4, payee |-> pB]}
===========================================================================
