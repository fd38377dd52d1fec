----------------------------- MODULE MCMemPool ------------------------------
EXTENDS MemPool

CONSTANTS root, fund, cb1, cb2, cbc, cbd, A1, A2, B, C, D, E, F, G, H, base, b1, b2, c1, c2

MCTxs == {root, fund, cb1, cb2, cbc, cbd, A1, A2, B, C, D, E, F, G, H}
MCGenerated == {root, cb1, cb2, cbc, cbd}

\* A1 - A2 - {B, F} - D in the pool, A1 and A2 also in block b1; E spends the
\* coinbase of b1 and G depends on E; c1 has A1 alone, H of c2 conflicts with E,
\* and C with A1
MCVout == [t \in MCTxs |->
    CASE t \in {fund, A2} -> {<<t, 0>>, <<t, 1>>}
      [] t \in {cb2, cbc, cbd, C, D, G, H} -> {}
      [] OTHER -> {<<t, 0>>}]
MCVin == [t \in MCTxs |->
    CASE t = fund -> {<<root, 0>>}
      [] t = A1 -> {<<fund, 0>>}
      [] t = A2 -> {<<A1, 0>>}
      [] t = B  -> {<<A2, 0>>}
      [] t = F  -> {<<A2, 1>>}
      [] t = D  -> {<<B, 0>>, <<F, 0>>}
      [] t = E  -> {<<cb1, 0>>, <<fund, 1>>}
      [] t = G  -> {<<E, 0>>}
      [] t = C  -> {<<fund, 0>>}
      [] t = H  -> {<<fund, 1>>}
      [] OTHER  -> {}]
MCFee == [t \in MCTxs |-> CASE t \in {B, G} -> 3 [] t \in {A2, E} -> 2 [] OTHER -> 1]
MCSize == [t \in MCTxs |-> 1]
MCFinalFrom == [t \in MCTxs |-> IF t = F THEN 3 ELSE 0]
MCPrev == (b1 :> base) @@ (b2 :> b1) @@ (c1 :> base) @@ (c2 :> c1)
MCVtx == (base :> <<root, fund>>) @@ (b1 :> <<cb1, A1, A2>>) @@ (b2 :> <<cb2, B>>)
    @@ (c1 :> <<cbc, A1>>) @@ (c2 :> <<cbd, H>>)

\* B spends a second output of A1, so that A1 has a child outside its block
MCVoutReorg == [MCVout EXCEPT ![A1] = {<<A1, 0>>, <<A1, 1>>}]
MCVinReorg == [MCVin EXCEPT ![B] = {<<A1, 1>>}]

=============================================================================
