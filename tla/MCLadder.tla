------------------------------ MODULE MCLadder ------------------------------
(***************************************************************************)
(* Books for Ladder. Small: three offers with amounts near the ledger's    *)
(* limit, which merge in some orders only. Wide: four offers between two   *)
(* tokens that can be exchanged both ways and two that cannot; the last    *)
(* two may share a coin. Oversized: an amount beyond the ledger's.         *)
(***************************************************************************)
EXTENDS Ladder

Terms(dirs, amounts, coins) ==
    {[tokenIn |-> d[1], tokenOut |-> d[2], amountIn |-> x, amountOut |-> y, coins |-> c] :
        d \in dirs, x \in amounts, y \in amounts, c \in coins}

Distinct(S) == {p \in S \X S : p[1] # p[2]}
MCTokens == 1..4

SmallBooks ==
    {<<a, b, c>> : a \in Terms({<<1, 2>>}, {1, 11}, {{1}}),
                   b \in Terms({<<1, 2>>, <<2, 3>>, <<3, 1>>}, {1, 6, 11}, {{2}}),
                   c \in Terms({<<1, 2>>, <<2, 1>>, <<3, 1>>}, {1, 6, 11}, {{3}})}
WideDirs == {<<1, 2>>, <<2, 1>>, <<4, 3>>}
WideBooks ==
    {<<a, b, c, d>> : a \in Terms(WideDirs, {2}, {{1}}),
                      b \in Terms(WideDirs, {1, 2}, {{2}}),
                      c \in Terms(WideDirs, {1, 3}, {{3}}),
                      d \in Terms(WideDirs, {2}, {{3}, {4}})}
\* An amount beyond the ledger's.
OversizedBooks ==
    {<<a, b>> : a \in Terms({<<1, 2>>}, {1, 12}, {{1}}), b \in Terms({<<1, 2>>}, {6}, {{2}})}
MCBooks == SmallBooks \cup WideBooks \cup OversizedBooks
MCInterrupted ==
    {k \in WideBooks : /\ k[2].amountIn = 1 /\ k[2].amountOut = 1
                       /\ k[3].amountIn = 1 /\ k[3].amountOut = 3
                       /\ k[4].coins = {4}}

MCSupported == Distinct(1..4) \ {<<2, 3>>}
MCMinOutput == [t \in 1..3 |-> IF t = 2 THEN 2 ELSE 1]
=============================================================================
