---------------------------- MODULE MCBotControl ----------------------------
(***************************************************************************)
(* Two requests at a time, three in all; at most two keys, of three labels.*)
(***************************************************************************)
EXTENDS BotControl, TLC

CONSTANTS r1, r2, a, b, c
MCRequests == {r1, r2}
MCRows == {1, 2}
MCKeys == 1..4
MCLabels == {a, b, c}
MCTiers == {"free", "starter", "pro"}
MCPositions == {8}
MCAmounts == {1, 2}
Symmetric == Permutations(MCRequests) \union Permutations(MCLabels)
=============================================================================
