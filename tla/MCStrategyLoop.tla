---------------------------- MODULE MCStrategyLoop ----------------------------
(* Small instances of StrategyLoop for TLC.                                 *)
EXTENDS StrategyLoop, TLC

CONSTANTS w1, w2, h1, h2, s1, s2

TwoWorkers == {w1, w2}
SameStrategy == h1 :> s1 @@ h2 :> s1
OneHypothesis == h1 :> s1

Symmetric == Permutations({w1, w2})
===============================================================================
