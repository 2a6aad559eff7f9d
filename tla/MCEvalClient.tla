----------------------------- MODULE MCEvalClient -----------------------------
(* Small instances of the evaluator client.                                 *)
EXTENDS EvalClient, TLC

CONSTANTS c1, c2, c3, s1, s2, main

OneCaller  == {c1}
TwoCallers == {c1, c2}
ThreeCallers == {c1, c2, c3}
OneSender  == {s1}
TwoSenders == {s1, s2}
NoProxy    == {}
LastProxy == {ProxyNumber - 1}

CallerSymmetry == Permutations(TwoCallers)
ThreeSymmetry == Permutations(ThreeCallers)
SenderAndCallerSymmetry == Permutations(TwoCallers) \cup Permutations(TwoSenders)
==============================================================================
