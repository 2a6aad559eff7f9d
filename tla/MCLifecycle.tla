------------------------------- MODULE MCLifecycle -------------------------------
(* A process with two workers and up to three players.                       *)
EXTENDS Lifecycle, TLC

CONSTANTS w1, w2, none

TwoWorkers == {w1, w2}
TwoEach    == {1, 2, 3} \X {1, 2}
==============================================================================
