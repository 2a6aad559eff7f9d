-------------------------------- MODULE MCPlayer --------------------------------
(* Small instances of a game.                                               *)
EXTENDS Player, TLC

CONSTANT t1

OneThread == {t1}
Three     == [t \in OneThread |-> 3]

NoLine== {}
\* The game may begin from a history (--history), so its first move may repeat
\* a position.
SecondMove == {<<2>>}
==============================================================================
