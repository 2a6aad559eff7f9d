-------------------------------- MODULE MCSearch --------------------------------
(* Small instances of the search.                                           *)
EXTENDS Search, TLC

CONSTANTS t1, t2

OneThread  == {t1}
TwoThreads == {t1, t2}

Seven     == [t \in OneThread |-> 7]
FourThree == [t \in TwoThreads |-> IF t = t1 THEN 4 ELSE 3]
BothThree == [t \in TwoThreads |-> 3]

NoLine      == {}
FirstSecond == {<<1, 2>>}
SecondFirst == {<<2, 1>>}
==============================================================================
