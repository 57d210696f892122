------------------------------ MODULE MCEvents ------------------------------
EXTENDS Events, TLC

CONSTANTS t1, t2, t3, key, pen

TwoThreads   == {t1, t2}
ThreeThreads == {t1, t2, t3}
OnlyT1       == {t1}
KeyAndPen    == {key, pen}
Arguments    == [e \in Event |-> IF e = pen THEN 1 ELSE 0]
=============================================================================
