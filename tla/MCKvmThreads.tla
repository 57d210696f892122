---------------------------- MODULE MCKvmThreads ----------------------------
(***************************************************************************)
(* Instances of KvmThreads for TLC.                                        *)
(***************************************************************************)
EXTENDS KvmThreads, TLC

CONSTANTS t1, t2, t3, o1, o2, m1, m2

TwoThreads   == {t1, t2}
ThreeThreads == {t1, t2, t3}
OneObject    == {o1}
TwoObjects   == {o1, o2}
OneMonitor   == {m1}
TwoMonitors  == {m1, m2}
OnlyT2       == {t2}
NoHash       == {}
NoThread     == {}
OneHash      == {1}
TwoHashes    == {1, 2}

\* o1 is an ordinary object, or the Thread object of t2 that others join.
NoThreadObject == [t \in Thread |-> NIL]
JoinableThread == [t \in Thread |-> IF t = t2 THEN o1 ELSE NIL]
=============================================================================
