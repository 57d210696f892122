--------------------------- MODULE MCAsyncNatives ---------------------------
(***************************************************************************)
(* Java threads, I/O threads and fewer IOCBs than either, for TLC.         *)
(***************************************************************************)
EXTENDS AsyncNatives

CONSTANTS t1, t2, t3, n1, n2, n3

TwoThreads   == {t1, t2}
ThreeThreads == {t1, t2, t3}
TwoIoThreads   == {n1, n2}
ThreeIoThreads == {n1, n2, n3}
=============================================================================
