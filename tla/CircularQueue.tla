---------------------------- MODULE CircularQueue ----------------------------
(***************************************************************************)
(* The queue routines of thread.c on the pointers they work with.  Every   *)
(* THREAD has one nextThread field, shared by all queues; a queue is a     *)
(* circular list, and the queue variable points to its LAST element.       *)
(*                                                                         *)
(* The callers keep a thread off two queues at a time (InOnePlace of       *)
(* KvmThreads), but interruptThread() can add a thread to a queue it is on *)
(* already, and AddThreadToQueue has to say what happens then.             *)
(***************************************************************************)
EXTENDS ThreadQueue, FiniteSets

CONSTANTS Thread, Queue, NIL

VARIABLES
    nextThread,     \* the link of every THREAD
    last,           \* last[q]: the queue variable
    result

vars == <<nextThread, last, result>>

Init ==
    /\ nextThread = [t \in Thread |-> NIL]
    /\ last = [q \in Queue |-> NIL]
    /\ result = NIL

-----------------------------------------------------------------------------
\* hops[n] is the n-th thread of a walk that starts behind thread p.
Hops(p) ==
    LET hops[n \in 0..Cardinality(Thread)] ==
            IF n = 0 THEN p ELSE IF hops[n - 1] = NIL THEN NIL
                            ELSE nextThread[hops[n - 1]]
    IN  hops

\* How far the walk around queue q goes until it meets t or the last element.
StepsTo(q, t) ==
    CHOOSE n \in 1..Cardinality(Thread) :
        /\ Hops(last[q])[n] \in {t, last[q]}
        /\ \A k \in 1..(n - 1) : Hops(last[q])[k] \notin {t, last[q]}

\* The threads on q, in order.
Contents(q) ==
    IF last[q] = NIL THEN << >>
    ELSE [n \in 1..StepsTo(q, last[q]) |-> Hops(last[q])[n]]

-----------------------------------------------------------------------------
Elsewhere(q, t) == \E p \in Queue \ {q} : t \in OnQueue(Contents(p))

AddAtEnd(q, t) ==
    /\ ~Elsewhere(q, t)
    /\ nextThread' =
         IF last[q] = NIL THEN [nextThread EXCEPT ![t] = t]
         ELSE [[nextThread EXCEPT ![t] = nextThread[last[q]]] EXCEPT ![last[q]] = t]
    /\ last' = [last EXCEPT ![q] = t]
    /\ result' = NIL

AddAtStart(q, t) ==
    /\ \A p \in Queue : t \notin OnQueue(Contents(p))
    /\ IF last[q] = NIL
       THEN /\ nextThread' = [nextThread EXCEPT ![t] = t]
            /\ last' = [last EXCEPT ![q] = t]
       ELSE /\ nextThread' = [[nextThread EXCEPT ![t] = nextThread[last[q]]]
                                 EXCEPT ![last[q]] = t]
            /\ UNCHANGED last
    /\ result' = NIL

RemoveStart(q) ==
    IF last[q] = NIL
    THEN result' = NIL /\ UNCHANGED <<nextThread, last>>
    ELSE LET t == nextThread[last[q]] IN
         /\ IF t = last[q]
            THEN /\ last' = [last EXCEPT ![q] = NIL]
                 /\ nextThread' = [nextThread EXCEPT ![t] = NIL]
            ELSE /\ nextThread' = [[nextThread EXCEPT ![last[q]] = nextThread[t]]
                                      EXCEPT ![t] = NIL]
                 /\ UNCHANGED last
         /\ result' = t

\* Bug: removing the last thread empties the queue.
RemoveEmptiesQueue(q, t) ==
    IF last[q] = NIL
    THEN result' = FALSE /\ UNCHANGED <<nextThread, last>>
    ELSE LET n    == StepsTo(q, t)
             prev == Hops(last[q])[n - 1]
             cur  == Hops(last[q])[n]
         IN  IF cur # t
             THEN result' = FALSE /\ UNCHANGED <<nextThread, last>>
             ELSE /\ nextThread' = [[nextThread EXCEPT ![prev] = nextThread[cur]]
                                       EXCEPT ![cur] = NIL]
                  /\ last' = IF cur # last[q] THEN last ELSE [last EXCEPT ![q] = NIL]
                  /\ result' = TRUE

\* prev_q and q of the routine's loop when it stops.
Remove(q, t) ==
    IF last[q] = NIL
    THEN result' = FALSE /\ UNCHANGED <<nextThread, last>>
    ELSE LET n    == StepsTo(q, t)
             prev == Hops(last[q])[n - 1]
             cur  == Hops(last[q])[n]
         IN  IF cur # t
             THEN result' = FALSE /\ UNCHANGED <<nextThread, last>>
             ELSE /\ nextThread' = [[nextThread EXCEPT ![prev] = nextThread[cur]]
                                       EXCEPT ![cur] = NIL]
                  /\ last' = IF cur # last[q] THEN last
                             ELSE [last EXCEPT ![q] = IF prev = cur THEN NIL ELSE prev]
                  /\ result' = TRUE

Next == \E q \in Queue :
           \/ \E t \in Thread : AddAtEnd(q, t) \/ AddAtStart(q, t) \/ Remove(q, t)
           \/ RemoveStart(q)

Spec == Init /\ [][Next]_vars

-----------------------------------------------------------------------------
\* The routines do to the lists what ThreadQueues says they do to sequences,
\* and return what it says.
TQ == INSTANCE ThreadQueues WITH queue <- [q \in Queue |-> Contents(q)]

ImplementsThreadQueues == TQ!Spec
=============================================================================
