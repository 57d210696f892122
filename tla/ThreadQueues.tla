---------------------------- MODULE ThreadQueues ----------------------------
(***************************************************************************)
(* The promise of the queue routines of thread.c as a state machine: each  *)
(* queue is a sequence of threads, changed by the operators of             *)
(* ThreadQueue.  This is what every other module of the project assumes.   *)
(***************************************************************************)
EXTENDS ThreadQueue

CONSTANTS Thread, Queue, NIL

VARIABLES
    queue,      \* queue[q]: the threads on q, first one first
    result      \* what the last routine returned

vars == <<queue, result>>

Init == queue = [q \in Queue |-> << >>] /\ result = NIL

AddAtEnd(q, t) ==
    /\ queue' = [queue EXCEPT ![q] = AddThreadToQueue(@, t)]
    /\ result' = NIL

AddAtStart(q, t) ==
    /\ t \notin OnQueue(queue[q])
    /\ queue' = [queue EXCEPT ![q] = PushThreadOnQueue(@, t)]
    /\ result' = NIL

RemoveStart(q) ==
    /\ queue' = [queue EXCEPT ![q] = RemoveQueueStart(@)]
    /\ result' = QueueStart(queue[q], NIL)

Remove(q, t) ==
    /\ queue' = [queue EXCEPT ![q] = RemoveFromQueue(@, t)]
    /\ result' = (t \in OnQueue(queue[q]))

Next == \E q \in Queue :
           \/ \E t \in Thread : AddAtEnd(q, t) \/ AddAtStart(q, t) \/ Remove(q, t)
           \/ RemoveStart(q)

Spec == Init /\ [][Next]_vars
=============================================================================
