----------------------------- MODULE ThreadQueue -----------------------------
(***************************************************************************)
(* The queues of THREADs of thread.c: RunnableThreads, and the             *)
(* monitor_waitq and condvar_waitq of every MONITOR.  The code keeps each  *)
(* as a circular list threaded through the nextThread field, the queue     *)
(* pointer naming the LAST element; here a queue is the sequence of its    *)
(* elements, first element first.  CircularQueue.tla models the pointers   *)
(* and shows that they implement the operators below.                      *)
(***************************************************************************)
EXTENDS Integers, Sequences

\* The threads found on queue q.
OnQueue(q) == {q[i] : i \in DOMAIN q}

\* q without its i-th element.
WithoutIndex(q, i) == SubSeq(q, 1, i - 1) \o SubSeq(q, i + 1, Len(q))

\* The position of thread t on queue q.
IndexOf(q, t) == CHOOSE i \in DOMAIN q : q[i] = t

\* Bug: a thread that becomes runnable goes ahead of all others.
AddThreadAhead(q, t) == IF t \in OnQueue(q) THEN q ELSE <<t>> \o q

(***************************************************************************)
(* addThreadToQueue(queue, t, AT_END).  The routine does not look whether  *)
(* t is on the queue already.  If it is, relinking t shortens the circle:  *)
(* the threads behind t fall off or, when t was the last element, all the  *)
(* others do.                                                              *)
(***************************************************************************)
AddThreadToQueue(q, t) ==
    IF t \notin OnQueue(q) THEN Append(q, t)
    ELSE IF q[Len(q)] = t THEN <<t>>
    ELSE SubSeq(q, 1, IndexOf(q, t))

\* addThreadToQueue(queue, t, AT_START), for a t that is on no queue.
PushThreadOnQueue(q, t) == <<t>> \o q

\* The thread removeQueueStart() returns, none standing for a null pointer.
QueueStart(q, none) == IF q = << >> THEN none ELSE Head(q)

\* What removeQueueStart() leaves on the queue.
RemoveQueueStart(q) == IF q = << >> THEN q ELSE Tail(q)

\* removeFromQueue(queue, t): what it leaves; it returns t \in OnQueue(q).
RemoveFromQueue(q, t) ==
    IF t \in OnQueue(q) THEN WithoutIndex(q, IndexOf(q, t)) ELSE q

\* No thread is on q twice.
NoDuplicates(q) == \A i, j \in DOMAIN q : q[i] = q[j] => i = j
=============================================================================
