----------------------------- MODULE JavaMonitors -----------------------------
(***************************************************************************)
(* What the monitors of thread.c promise, with no word on how a lock is    *)
(* represented: every object has a re-entrant lock handed over in order of *)
(* arrival, a set of waiting threads woken in order of arrival, and an     *)
(* identity hash that is drawn once.                                       *)
(***************************************************************************)
EXTENDS Integers, Sequences

CONSTANTS Thread, Object, HashCode, NIL

VARIABLES
    owner,    \* owner[o]: the thread that holds o's lock, or NIL
    count,    \* count[o]: how often it has entered
    entryQ,   \* entryQ[o]: the threads queued for the lock, first one first
    waitQ,    \* waitQ[o]: the threads in wait() on o
    saved,    \* saved[t]: the entry count t gets back with the lock
    hash      \* hash[o]: the identity hash, 0 until it is drawn

vars == <<owner, count, entryQ, waitQ, saved, hash>>

Init ==
    /\ owner = [o \in Object |-> NIL]
    /\ count = [o \in Object |-> 0]
    /\ entryQ = [o \in Object |-> << >>]
    /\ waitQ = [o \in Object |-> << >>]
    /\ saved = [t \in Thread |-> 0]
    /\ hash = [o \in Object |-> 0]

\* The lock of o, with the queue q for it, goes to the first of q.
PassOn(o, q, sv) ==
    IF q = << >>
    THEN /\ owner' = [owner EXCEPT ![o] = NIL]
         /\ count' = [count EXCEPT ![o] = 0]
         /\ entryQ' = [entryQ EXCEPT ![o] = q]
         /\ saved' = sv
    ELSE /\ owner' = [owner EXCEPT ![o] = Head(q)]
         /\ count' = [count EXCEPT ![o] = sv[Head(q)]]
         /\ entryQ' = [entryQ EXCEPT ![o] = Tail(q)]
         /\ saved' = [sv EXCEPT ![Head(q)] = 0]

\* Threads ts leave wait() and join the queue; a free lock is taken at once.
Requeue(o, ts) ==
    IF owner[o] = NIL THEN PassOn(o, entryQ[o] \o ts, saved)
    ELSE /\ entryQ' = [entryQ EXCEPT ![o] = @ \o ts]
         /\ UNCHANGED <<owner, count, saved>>

Enter(t, o) ==
    /\ owner[o] \in {NIL, t}
    /\ owner[o] = NIL => entryQ[o] = << >>
    /\ owner' = [owner EXCEPT ![o] = t]
    /\ count' = [count EXCEPT ![o] = @ + 1]
    /\ UNCHANGED <<entryQ, waitQ, saved, hash>>

GetInLine(t, o) ==
    /\ owner[o] \notin {NIL, t}
    /\ entryQ' = [entryQ EXCEPT ![o] = Append(@, t)]
    /\ saved' = [saved EXCEPT ![t] = 1]
    /\ UNCHANGED <<owner, count, waitQ, hash>>

Exit(t, o) ==
    /\ owner[o] = t
    /\ IF count[o] = 1 THEN PassOn(o, entryQ[o], saved)
       ELSE /\ count' = [count EXCEPT ![o] = @ - 1]
            /\ UNCHANGED <<owner, entryQ, saved>>
    /\ UNCHANGED <<waitQ, hash>>

Wait(t, o) ==
    /\ owner[o] = t
    /\ waitQ' = [waitQ EXCEPT ![o] = Append(@, t)]
    /\ PassOn(o, entryQ[o], [saved EXCEPT ![t] = count[o]])
    /\ UNCHANGED hash

\* notify() moves the first k waiters: one, or all of them.
Notify(o) ==
    /\ \E k \in {1, Len(waitQ[o])} :
         /\ k \in 1..Len(waitQ[o])
         /\ waitQ' = [waitQ EXCEPT ![o] = SubSeq(@, k + 1, Len(@))]
         /\ Requeue(o, SubSeq(waitQ[o], 1, k))
    /\ UNCHANGED hash

\* A timeout or an interrupt takes t, the i-th waiter, out of wait().
Leave(o) ==
    /\ \E i \in 1..Len(waitQ[o]) :
         /\ waitQ' = [waitQ EXCEPT
              ![o] = SubSeq(@, 1, i - 1) \o SubSeq(@, i + 1, Len(@))]
         /\ Requeue(o, <<waitQ[o][i]>>)
    /\ UNCHANGED hash

DrawHash(o) ==
    /\ hash[o] = 0
    /\ \E h \in HashCode : hash' = [hash EXCEPT ![o] = h]
    /\ UNCHANGED <<owner, count, entryQ, waitQ, saved>>

Next ==
    \E o \in Object :
       \/ \E t \in Thread : \/ Enter(t, o) \/ GetInLine(t, o)
                            \/ Exit(t, o) \/ Wait(t, o)
       \/ Notify(o)
       \/ Leave(o)
       \/ DrawHash(o)

Spec == Init /\ [][Next]_vars
=============================================================================
