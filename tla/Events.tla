-------------------------------- MODULE Events --------------------------------
(***************************************************************************)
(* Events of the host system (VmCommon/src/events.c) and the loop of       *)
(* reschedule() that waits for them.  The device offers events to          *)
(* StoreKVMEvent(), which keeps their cells in a small buffer; a thread    *)
(* that reads when the buffer is empty is suspended, and gets its cell     *)
(* from InterpreterHandleEvent(), which also lets the VM sleep.            *)
(* A build without asynchronous native functions, the debugger off.        *)
(***************************************************************************)
EXTENDS ThreadQueue, FiniteSets

CONSTANTS
    Thread, NIL,
    Reader,          \* the threads that read events
    Event, ArgCount, \* the types of events, and the parameters each has
    MAXPARMLENGTH,   \* the size of the buffer
    MaxDelta,        \* bound: the longest sleep
    MaxLate          \* bound: how long the clock runs on past a due alarm

ASSUME EventsAssumption ==
    /\ NIL \notin Thread
    /\ Reader \subseteq Thread
    /\ ArgCount \in [Event -> 0..(MAXPARMLENGTH - 1)]  \* a duty of the port
    /\ MAXPARMLENGTH \in Nat \ {0}
    /\ MaxDelta \in Nat \ {0} /\ MaxLate \in Nat

VARIABLES
    CurrentThread, RunnableThreads,
    alarm,              \* alarm[t]: how long until t's sleep ends, or NIL
    atStep,             \* where the VM is: in bytecodes, or in reschedule()
    wakeupDelta,        \* the variable of reschedule()
    waitingThread, eventBuffer, eventInP, eventCount,
    topStack            \* topStack[t]: the answer of t's last read, NIL for 0

threadVars == <<CurrentThread, RunnableThreads, alarm>>
bufferVars == <<eventBuffer, eventInP, eventCount>>
vars == <<threadVars, atStep, wakeupDelta, waitingThread, bufferVars, topStack>>

\* The cell of a parameter is told from others by its event and its place.
CellsOf(e) == [i \in 1..(ArgCount[e] + 1) |-> <<e, i - 1>>]

Init ==
    /\ CurrentThread \in Thread
    /\ RunnableThreads \in {q \in [1..(Cardinality(Thread) - 1) -> Thread \ {CurrentThread}] :
                              OnQueue(q) = Thread \ {CurrentThread}}
    /\ alarm = [t \in Thread |-> NIL]
    /\ atStep = "bytecodes"
    /\ wakeupDelta = 0
    /\ waitingThread = NIL
    /\ eventBuffer = [i \in 0..(MAXPARMLENGTH - 1) |-> NIL]
    /\ eventInP = 0
    /\ eventCount = 0
    /\ topStack = [t \in Thread |-> NIL]

areActiveThreads == CurrentThread # NIL \/ RunnableThreads # << >>

-----------------------------------------------------------------------------
(***************************************************************************)
(* The buffer, as a record so that one step can store several events and   *)
(* take a cell.                                                            *)
(***************************************************************************)
Buffer == [cell |-> eventBuffer, inP |-> eventInP, count |-> eventCount]

SetBuffer(b) == eventBuffer' = b.cell /\ eventInP' = b.inP /\ eventCount' = b.count

\* Bug: room for the parameters, but not for the type.
StoredWithoutType(b, e) ==
    LET cells == CellsOf(e)
        at    == IF b.count = 0 THEN 0 ELSE b.inP
    IN  IF b.count # 0 /\ b.inP > MAXPARMLENGTH - ArgCount[e] THEN b
        ELSE [cell |-> [i \in DOMAIN b.cell |->
                          IF i \in at..(at + ArgCount[e]) THEN cells[i - at + 1]
                                                          ELSE b.cell[i]],
              inP |-> at + Len(cells), count |-> b.count + Len(cells)]

\* StoreKVMEvent(e).
Stored(b, e) ==
    LET cells == CellsOf(e)
        at    == IF b.count = 0 THEN 0 ELSE b.inP
    IN  IF b.count # 0 /\ b.inP > MAXPARMLENGTH - 1 - ArgCount[e] THEN b
        ELSE [cell |-> [i \in DOMAIN b.cell |->
                          IF i \in at..(at + ArgCount[e]) THEN cells[i - at + 1]
                                                          ELSE b.cell[i]],
              inP |-> at + Len(cells), count |-> b.count + Len(cells)]

\* What GetAndStoreNextKVMEvent() of a port may do: nothing, or store an event
\* or two (a key and the pen, say).
Polled(b) == {b} \cup {Stored(b, e) : e \in Event}
                 \cup {Stored(Stored(b, e), f) : e, f \in Event}

\* getKVMEvent(): the port is asked only when the buffer is empty.
Found == IF eventCount = 0 THEN Polled(Buffer) ELSE {Buffer}
\* Bug: the cell stored last.
NewestCell(b) == b.cell[b.inP - 1]
NextCell(b) == b.cell[b.inP - b.count]
Taken(b) == [b EXCEPT !.count = @ - 1]

-----------------------------------------------------------------------------
(***************************************************************************)
(* The threads, one bytecode of CurrentThread at a time.                   *)
(***************************************************************************)
Running(t) == atStep = "bytecodes" /\ CurrentThread = t

\* readOneEvent().
ReadOneEvent(t) ==
    /\ Running(t) /\ t \in Reader
    /\ \E b \in Found :
         IF b.count > 0
         THEN /\ topStack' = [topStack EXCEPT ![t] = NextCell(b)]
              /\ SetBuffer(Taken(b))
              /\ UNCHANGED <<CurrentThread, atStep, waitingThread>>
         ELSE /\ waitingThread' = t
              /\ topStack' = [topStack EXCEPT ![t] = NIL]
              /\ CurrentThread' = NIL
              /\ atStep' = "checkTimerQueue"
              /\ SetBuffer(b)
    /\ UNCHANGED <<RunnableThreads, alarm, wakeupDelta>>

Sleep(t, delta) ==
    /\ Running(t)
    /\ alarm' = [alarm EXCEPT ![t] = delta]
    /\ CurrentThread' = NIL
    /\ atStep' = "checkTimerQueue"
    /\ UNCHANGED <<RunnableThreads, wakeupDelta, waitingThread, bufferVars, topStack>>

\* The end of a time slice, or Thread.yield().
Yield(t) ==
    /\ Running(t)
    /\ atStep' = "checkTimerQueue"
    /\ UNCHANGED <<threadVars, wakeupDelta, waitingThread, bufferVars, topStack>>

-----------------------------------------------------------------------------
(***************************************************************************)
(* reschedule().                                                           *)
(***************************************************************************)
\* Alarms that are due at once are fired in an order the code's list decides.
FiringOrders ==
    LET due == {t \in Thread : alarm[t] # NIL /\ alarm[t] <= 0} IN
    {q \in [1..Cardinality(due) -> due] :
       OnQueue(q) = due /\ \A i, j \in DOMAIN q : i < j => alarm[q[i]] <= alarm[q[j]]}

CheckTimerQueue ==
    /\ atStep = "checkTimerQueue"
    /\ \E q \in FiringOrders : RunnableThreads' = RunnableThreads \o q
    /\ alarm' = [t \in Thread |-> IF alarm[t] # NIL /\ alarm[t] <= 0 THEN NIL ELSE alarm[t]]
    /\ LET left == {t \in Thread : alarm'[t] # NIL} IN
       IF left = {} THEN wakeupDelta' = 0
       ELSE \E t \in left : /\ wakeupDelta' = alarm[t]
                            /\ \A u \in left : alarm[t] <= alarm[u]
    /\ atStep' = "InterpreterHandleEvent"
    /\ UNCHANGED <<CurrentThread, waitingThread, bufferVars, topStack>>

\* Bug: the VM waits for an event although a thread can run.
ForeverWithActiveThreads == wakeupDelta = 0

\* Nothing else to do: wait as long as it takes.
Forever == wakeupDelta = 0 /\ ~areActiveThreads

\* Time passes while the VM waits; an event cuts the wait short.
Waits(elapsed) ==
    alarm' = [t \in Thread |-> IF alarm[t] = NIL THEN NIL ELSE alarm[t] - elapsed]

\* Nobody waits for an event: go on, or let the processor sleep.
HandleNoReader ==
    /\ waitingThread = NIL
    /\ IF areActiveThreads THEN UNCHANGED alarm ELSE Waits(wakeupDelta)
    /\ UNCHANGED <<RunnableThreads, waitingThread, bufferVars, topStack>>

\* Bug: the thread that got its cell is not resumed.
AnswerReaderWithoutResume ==
    \E b \in Found :
        /\ waitingThread # NIL /\ b.count > 0
        /\ \E elapsed \in 0..(IF eventCount = 0 THEN wakeupDelta ELSE 0) : Waits(elapsed)
        /\ topStack' = [topStack EXCEPT ![waitingThread] = NextCell(b)]
        /\ waitingThread' = NIL
        /\ SetBuffer(Taken(b))
        /\ UNCHANGED RunnableThreads

AnswerReader ==
    \E b \in Found :
        /\ waitingThread # NIL /\ b.count > 0
        /\ \E elapsed \in 0..(IF eventCount = 0 THEN wakeupDelta ELSE 0) : Waits(elapsed)
        /\ topStack' = [topStack EXCEPT ![waitingThread] = NextCell(b)]
        /\ RunnableThreads' = AddThreadToQueue(RunnableThreads, waitingThread)
        /\ waitingThread' = NIL
        /\ SetBuffer(Taken(b))

HandleNoEvent ==
    /\ waitingThread # NIL /\ eventCount = 0
    /\ ~Forever
    /\ \E elapsed \in 0..wakeupDelta : Waits(elapsed)
    /\ UNCHANGED <<RunnableThreads, waitingThread, bufferVars, topStack>>

InterpreterHandleEvent ==
    /\ atStep = "InterpreterHandleEvent"
    /\ HandleNoReader \/ AnswerReader \/ HandleNoEvent
    /\ atStep' = "SwitchThread"
    /\ wakeupDelta' = 0          \* not read again
    /\ UNCHANGED CurrentThread

SwitchThread ==
    /\ atStep = "SwitchThread"
    /\ IF RunnableThreads = << >> THEN UNCHANGED <<CurrentThread, RunnableThreads>>
       ELSE /\ CurrentThread' = Head(RunnableThreads)
            /\ RunnableThreads' =
                 IF CurrentThread = NIL THEN Tail(RunnableThreads)
                 ELSE AddThreadToQueue(Tail(RunnableThreads), CurrentThread)
    /\ atStep' = IF areActiveThreads THEN "bytecodes" ELSE "checkTimerQueue"
    /\ UNCHANGED <<alarm, wakeupDelta, waitingThread, bufferVars, topStack>>

-----------------------------------------------------------------------------
(***************************************************************************)
(* The world: time passes, and a device calls back with an event.          *)
(***************************************************************************)
Tick ==
    /\ \E t \in Thread : alarm[t] # NIL
    /\ \A t \in Thread : alarm[t] # NIL => alarm[t] > -MaxLate
    /\ Waits(1)
    /\ UNCHANGED <<CurrentThread, RunnableThreads, atStep, wakeupDelta, waitingThread,
                   bufferVars, topStack>>

StoreKVMEvent(e) ==
    /\ SetBuffer(Stored(Buffer, e))
    /\ UNCHANGED <<threadVars, atStep, wakeupDelta, waitingThread, topStack>>

Next ==
    \/ \E t \in Thread :
         \/ ReadOneEvent(t)
         \/ \E delta \in 1..MaxDelta : Sleep(t, delta)
         \/ Yield(t)
    \/ CheckTimerQueue
    \/ InterpreterHandleEvent
    \/ SwitchThread
    \/ Tick
    \/ \E e \in Event : StoreKVMEvent(e)

Spec == Init /\ [][Next]_vars

\* Time slices end, reschedule() goes on, and time passes.  Of the device
\* nothing is assumed: it may never have an event, and then a wait without a
\* limit never ends.
NeedsNoDevice == waitingThread = NIL \/ eventCount > 0 \/ ~Forever

FairSpec ==
    /\ Spec
    /\ WF_vars(\E t \in Thread : Yield(t))
    /\ WF_vars(CheckTimerQueue) /\ WF_vars(SwitchThread)
    /\ WF_vars(NeedsNoDevice /\ InterpreterHandleEvent)
    /\ WF_vars(Tick)

-----------------------------------------------------------------------------
\* The pointer and the count stay in the buffer, whatever the device sends.
BufferInBounds == 0 <= eventCount /\ eventCount <= eventInP /\ eventInP <= MAXPARMLENGTH

\* Events reach their readers whole and in order, each cell once, through a
\* buffer that is filled and emptied in pieces (EventStream.tla).
Stream == INSTANCE EventStream WITH
            unread <- [i \in 1..eventCount |-> eventBuffer[eventInP - eventCount + i - 1]],
            given  <- topStack

ImplementsEventStream == Stream!Spec

\* Waiting for the device never holds up for good a thread that can run, nor one that
\* sleeps: the time it sleeps is over some day ...
RunnableNotHeldUp ==
    \A t \in Thread : t \in OnQueue(RunnableThreads) \/ alarm[t] # NIL ~> CurrentThread = t

\* ... and an event that is in the buffer gets its reader going.
ReaderIsAnswered ==
    \A t \in Reader : waitingThread = t /\ eventCount > 0 ~> CurrentThread = t
=============================================================================
