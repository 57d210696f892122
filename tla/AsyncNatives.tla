---------------------------- MODULE AsyncNatives ----------------------------
(***************************************************************************)
(* Asynchronous native functions (async.c, async.h, thread.c, and the      *)
(* native threads of the Windows port, runtime_md.c and runtime2_md.c).    *)
(*                                                                         *)
(* The VM is one native thread.  It suspends the Java thread that calls    *)
(* such a function and hands the call, in a control block (IOCB), to one   *)
(* of a few I/O threads, which run at the same time as the VM.  A counter  *)
(* and a flag keep the collector and the code of these functions that uses *)
(* the heap apart; while a function waits for its device it does not.      *)
(*                                                                         *)
(* A step ends where another native thread could see what it has done.     *)
(***************************************************************************)
EXTENDS Integers, Sequences, SequencesExt, FiniteSets

CONSTANTS
    Thread,       \* Java threads
    MainThread,
    IoThread,     \* native threads for I/O
    IocbCount,    \* ASYNC_IOCB_COUNT
    MaxWorld,     \* how often the VM is started
    NIL

ASSUME ConstantsAssumption ==
    /\ MainThread \in Thread /\ NIL \notin Thread
    /\ IsFiniteSet(Thread) /\ IsFiniteSet(IoThread)
    /\ IocbCount \in Nat \ {0} /\ NIL \notin 1..IocbCount
    /\ MaxWorld \in Nat \ {0}

VARIABLES
    vm,                  \* where the VM is
    CurrentThread, RunnableThreads,
    suspended,           \* threads with THREAD_SUSPENDED
    IocbFreeList,
    iocbThread,          \* the field thread of each IOCB
    aiocb,               \* the IOCB the VM has acquired
    nextIocb,            \* the request handed over, with nextRoutine
    event,               \* is EventHandle signalled?
    AsyncThreadCount, collectorIsRunning,
    root, copy,          \* the IOCB the collector updates, and the pointer it has read
    VersionOfTheWorld,
    io,                  \* where each I/O thread is
    ioIocb,              \* the IOCB it works on
    version,             \* its _verson_
    world                \* the world in which its call was made (for a property)

vmVars    == <<vm, aiocb, root, copy>>
javaVars  == <<CurrentThread, RunnableThreads, suspended>>
poolVars  == <<IocbFreeList, iocbThread>>
handVars  == <<nextIocb, event>>
gcVars    == <<AsyncThreadCount, collectorIsRunning>>
ioVars    == <<io, ioIocb, version, world>>
vars      == <<vmVars, javaVars, poolVars, handVars, gcVars, VersionOfTheWorld, ioVars>>

Iocb == 1..IocbCount

----------------------------------------------------------------------------
\* The VM has been started for the first time, and all threads have.
StartedThreads(current, runnable) ==
    /\ current = MainThread
    /\ runnable = SetToSeq(Thread \ {MainThread})

Init ==
    /\ vm = "run" /\ aiocb = NIL /\ root = 1 /\ copy = NIL
    /\ StartedThreads(CurrentThread, RunnableThreads) /\ suspended = {}
    /\ IocbFreeList = [k \in Iocb |-> IocbCount + 1 - k]
    /\ iocbThread = [b \in Iocb |-> NIL]
    /\ nextIocb = NIL /\ event = FALSE
    /\ AsyncThreadCount = 0 /\ collectorIsRunning = FALSE
    /\ VersionOfTheWorld = 1
    /\ io = [i \in IoThread |-> "idle"] /\ ioIocb = [i \in IoThread |-> NIL]
    /\ version = [i \in IoThread |-> 0] /\ world = [i \in IoThread |-> 0]

----------------------------------------------------------------------------
(* The VM *)

\* The end of a time slice: SwitchThread().
SwitchThread ==
    /\ vm = "run" /\ RunnableThreads # <<>>
    /\ CurrentThread' = Head(RunnableThreads)
    /\ RunnableThreads' = Tail(RunnableThreads) \o
                            (IF CurrentThread = NIL THEN <<>> ELSE <<CurrentThread>>)
    /\ UNCHANGED <<suspended, vmVars, poolVars, handVars, gcVars, VersionOfTheWorld, ioVars>>

\* The current thread calls an ASYNC_FUNCTION.
CallNative ==
    /\ vm = "run" /\ CurrentThread # NIL
    /\ vm' = "acquire"
    /\ UNCHANGED <<aiocb, root, copy, javaVars, poolVars, handVars, gcVars, VersionOfTheWorld, ioVars>>

\* AcquireAsyncIOCB(): the VM spins until there is an IOCB.
AcquireAsyncIOCB ==
    /\ vm = "acquire" /\ IocbFreeList # <<>>
    /\ aiocb' = Head(IocbFreeList)
    /\ IocbFreeList' = Tail(IocbFreeList)
    /\ vm' = "prolog"
    /\ UNCHANGED <<root, copy, javaVars, iocbThread, handVars, gcVars, VersionOfTheWorld, ioVars>>

\* The rest of it: nobody else can see the IOCB yet.
asyncFunctionProlog ==
    /\ vm = "prolog" /\ iocbThread[aiocb] = NIL
    /\ iocbThread' = [iocbThread EXCEPT ![aiocb] = CurrentThread]
    /\ suspended' = suspended \cup {CurrentThread}
    /\ CurrentThread' = NIL
    /\ AsyncThreadCount' = AsyncThreadCount + 1
    /\ vm' = "hand"
    /\ UNCHANGED <<aiocb, root, copy, RunnableThreads, IocbFreeList, handVars, collectorIsRunning,
                   VersionOfTheWorld, ioVars>>

\* CallAsyncNativeFunction_md() hands the IOCB over ...
CallAsyncNativeFunction ==
    /\ vm = "hand" /\ nextIocb = NIL
    /\ nextIocb' = aiocb
    /\ event' = TRUE
    /\ vm' = "spin"
    /\ UNCHANGED <<aiocb, root, copy, javaVars, poolVars, gcVars, VersionOfTheWorld, ioVars>>

\* Mutant: the VM goes on while the request waits to be taken.
RequestUntaken ==
    /\ vm = "spin"
    /\ vm' = "run" /\ aiocb' = NIL
    /\ UNCHANGED <<root, copy, javaVars, poolVars, handVars, gcVars, VersionOfTheWorld, ioVars>>

\* ... and spins until it has been taken.
RequestTaken ==
    /\ vm = "spin" /\ nextIocb = NIL
    /\ vm' = "run" /\ aiocb' = NIL
    /\ UNCHANGED <<root, copy, javaVars, poolVars, handVars, gcVars, VersionOfTheWorld, ioVars>>

\* Something has to be allocated, and garbageCollect() is called.
garbageCollect ==
    /\ vm = "run"
    /\ vm' = "rundown"
    /\ UNCHANGED <<aiocb, root, copy, javaVars, poolVars, handVars, gcVars, VersionOfTheWorld, ioVars>>

\* The VM spins until no native function uses the heap.  The collector compacts the
\* heap, or there is room enough without.
RundownAsynchronousFunctions ==
    /\ vm = "rundown" /\ AsyncThreadCount = 0
    /\ collectorIsRunning' = TRUE
    /\ vm' = "collect"
    /\ \E compacts \in BOOLEAN : root' = IF compacts THEN 1 ELSE IocbCount + 1
    /\ UNCHANGED <<aiocb, copy, javaVars, poolVars, handVars, AsyncThreadCount, VersionOfTheWorld, ioVars>>

\* updatePointer() of the thread in an IOCB: the pointer is read ...
ReadPointer ==
    /\ vm = "collect" /\ root \in Iocb /\ copy = NIL
    /\ IF iocbThread[root] = NIL
       THEN root' = root + 1 /\ UNCHANGED copy
       ELSE copy' = iocbThread[root] /\ UNCHANGED root
    /\ UNCHANGED <<vm, aiocb, javaVars, poolVars, handVars, gcVars, VersionOfTheWorld, ioVars>>

\* ... and its new value, which is still the same thread, written.
WritePointer ==
    /\ vm = "collect" /\ copy # NIL
    /\ iocbThread' = [iocbThread EXCEPT ![root] = copy]
    /\ copy' = NIL /\ root' = root + 1
    /\ UNCHANGED <<vm, aiocb, javaVars, IocbFreeList, handVars, gcVars, VersionOfTheWorld, ioVars>>

RestartAsynchronousFunctions ==
    /\ vm = "collect" /\ root \notin Iocb
    /\ collectorIsRunning' = FALSE
    /\ vm' = "run"
    /\ UNCHANGED <<aiocb, root, copy, javaVars, poolVars, handVars, AsyncThreadCount, VersionOfTheWorld, ioVars>>

\* The program ends, and another VM is started: InitalizeAsynchronousIO() ...
RestartVM ==
    /\ vm = "run" /\ VersionOfTheWorld < MaxWorld
    /\ VersionOfTheWorld' = VersionOfTheWorld + 1
    /\ vm' = "restart"
    /\ UNCHANGED <<aiocb, root, copy, javaVars, poolVars, handVars, gcVars, ioVars>>

\* Mutant: the VM starts when only one call is left.
ActiveAsyncOperationsLess == IocbCount - Len(IocbFreeList) - 1

ActiveAsyncOperations == IocbCount - Len(IocbFreeList)

\* ... waits for the calls of the one before; InitializeThreading() follows.
InitializeThreading ==
    /\ vm = "restart" /\ ActiveAsyncOperations <= 0
    /\ vm' = "run"
    /\ StartedThreads(CurrentThread', RunnableThreads') /\ suspended' = {}
    /\ UNCHANGED <<aiocb, root, copy, poolVars, handVars, gcVars, VersionOfTheWorld, ioVars>>

VMNext ==
    \/ SwitchThread \/ CallNative \/ AcquireAsyncIOCB \/ asyncFunctionProlog
    \/ CallAsyncNativeFunction \/ RequestTaken
    \/ garbageCollect \/ RundownAsynchronousFunctions \/ ReadPointer \/ WritePointer
    \/ RestartAsynchronousFunctions \/ RestartVM \/ InitializeThreading

----------------------------------------------------------------------------
(* An I/O thread *)

\* asyncThread(): EventHandle resets itself, so one thread is released.
asyncThread(i) ==
    /\ io[i] = "idle" /\ event
    /\ event' = FALSE
    /\ io' = [io EXCEPT ![i] = "released"]
    /\ UNCHANGED <<vmVars, javaVars, poolVars, nextIocb, gcVars, VersionOfTheWorld, ioIocb, version, world>>

processAcyncThread(i) ==
    /\ io[i] = "released" /\ nextIocb # NIL
    /\ io' = [io EXCEPT ![i] = "arguments"]
    /\ ioIocb' = [ioIocb EXCEPT ![i] = nextIocb]
    /\ world' = [world EXCEPT ![i] = VersionOfTheWorld]
    /\ nextIocb' = NIL
    /\ UNCHANGED <<vmVars, javaVars, poolVars, event, gcVars, VersionOfTheWorld, version>>

\* Mutant: return in place of goto done, past ASYNC_FUNCTION_END.
ArgumentsWrongReturns(i) ==
    /\ io[i] = "arguments"
    /\ io' = [io EXCEPT ![i] = "abort"]
    /\ UNCHANGED <<vmVars, javaVars, poolVars, handVars, gcVars, VersionOfTheWorld, ioIocb, version, world>>

\* The function takes its arguments from the Java stack.  With wrong arguments
\* the result is known at once ...
ArgumentsWrong(i) ==
    /\ io[i] = "arguments"
    /\ io' = [io EXCEPT ![i] = "result"]
    /\ UNCHANGED <<vmVars, javaVars, poolVars, handVars, gcVars, VersionOfTheWorld, ioIocb, version, world>>

\* ... otherwise it waits for the device: ASYNC_enableGarbageCollection().
enableGarbageCollection(i) ==
    /\ io[i] = "arguments"
    /\ version' = [version EXCEPT ![i] = VersionOfTheWorld]
    /\ AsyncThreadCount' = AsyncThreadCount - 1
    /\ io' = [io EXCEPT ![i] = "device"]
    /\ UNCHANGED <<vmVars, javaVars, poolVars, handVars, collectorIsRunning, VersionOfTheWorld, ioIocb, world>>

DeviceAnswers(i) ==
    /\ io[i] = "device"
    /\ io' = [io EXCEPT ![i] = "answered"]
    /\ UNCHANGED <<vmVars, javaVars, poolVars, handVars, gcVars, VersionOfTheWorld, ioIocb, version, world>>

\* ASYNC_disableGarbageCollection() asks whether the VM is still the same ...
CheckVersion(i) ==
    /\ io[i] = "answered"
    /\ io' = [io EXCEPT ![i] = IF version[i] = VersionOfTheWorld THEN "disable" ELSE "abort"]
    /\ UNCHANGED <<vmVars, javaVars, poolVars, handVars, gcVars, VersionOfTheWorld, ioIocb, version, world>>

\* Mutant: the flag of the collector is not looked at.
incrementAlways(i) ==
    /\ io[i] = "disable"
    /\ AsyncThreadCount' = AsyncThreadCount + 1
    /\ io' = [io EXCEPT ![i] = "result"]
    /\ UNCHANGED <<vmVars, javaVars, poolVars, handVars, collectorIsRunning, VersionOfTheWorld,
                   ioIocb, version, world>>

\* ... and spins until the collector does not run.
incrementAsyncCount(i) ==
    /\ io[i] = "disable" /\ ~collectorIsRunning
    /\ AsyncThreadCount' = AsyncThreadCount + 1
    /\ io' = [io EXCEPT ![i] = "result"]
    /\ UNCHANGED <<vmVars, javaVars, poolVars, handVars, collectorIsRunning, VersionOfTheWorld,
                   ioIocb, version, world>>

\* The result is pushed onto the Java stack, and ReleaseAsyncIOCB() calls resumeThread().
resumeThread(i) ==
    LET thisThread == iocbThread[ioIocb[i]]
    IN  /\ io[i] = "result"
        /\ thisThread \in suspended /\ thisThread # CurrentThread
        /\ suspended' = suspended \ {thisThread}
        /\ RunnableThreads' = Append(RunnableThreads, thisThread)
        /\ io' = [io EXCEPT ![i] = "epilog"]
        /\ UNCHANGED <<CurrentThread, vmVars, poolVars, handVars, gcVars, VersionOfTheWorld,
                       ioIocb, version, world>>

asyncFunctionEpilog(i) ==
    /\ io[i] = "epilog"
    /\ AsyncThreadCount' = AsyncThreadCount - 1
    /\ io' = [io EXCEPT ![i] = "free"]
    /\ UNCHANGED <<vmVars, javaVars, poolVars, handVars, collectorIsRunning, VersionOfTheWorld,
                   ioIocb, version, world>>

\* Mutant: ASYNC_disableGarbageCollection() goes on after it.
AbortAsyncIOCBGoesOn(i) ==
    /\ io[i] \in {"free", "abort"}
    /\ iocbThread' = [iocbThread EXCEPT ![ioIocb[i]] = NIL]
    /\ IocbFreeList' = <<ioIocb[i]>> \o IocbFreeList
    /\ io' = [io EXCEPT ![i] = IF io[i] = "abort" THEN "disable" ELSE "idle"]
    /\ ioIocb' = [ioIocb EXCEPT ![i] = IF io[i] = "abort" THEN @ ELSE NIL]
    /\ UNCHANGED <<vmVars, javaVars, handVars, gcVars, VersionOfTheWorld, version, world>>

\* AbortAsyncIOCB(), at the end of every call.
AbortAsyncIOCB(i) ==
    /\ io[i] \in {"free", "abort"}
    /\ iocbThread' = [iocbThread EXCEPT ![ioIocb[i]] = NIL]
    /\ IocbFreeList' = <<ioIocb[i]>> \o IocbFreeList
    /\ io' = [io EXCEPT ![i] = "idle"] /\ ioIocb' = [ioIocb EXCEPT ![i] = NIL]
    /\ UNCHANGED <<vmVars, javaVars, handVars, gcVars, VersionOfTheWorld, version, world>>

\* What an I/O thread does without waiting for the collector.
IoStep(i) ==
    \/ processAcyncThread(i) \/ ArgumentsWrong(i) \/ enableGarbageCollection(i)
    \/ DeviceAnswers(i) \/ CheckVersion(i) \/ resumeThread(i) \/ asyncFunctionEpilog(i)
    \/ AbortAsyncIOCB(i)

IoNext(i) == asyncThread(i) \/ incrementAsyncCount(i) \/ IoStep(i)

Next == VMNext \/ \E i \in IoThread : IoNext(i)

Spec == Init /\ [][Next]_vars

(***************************************************************************)
(* The scheduler of the operating system runs the VM and each I/O thread,  *)
(* and devices answer.  Time slices end, also when the VM collects garbage *)
(* again and again, and an I/O thread that spins finds a moment between    *)
(* two collections.                                                        *)
(***************************************************************************)
Fairness ==
    /\ WF_vars(AcquireAsyncIOCB \/ asyncFunctionProlog \/ CallAsyncNativeFunction \/ RequestTaken
               \/ RundownAsynchronousFunctions \/ ReadPointer \/ WritePointer
               \/ RestartAsynchronousFunctions \/ InitializeThreading)
    /\ SF_vars(SwitchThread)
    /\ WF_vars(\E i \in IoThread : asyncThread(i))
    /\ \A i \in IoThread : WF_vars(IoStep(i)) /\ SF_vars(incrementAsyncCount(i))

FairSpec == Spec /\ Fairness

----------------------------------------------------------------------------
(* Properties *)

TypeOK ==
    /\ vm \in {"run", "acquire", "prolog", "hand", "spin", "rundown", "collect", "restart"}
    /\ CurrentThread \in Thread \cup {NIL} /\ RunnableThreads \in Seq(Thread)
    /\ suspended \subseteq Thread
    /\ IocbFreeList \in Seq(Iocb) /\ iocbThread \in [Iocb -> Thread \cup {NIL}]
    /\ aiocb \in Iocb \cup {NIL} /\ nextIocb \in Iocb \cup {NIL} /\ event \in BOOLEAN
    /\ AsyncThreadCount \in Int /\ collectorIsRunning \in BOOLEAN
    /\ root \in Nat /\ copy \in Thread \cup {NIL}
    /\ VersionOfTheWorld \in Nat
    /\ io \in [IoThread -> {"idle", "released", "arguments", "device", "answered", "disable",
                            "result", "epilog", "free", "abort"}]
    /\ ioIocb \in [IoThread -> Iocb \cup {NIL}]
    /\ version \in [IoThread -> Nat] /\ world \in [IoThread -> Nat]

\* I/O threads in code that uses pointers into the heap.
UsesHeap == {i \in IoThread : io[i] \in {"arguments", "result", "epilog"}}

\* No I/O thread uses a pointer into the heap while the collector moves objects, and
\* none is about to with a call that has just been handed over.
CollectorAlone == collectorIsRunning => UsesHeap = {} /\ nextIocb = NIL

\* Every IOCB is free, with the VM, or with the one call that uses it.
IocbsUnshared ==
    \A b \in Iocb :
        Cardinality({k \in DOMAIN IocbFreeList : IocbFreeList[k] = b})
        + Cardinality({i \in IoThread : ioIocb[i] = b})
        + (IF (vm \in {"prolog", "hand"} /\ aiocb = b) \/ nextIocb = b THEN 1 ELSE 0) = 1

\* None of the fatalError() calls of these functions is reached, but for the one of
\* AcquireAsyncIOCB(): collector on entry to a function or to the collector, a request
\* overwritten or missing, an IOCB without thread, a thread resumed that is not suspended.
NoFatalError ==
    /\ vm \in {"prolog", "rundown"} => ~collectorIsRunning
    /\ vm = "hand" => nextIocb = NIL
    /\ vm = "collect" => collectorIsRunning
    /\ \A i \in IoThread :
        /\ io[i] = "released" => nextIocb # NIL
        /\ io[i] = "result" => /\ iocbThread[ioIocb[i]] \in suspended
                               /\ iocbThread[ioIocb[i]] # CurrentThread

\* A VM that has been started again runs when no call of the one before is left.
WorldsApart ==
    vm # "restart" => \A i \in IoThread : ioIocb[i] # NIL => world[i] = VersionOfTheWorld

\* AcquireAsyncIOCB() ends the VM when an IOCB from the free list names a thread: an
\* IOCB was freed between the two halves of updatePointer(), which wrote the thread back.
ProblemInAcquire == vm = "prolog" /\ iocbThread[aiocb] # NIL

\* A thread that calls an asynchronous function runs again, as long as the VM lives.
CallsEnd == \A t \in Thread : t \in suspended ~> CurrentThread = t \/ ProblemInAcquire

=============================================================================
