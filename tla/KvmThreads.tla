------------------------------ MODULE KvmThreads ------------------------------
(***************************************************************************)
(* Threads, timers and monitors of the KVM (VmCommon/src/thread.c and the  *)
(* native methods of java.lang.Thread and java.lang.Object that drive it). *)
(*                                                                         *)
(* All Java threads run on one native thread: CurrentThread executes       *)
(* bytecodes until Timeslice runs out or it gives up the processor, and    *)
(* reschedule() then fires due alarms and switches threads.  An action is  *)
(* what happens between two points where the interpreter may switch.       *)
(*                                                                         *)
(* The lock of an object lives in its mhc word in one of four forms, and   *)
(* every operation may change the form: unlocked (the word is the identity *)
(* hash), a simple lock, an extended lock (depth and hash are kept in the  *)
(* owner's only extendedLock record), or a real MONITOR.                   *)
(***************************************************************************)
EXTENDS ThreadQueue

CONSTANTS
    Thread,          \* the THREAD structures
    Object,          \* the objects the program synchronizes on
    Monitor,         \* the MONITOR structures the heap can hold
    HashCode,        \* the identity hashes objectHashCode() can hand out
    NIL,             \* the null pointer
    MainThread,      \* the thread InitializeThreading() creates
    javaThread,      \* the java.lang.Thread object of each thread, when the
                     \* program synchronizes on it, and NIL otherwise
    MaxDepth,        \* bound: how often a thread nests one lock
    MaxDelta,        \* bound: longest timeout of sleep() and wait()
    MaxLate,         \* bound: how long the clock runs on past a due alarm
    ShortMax,        \* largest value of a C short
    Interruptible,   \* the threads the program interrupts
    RepeatInterrupt  \* may the program interrupt a thread that left wait()'s
                     \* condvar queue and is queued for the lock again?

ASSUME ConstantsAssumption ==
    /\ NIL \notin Thread \cup Object \cup Monitor
    /\ NIL \notin {"resumeThread", "monitorWaitAlarm"}
    /\ HashCode \subseteq Nat \ {0}
    /\ MainThread \in Thread
    /\ javaThread \in [Thread -> Object \cup {NIL}]
    /\ MaxDepth \in Nat \ {0}
    /\ MaxDelta \in Nat
    /\ MaxLate \in Nat
    /\ ShortMax \in Nat \ {0}
    /\ Interruptible \subseteq Thread
    /\ RepeatInterrupt \in BOOLEAN

VARIABLES
    CurrentThread, RunnableThreads, AliveThreadCount,
    Timeslice,          \* 0: time to reschedule, 1: bytecodes left to run
    \* fields of THREAD
    state, monitor, monitor_depth, wakeupCall, wakeupTime, extendedLock,
    pendingException, isPendingInterrupt,
    \* the mhc word of every object, the MONITORs, and the list of free ones
    mhc, monitors, MonitorCache

schedVars == <<CurrentThread, RunnableThreads, AliveThreadCount, Timeslice>>
waitVars  == <<state, monitor, monitor_depth>>
alarmVars == <<wakeupCall, wakeupTime>>
intrVars  == <<pendingException, isPendingInterrupt>>
lockVars  == <<extendedLock, mhc, monitors, MonitorCache>>
vars == <<schedVars, waitVars, alarmVars, intrVars, lockVars>>

-----------------------------------------------------------------------------
(***************************************************************************)
(* Types.                                                                  *)
(***************************************************************************)
Flag == {"JUST_BORN", "ACTIVE", "SUSPENDED", "DEAD",
         "MONITOR_WAIT", "CONVAR_WAIT"}
WakeupCall == {"resumeThread", "monitorWaitAlarm"}

Hash == HashCode \cup {0}          \* 0: no hash code yet

\* The low two bits of an mhc word and what its upper 30 bits then are.
MhcWord ==
    [tag : {"MHC_UNLOCKED"}, val : Hash]
    \cup [tag : {"MHC_SIMPLE_LOCK", "MHC_EXTENDED_LOCK"}, val : Thread]
    \cup [tag : {"MHC_MONITOR"}, val : Monitor]

MonitorStruct == [owner : Thread \cup {NIL}, depth : Int, hashCode : Hash,
                  monitor_waitq : Seq(Thread), condvar_waitq : Seq(Thread)]

TypeOK ==
    /\ CurrentThread \in Thread \cup {NIL}
    /\ RunnableThreads \in Seq(Thread)
    /\ AliveThreadCount \in Int
    /\ Timeslice \in {0, 1}
    /\ state \in [Thread -> SUBSET Flag]
    /\ monitor \in [Thread -> Monitor \cup {NIL}]
    /\ monitor_depth \in [Thread -> Int]
    /\ wakeupCall \in [Thread -> WakeupCall \cup {NIL}]
    /\ wakeupTime \in [Thread -> Int]
    /\ extendedLock \in [Thread -> [depth : Int, hashCode : Hash]]
    /\ pendingException \in [Thread -> BOOLEAN]
    /\ isPendingInterrupt \in [Thread -> BOOLEAN]
    /\ mhc \in [Object -> MhcWord]
    /\ monitors \in [Monitor -> MonitorStruct]
    /\ MonitorCache \in Seq(Monitor)

NewMonitor == [owner |-> NIL, depth |-> 0, hashCode |-> 0,
               monitor_waitq |-> << >>, condvar_waitq |-> << >>]

Unlocked(h)     == [tag |-> "MHC_UNLOCKED", val |-> h]
SimpleLock(t)   == [tag |-> "MHC_SIMPLE_LOCK", val |-> t]
ExtendedLock(t) == [tag |-> "MHC_EXTENDED_LOCK", val |-> t]
RealMonitor(m)  == [tag |-> "MHC_MONITOR", val |-> m]

Init ==
    /\ CurrentThread = MainThread
    /\ RunnableThreads = << >>
    /\ AliveThreadCount = 1
    /\ Timeslice = 1
    /\ state = [t \in Thread |-> IF t = MainThread THEN {"ACTIVE"}
                                                   ELSE {"JUST_BORN"}]
    /\ monitor = [t \in Thread |-> NIL]
    /\ monitor_depth = [t \in Thread |-> 0]
    /\ wakeupCall = [t \in Thread |-> NIL]
    /\ wakeupTime = [t \in Thread |-> 0]
    /\ extendedLock = [t \in Thread |-> [depth |-> 0, hashCode |-> 0]]
    /\ pendingException = [t \in Thread |-> FALSE]
    /\ isPendingInterrupt = [t \in Thread |-> FALSE]
    /\ mhc = [o \in Object |-> Unlocked(0)]
    /\ monitors = [m \in Monitor |-> NewMonitor]
    /\ MonitorCache = << >>

-----------------------------------------------------------------------------
(***************************************************************************)
(* What an mhc word says, whatever its form.                               *)
(***************************************************************************)
HasMonitor(o) == mhc[o].tag = "MHC_MONITOR"
HasFastLock(o) == mhc[o].tag \in {"MHC_SIMPLE_LOCK", "MHC_EXTENDED_LOCK"}

Owner(o) == CASE mhc[o].tag = "MHC_UNLOCKED"      -> NIL
              [] mhc[o].tag = "MHC_SIMPLE_LOCK"   -> mhc[o].val
              [] mhc[o].tag = "MHC_EXTENDED_LOCK" -> mhc[o].val
              [] mhc[o].tag = "MHC_MONITOR"       -> monitors[mhc[o].val].owner

Depth(o) == CASE mhc[o].tag = "MHC_UNLOCKED"      -> 0
              [] mhc[o].tag = "MHC_SIMPLE_LOCK"   -> 1
              [] mhc[o].tag = "MHC_EXTENDED_LOCK" -> extendedLock[mhc[o].val].depth
              [] mhc[o].tag = "MHC_MONITOR"       -> monitors[mhc[o].val].depth

HashOf(o) ==
    CASE mhc[o].tag = "MHC_UNLOCKED"      -> mhc[o].val
      [] mhc[o].tag = "MHC_SIMPLE_LOCK"   -> 0
      [] mhc[o].tag = "MHC_EXTENDED_LOCK" -> extendedLock[mhc[o].val].hashCode
      [] mhc[o].tag = "MHC_MONITOR"       -> monitors[mhc[o].val].hashCode

ExtendedLockFree(t) == extendedLock[t].depth = 0

(***************************************************************************)
(* upgradeToRealMonitor(o).  Upgraded(o) is the MONITOR as the routine     *)
(* returns it; IsMonitorFor(o, m) says which structure it is: the one the  *)
(* object has, else the first of MonitorCache, else a new heap object.     *)
(* UpgradeToRealMonitor(o, m, r) attaches m to o, r being the fields m has *)
(* at the end of the step that called the routine.                         *)
(***************************************************************************)
\* Bug: the hash is lost.
UpgradedWithoutHash(o) ==
    IF HasMonitor(o) THEN monitors[mhc[o].val]
    ELSE [NewMonitor EXCEPT !.owner = Owner(o), !.depth = Depth(o)]
Upgraded(o) ==
    IF HasMonitor(o) THEN monitors[mhc[o].val]
    ELSE [NewMonitor EXCEPT !.owner = Owner(o), !.depth = Depth(o),
                            !.hashCode = HashOf(o)]

FreeMonitors ==
    {m \in Monitor : /\ \A o \in Object : mhc[o] # RealMonitor(m)
                     /\ m \notin OnQueue(MonitorCache)}

IsMonitorFor(o, m) ==
    IF HasMonitor(o) THEN m = mhc[o].val
    ELSE IF MonitorCache # << >> THEN m = Head(MonitorCache)
    ELSE m \in FreeMonitors

\* Bugs: the monitor stays in MonitorCache; the extended lock stays in use.
UpgradeKeepsCache(o, m, r) ==
    /\ IsMonitorFor(o, m)
    /\ mhc' = [mhc EXCEPT ![o] = RealMonitor(m)]
    /\ monitors' = [monitors EXCEPT ![m] = r]
    /\ UNCHANGED MonitorCache
    /\ extendedLock' = IF mhc[o].tag = "MHC_EXTENDED_LOCK"
                       THEN [extendedLock EXCEPT ![mhc[o].val].depth = 0]
                       ELSE extendedLock
UpgradeKeepsExtendedLock(o, m, r) ==
    /\ IsMonitorFor(o, m)
    /\ mhc' = [mhc EXCEPT ![o] = RealMonitor(m)]
    /\ monitors' = [monitors EXCEPT ![m] = r]
    /\ MonitorCache' = IF HasMonitor(o) \/ MonitorCache = << >>
                       THEN MonitorCache ELSE Tail(MonitorCache)
    /\ UNCHANGED extendedLock

UpgradeToRealMonitor(o, m, r) ==
    /\ IsMonitorFor(o, m)
    /\ mhc' = [mhc EXCEPT ![o] = RealMonitor(m)]
    /\ monitors' = [monitors EXCEPT ![m] = r]
    /\ MonitorCache' = IF HasMonitor(o) \/ MonitorCache = << >>
                       THEN MonitorCache ELSE Tail(MonitorCache)
    /\ extendedLock' = IF mhc[o].tag = "MHC_EXTENDED_LOCK"
                       THEN [extendedLock EXCEPT ![mhc[o].val].depth = 0]
                       ELSE extendedLock

-----------------------------------------------------------------------------
(***************************************************************************)
(* Suspending, resuming and handing a monitor over.  st, mo and md are the *)
(* state, monitor and monitor_depth fields the enclosing step has set up   *)
(* before the call.                                                        *)
(***************************************************************************)
\* suspendThread(): only the current thread is ever suspended.
Suspend ==
    /\ CurrentThread' = NIL
    /\ Timeslice' = 0
    /\ UNCHANGED AliveThreadCount

Suspended(st, t) == [st EXCEPT ![t] = @ \cup {"SUSPENDED"}]

\* resumeThread(t) clears every flag and queues t.  Its two fatalError()s end
\* the VM: a step that would reach one is not taken (see NoFatalError).
Resumed(st, t) == [st EXCEPT ![t] = {"ACTIVE"}]
CanResume(st, t) == "SUSPENDED" \in st[t] /\ t # CurrentThread

\* Bugs: the monitor is set free although threads are queued for it; its new
\* owner gets one entry instead of those it had before wait().
HandedOverToNobody(r, md) == [r EXCEPT !.owner = NIL, !.depth = 0]
HandedOverAtDepthOne(r, md) ==
    LET w == QueueStart(r.monitor_waitq, NIL)
    IN  [r EXCEPT !.owner = w, !.depth = IF w = NIL THEN 0 ELSE 1,
                  !.monitor_waitq = RemoveQueueStart(@)]

\* What removeMonitorWait(m) makes of the fields r of m.
HandedOver(r, md) ==
    LET w == QueueStart(r.monitor_waitq, NIL)
    IN  [r EXCEPT !.owner = w,
                  !.depth = IF w = NIL THEN 0 ELSE md[w],
                  !.monitor_waitq = RemoveQueueStart(@)]

\* Bug: the thread still points to the monitor it waited for.
WakeNewOwnerKeepsMonitor(w, st, mo, md) ==
    IF w = NIL
    THEN /\ state' = st /\ monitor' = mo /\ monitor_depth' = md
         /\ UNCHANGED RunnableThreads
    ELSE /\ CanResume(st, w)
         /\ state' = Resumed(st, w)
         /\ monitor' = mo
         /\ monitor_depth' = [md EXCEPT ![w] = 0]
         /\ RunnableThreads' = AddThreadToQueue(RunnableThreads, w)

\* What removeMonitorWait(m) does to the thread w it hands the monitor to.
WakeNewOwner(w, st, mo, md) ==
    IF w = NIL
    THEN /\ state' = st /\ monitor' = mo /\ monitor_depth' = md
         /\ UNCHANGED RunnableThreads
    ELSE /\ CanResume(st, w)
         /\ state' = Resumed(st, w)
         /\ monitor' = [mo EXCEPT ![w] = NIL]
         /\ monitor_depth' = [md EXCEPT ![w] = 0]
         /\ RunnableThreads' = AddThreadToQueue(RunnableThreads, w)

(***************************************************************************)
(* addMonitorWait(m, t) for each t of the sequence ts, r being the fields  *)
(* of m.  If nobody owns m, the first thread of the queue gets it at once. *)
(* The threads of a longer ts come from m's condvar queue and are on no    *)
(* other, so they end up at the end of the queue in their order.           *)
(* st holds the thread states before the call.                             *)
(***************************************************************************)
Enqueued(r, ts) ==
    [r EXCEPT !.monitor_waitq =
        IF Len(ts) = 1 THEN AddThreadToQueue(@, ts[1]) ELSE @ \o ts]

\* Bug: a free monitor is not given to the thread that is queued for it.
AfterMonitorWaitQueuesOnly(r, ts) == Enqueued(r, ts)

AfterMonitorWait(r, ts) ==
    IF r.owner = NIL /\ ts # << >> THEN HandedOver(Enqueued(r, ts), monitor_depth)
                                   ELSE Enqueued(r, ts)

AddMonitorWait(m, r, ts, st) ==
    /\ monitors' = [monitors EXCEPT ![m] = AfterMonitorWait(r, ts)]
    /\ WakeNewOwner(
         IF r.owner = NIL /\ ts # << >>
           THEN QueueStart(Enqueued(r, ts).monitor_waitq, NIL) ELSE NIL,
         [t \in Thread |-> IF t \in OnQueue(ts) THEN st[t] \cup {"MONITOR_WAIT"}
                                                ELSE st[t]],
         [t \in Thread |-> IF t \in OnQueue(ts) THEN m ELSE monitor[t]],
         monitor_depth)

\* Bug: the alarm is not found.
RemovePendingAlarmsNever(ts) == UNCHANGED alarmVars

\* removePendingAlarm(t) for each t of ts.
RemovePendingAlarms(ts) ==
    /\ wakeupCall' = [t \in Thread |-> IF t \in ts THEN NIL ELSE wakeupCall[t]]
    /\ wakeupTime' = [t \in Thread |-> IF t \in ts THEN 0 ELSE wakeupTime[t]]

(***************************************************************************)
(* removeCondvarWait(m, notifyAll).                                        *)
(***************************************************************************)
RemoveCondvarWait(m, notifyAll, st) ==
    LET q  == monitors[m].condvar_waitq
        ts == IF notifyAll \/ q = << >> THEN q ELSE <<Head(q)>>
        r  == [monitors[m] EXCEPT !.condvar_waitq =
                 IF notifyAll THEN << >> ELSE RemoveQueueStart(@)]
    IN  /\ AddMonitorWait(m, r, ts, st)
        /\ RemovePendingAlarms(OnQueue(ts))

-----------------------------------------------------------------------------
(***************************************************************************)
(* What the current thread can do between two thread switches.             *)
(***************************************************************************)
Running(t) == CurrentThread = t /\ Timeslice = 1

\* MONITORENTER or a synchronized call, when the fast locks suffice.
FastEnter(t, o) ==
    \/ /\ mhc[o] = Unlocked(0)
       /\ mhc' = [mhc EXCEPT ![o] = SimpleLock(t)]
       /\ UNCHANGED extendedLock
    \/ /\ mhc[o].tag = "MHC_UNLOCKED" /\ mhc[o].val # 0
       /\ ExtendedLockFree(t)
       /\ mhc' = [mhc EXCEPT ![o] = ExtendedLock(t)]
       /\ extendedLock' = [extendedLock EXCEPT
                             ![t] = [depth |-> 1, hashCode |-> mhc[o].val]]
    \/ /\ mhc[o] = SimpleLock(t)
       /\ ExtendedLockFree(t)
       /\ mhc' = [mhc EXCEPT ![o] = ExtendedLock(t)]
       /\ extendedLock' = [extendedLock EXCEPT ![t] = [depth |-> 2, hashCode |-> 0]]
    \/ /\ mhc[o] = ExtendedLock(t)
       /\ extendedLock' = [extendedLock EXCEPT ![t].depth = @ + 1]
       /\ UNCHANGED mhc

NeedsRealMonitor(t, o) ==
    \/ mhc[o].tag = "MHC_UNLOCKED" /\ mhc[o].val # 0 /\ ~ExtendedLockFree(t)
    \/ mhc[o].tag = "MHC_SIMPLE_LOCK" /\ (mhc[o].val = t => ~ExtendedLockFree(t))
    \/ mhc[o].tag = "MHC_EXTENDED_LOCK" /\ mhc[o].val # t
    \/ HasMonitor(o)

MonitorEnterFast(t, o) ==
    /\ Running(t)
    /\ Owner(o) = t => Depth(o) < MaxDepth
    /\ FastEnter(t, o)
    /\ UNCHANGED <<schedVars, waitVars, alarmVars, intrVars, monitors, MonitorCache>>

\* The real monitor is free, or the thread's own.
MonitorEnterReal(t, o) ==
    /\ Running(t)
    /\ NeedsRealMonitor(t, o)
    /\ Owner(o) = t => Depth(o) < MaxDepth
    /\ Owner(o) \in {NIL, t}
    /\ \E m \in Monitor :
         UpgradeToRealMonitor(o, m,
           [Upgraded(o) EXCEPT !.owner = t,
                               !.depth = IF Owner(o) = NIL THEN 1 ELSE @ + 1])
    /\ UNCHANGED <<schedVars, waitVars, alarmVars, intrVars>>

\* Another thread owns it: wait in line.
MonitorEnterBlocked(t, o) ==
    /\ Running(t)
    /\ NeedsRealMonitor(t, o)
    /\ Owner(o) \notin {NIL, t}
    /\ \E m \in Monitor :
         /\ UpgradeToRealMonitor(o, m,
              [Upgraded(o) EXCEPT !.monitor_waitq = AddThreadToQueue(@, t)])
         /\ monitor' = [monitor EXCEPT ![t] = m]
    /\ monitor_depth' = [monitor_depth EXCEPT ![t] = 1]
    /\ state' = Suspended([state EXCEPT ![t] = @ \cup {"MONITOR_WAIT"}], t)
    /\ Suspend
    /\ UNCHANGED <<RunnableThreads, alarmVars, intrVars>>

MonitorEnter(t, o) ==
    \/ MonitorEnterFast(t, o)
    \/ MonitorEnterReal(t, o)
    \/ MonitorEnterBlocked(t, o)

(***************************************************************************)
(* MONITOREXIT or the return from a synchronized method.  A thread that    *)
(* does not own the lock gets an IllegalMonitorStateException, and nothing *)
(* changes.                                                                *)
(***************************************************************************)
FastExit(t, o) ==
    LET d == extendedLock[t].depth - 1
        h == extendedLock[t].hashCode
    IN  \/ /\ mhc[o] = SimpleLock(t)
           /\ mhc' = [mhc EXCEPT ![o] = Unlocked(0)]
           /\ UNCHANGED extendedLock
        \/ /\ mhc[o] = ExtendedLock(t)
           /\ mhc' = CASE d = 0           -> [mhc EXCEPT ![o] = Unlocked(h)]
                       [] d = 1 /\ h = 0  -> [mhc EXCEPT ![o] = SimpleLock(t)]
                       [] OTHER           -> mhc
           /\ extendedLock' = [extendedLock EXCEPT
                                 ![t].depth = IF d = 1 /\ h = 0 THEN 0 ELSE d]

MonitorExitFast(t, o) ==
    /\ Running(t)
    /\ FastExit(t, o)
    /\ UNCHANGED <<schedVars, waitVars, alarmVars, intrVars, monitors, MonitorCache>>

MonitorExitNested(t, o) ==
    /\ Running(t)
    /\ HasMonitor(o) /\ Owner(o) = t /\ Depth(o) # 1
    /\ monitors' = [monitors EXCEPT ![mhc[o].val].depth = @ - 1]
    /\ UNCHANGED <<schedVars, waitVars, alarmVars, intrVars,
                   extendedLock, mhc, MonitorCache>>

\* A monitor nobody owns and nobody waits on goes back to MonitorCache.
IsDead(r) == r.owner = NIL /\ r.monitor_waitq = << >> /\ r.condvar_waitq = << >>

MonitorExitRelease(t, o) ==
    LET m == mhc[o].val
        r == HandedOver([monitors[m] EXCEPT !.depth = 0], monitor_depth)
    IN  /\ Running(t)
        /\ HasMonitor(o) /\ Owner(o) = t /\ Depth(o) = 1
        /\ monitors' = [monitors EXCEPT ![m] = r]
        /\ IF IsDead(r)
           THEN /\ mhc' = [mhc EXCEPT ![o] = Unlocked(r.hashCode)]
                /\ MonitorCache' = <<m>> \o MonitorCache
           ELSE UNCHANGED <<mhc, MonitorCache>>
        /\ UNCHANGED <<CurrentThread, AliveThreadCount, Timeslice>>
        /\ WakeNewOwner(r.owner, state, monitor, monitor_depth)
        /\ UNCHANGED <<alarmVars, intrVars, extendedLock>>

MonitorExit(t, o) ==
    \/ MonitorExitFast(t, o)
    \/ MonitorExitNested(t, o)
    \/ MonitorExitRelease(t, o)

(***************************************************************************)
(* Object.wait(delta), delta = 0 meaning no timeout.  The object gets a    *)
(* real monitor before anything is checked, and keeps it when the call     *)
(* throws.                                                                 *)
(***************************************************************************)
\* The C conversion of an int to the short monitor_depth.
ToShort(d) == ((d + ShortMax + 1) % (2 * (ShortMax + 1))) - (ShortMax + 1)

\* IllegalMonitorStateException, or the InterruptedException of an interrupt
\* that came earlier.
MonitorWaitThrows(t, o) ==
    /\ Running(t)
    /\ Owner(o) = t => isPendingInterrupt[t]
    /\ \E m \in Monitor : UpgradeToRealMonitor(o, m, Upgraded(o))
    /\ isPendingInterrupt' = IF Owner(o) = t
                             THEN [isPendingInterrupt EXCEPT ![t] = FALSE]
                             ELSE isPendingInterrupt
    /\ UNCHANGED <<schedVars, waitVars, alarmVars, pendingException>>

\* registerAlarm() leaves an alarm that is already set alone.
RegisterAlarm(t, delta, call) ==
    IF wakeupCall[t] = NIL
    THEN /\ wakeupCall' = [wakeupCall EXCEPT ![t] = call]
         /\ wakeupTime' = [wakeupTime EXCEPT ![t] = delta]
    ELSE UNCHANGED alarmVars

MonitorWait(t, o, delta) ==
    LET r == [Upgraded(o) EXCEPT !.condvar_waitq = AddThreadToQueue(@, t)]
        d == [monitor_depth EXCEPT ![t] = ToShort(r.depth)]
    IN  /\ Running(t)
        /\ Owner(o) = t /\ ~isPendingInterrupt[t]
        /\ IF delta > 0 THEN RegisterAlarm(t, delta, "monitorWaitAlarm")
                        ELSE UNCHANGED alarmVars
        /\ \E m \in Monitor :
             /\ UpgradeToRealMonitor(o, m, HandedOver(r, d))
             /\ WakeNewOwner(QueueStart(r.monitor_waitq, NIL),
                  Suspended([state EXCEPT ![t] = @ \cup {"CONVAR_WAIT"}], t),
                  [monitor EXCEPT ![t] = m], d)
        /\ Suspend
        /\ UNCHANGED intrVars

\* Object.notify() and notifyAll().  Under a simple or extended lock nobody
\* can be waiting; a thread that is not the owner only gets an exception.
MonitorNotify(t, o, notifyAll) ==
    /\ Running(t)
    /\ HasMonitor(o) /\ Owner(o) = t
    /\ RemoveCondvarWait(mhc[o].val, notifyAll, state)
    /\ UNCHANGED <<CurrentThread, AliveThreadCount, Timeslice, intrVars,
                   extendedLock, mhc, MonitorCache>>

(***************************************************************************)
(* Object.hashCode(): objectHashCode() asks monitorHashCodeAddress() where *)
(* the hash is kept (a simple lock is promoted to have such a place), and  *)
(* draws a hash if there is none yet.  monitorHashCodeAddress() answers    *)
(* NULL for an object with a real monitor, so that objectHashCode() takes  *)
(* the mhc word itself, the MONITOR's address, for the hash.               *)
(***************************************************************************)
HashAnswer(o) == IF HasMonitor(o) THEN mhc[o].val ELSE HashOf(o)

Drawn(h) == IF h = 0 THEN HashCode ELSE {h}

HashCodePromotesToReal(t, o) ==
    /\ mhc[o].tag = "MHC_SIMPLE_LOCK" /\ ~ExtendedLockFree(mhc[o].val)
    /\ \E m \in Monitor, h \in HashCode :
         UpgradeToRealMonitor(o, m, [Upgraded(o) EXCEPT !.hashCode = h])

HashCodeInPlace(t, o) ==
    LET u == mhc[o].val IN
    \/ /\ mhc[o].tag = "MHC_UNLOCKED"
       /\ \E h \in Drawn(u) : mhc' = [mhc EXCEPT ![o] = Unlocked(h)]
       /\ UNCHANGED <<extendedLock, monitors>>
    \/ /\ mhc[o].tag = "MHC_SIMPLE_LOCK" /\ ExtendedLockFree(u)
       /\ \E h \in HashCode : extendedLock' =
            [extendedLock EXCEPT ![u] = [depth |-> 1, hashCode |-> h]]
       /\ mhc' = [mhc EXCEPT ![o] = ExtendedLock(u)]
       /\ UNCHANGED monitors
    \/ /\ mhc[o].tag = "MHC_EXTENDED_LOCK"
       /\ \E h \in Drawn(extendedLock[u].hashCode) :
            extendedLock' = [extendedLock EXCEPT ![u].hashCode = h]
       /\ UNCHANGED <<mhc, monitors>>
    \/ /\ HasMonitor(o)
       /\ UNCHANGED <<extendedLock, mhc, monitors>>

ObjectHashCode(t, o) ==
    /\ Running(t)
    /\ \/ HashCodePromotesToReal(t, o)
       \/ HashCodeInPlace(t, o) /\ UNCHANGED MonitorCache
    /\ UNCHANGED <<schedVars, waitVars, alarmVars, intrVars>>

(***************************************************************************)
(* The native methods of java.lang.Thread.                                 *)
(***************************************************************************)
\* sleep(delta) with an interrupt pending: InterruptedException.
SleepThrows(t) ==
    /\ Running(t)
    /\ isPendingInterrupt[t]
    /\ isPendingInterrupt' = [isPendingInterrupt EXCEPT ![t] = FALSE]
    /\ UNCHANGED <<schedVars, waitVars, alarmVars, pendingException, lockVars>>

Sleep(t, delta) ==
    /\ Running(t)
    /\ ~isPendingInterrupt[t] /\ delta > 0
    /\ state' = Suspended(state, t)
    /\ Suspend
    /\ RegisterAlarm(t, delta, "resumeThread")
    /\ UNCHANGED <<RunnableThreads, monitor, monitor_depth, intrVars, lockVars>>

\* yield(), sleep(0), and the end of the thread's time slice.
Yield(t) ==
    /\ Running(t)
    /\ Timeslice' = 0
    /\ UNCHANGED <<CurrentThread, RunnableThreads, AliveThreadCount,
                   waitVars, alarmVars, intrVars, lockVars>>

\* start(): startThread(u), then resumeThread(u).
Start(t, u) ==
    /\ Running(t)
    /\ state[u] = {"JUST_BORN"}
    /\ AliveThreadCount' = AliveThreadCount + 1
    /\ state' = Resumed(state, u)
    /\ RunnableThreads' = AddThreadToQueue(RunnableThreads, u)
    /\ UNCHANGED <<CurrentThread, Timeslice, monitor, monitor_depth,
                   alarmVars, intrVars, lockVars>>

(***************************************************************************)
(* interrupt().  RepeatInterrupt says whether the environment interrupts a *)
(* thread whose wait() has ended but that has not got the lock back: such  *)
(* a thread keeps the flag CONVAR_WAIT until it is resumed.                *)
(***************************************************************************)
Sleeping(u) == wakeupCall[u] # NIL
Waiting(u)  == "CONVAR_WAIT" \in state[u]

InterruptWaiting(u) ==
    LET m == monitor[u]
        r == [monitors[m] EXCEPT !.condvar_waitq = RemoveFromQueue(@, u)]
    IN  /\ Waiting(u) /\ m # NIL      \* or a null pointer: see InOnePlace
        /\ "MONITOR_WAIT" \in state[u] => RepeatInterrupt
        /\ AddMonitorWait(m, r, <<u>>, state)
        /\ RemovePendingAlarms({u})
        /\ pendingException' = [pendingException EXCEPT ![u] = TRUE]
        /\ UNCHANGED isPendingInterrupt

\* Bug: the alarm of the interrupted sleep stays set.
InterruptSleepingKeepsAlarm(u) ==
    /\ Sleeping(u) /\ ~Waiting(u)
    /\ CanResume(state, u)
    /\ state' = Resumed(state, u)
    /\ RunnableThreads' = AddThreadToQueue(RunnableThreads, u)
    /\ pendingException' = [pendingException EXCEPT ![u] = TRUE]
    /\ UNCHANGED <<alarmVars, monitor, monitor_depth, monitors, isPendingInterrupt>>

InterruptSleeping(u) ==
    /\ Sleeping(u) /\ ~Waiting(u)
    /\ CanResume(state, u)
    /\ state' = Resumed(state, u)
    /\ RunnableThreads' = AddThreadToQueue(RunnableThreads, u)
    /\ RemovePendingAlarms({u})
    /\ pendingException' = [pendingException EXCEPT ![u] = TRUE]
    /\ UNCHANGED <<monitor, monitor_depth, monitors, isPendingInterrupt>>

InterruptLater(u) ==
    /\ ~Sleeping(u) /\ ~Waiting(u)
    /\ isPendingInterrupt' = [isPendingInterrupt EXCEPT ![u] = TRUE]
    /\ UNCHANGED <<RunnableThreads, waitVars, alarmVars, monitors, pendingException>>

Interrupt(t, u) ==
    /\ Running(t)
    /\ state[u] \notin {{"JUST_BORN"}, {"DEAD"}}
    /\ InterruptWaiting(u) \/ InterruptSleeping(u) \/ InterruptLater(u)
    /\ UNCHANGED <<CurrentThread, AliveThreadCount, Timeslice,
                   extendedLock, mhc, MonitorCache>>

(***************************************************************************)
(* stopThread(), when run() returns or its exception is not caught.  The   *)
(* frames are gone, so the thread holds no lock: javac pairs every         *)
(* MONITORENTER with an exit on each path.  The waiters on its Thread      *)
(* object (the callers of join()) are notified, whoever owns that monitor. *)
(***************************************************************************)
HoldsNoLock(t) == \A o \in Object : Owner(o) # t

Stop(t) ==
    LET o  == javaThread[t]
        st == [state EXCEPT ![t] = {"DEAD"}]
    IN  /\ Running(t)
        /\ HoldsNoLock(t)
        /\ CurrentThread' = NIL
        /\ Timeslice' = 0
        /\ AliveThreadCount' = AliveThreadCount - 1
        /\ IF o # NIL /\ HasMonitor(o)
           THEN RemoveCondvarWait(mhc[o].val, TRUE, st)
           ELSE /\ state' = st
                /\ UNCHANGED <<RunnableThreads, monitor, monitor_depth,
                               monitors, alarmVars>>
        /\ UNCHANGED <<intrVars, extendedLock, mhc, MonitorCache>>

\* Any allocation may collect garbage, which forgets the free monitors.
GarbageCollect(t) ==
    /\ Running(t)
    /\ MonitorCache # << >>
    /\ MonitorCache' = << >>
    /\ UNCHANGED <<schedVars, waitVars, alarmVars, intrVars,
                   extendedLock, mhc, monitors>>

-----------------------------------------------------------------------------
(***************************************************************************)
(* The clock, and reschedule(): while a thread is alive, checkTimerQueue() *)
(* fires the alarms that are due, earliest first, then SwitchThread().     *)
(* wakeupTime counts from the present, so the clock lowers it; alarms due  *)
(* at the same time fire in either order.                                  *)
(***************************************************************************)
Tick ==
    /\ \E t \in Thread : wakeupCall[t] # NIL
    /\ \A t \in Thread : wakeupCall[t] # NIL => wakeupTime[t] > -MaxLate
    /\ wakeupTime' = [t \in Thread |-> IF wakeupCall[t] = NIL THEN wakeupTime[t]
                                                             ELSE wakeupTime[t] - 1]
    /\ UNCHANGED <<schedVars, waitVars, wakeupCall, intrVars, lockVars>>

\* Bug: alarms are looked at only while a thread can run.
ReschedulingWhileRunnable ==
    /\ Timeslice = 0 /\ AliveThreadCount > 0
    /\ CurrentThread # NIL \/ RunnableThreads # << >>

Rescheduling == Timeslice = 0 /\ AliveThreadCount > 0

Due(t) == wakeupCall[t] # NIL /\ wakeupTime[t] <= 0

FireAlarm(u) ==
    /\ Rescheduling
    /\ Due(u) /\ \A t \in Thread : Due(t) => wakeupTime[u] <= wakeupTime[t]
    /\ RemovePendingAlarms({u})
    /\ CASE wakeupCall[u] = "resumeThread" ->
              /\ CanResume(state, u)
              /\ state' = Resumed(state, u)
              /\ RunnableThreads' = AddThreadToQueue(RunnableThreads, u)
              /\ UNCHANGED <<monitor, monitor_depth, monitors>>
         [] wakeupCall[u] = "monitorWaitAlarm" /\ monitor[u] # NIL ->
              LET m == monitor[u]
                  q == monitors[m].condvar_waitq
              IN  /\ u \in OnQueue(q)     \* or fatalError()
                  /\ AddMonitorWait(m,
                       [monitors[m] EXCEPT !.condvar_waitq = RemoveFromQueue(q, u)],
                       <<u>>, state)
         [] OTHER -> UNCHANGED <<RunnableThreads, waitVars, monitors>>
    /\ UNCHANGED <<CurrentThread, AliveThreadCount, Timeslice, intrVars,
                   extendedLock, mhc, MonitorCache>>

\* An inactive current thread, or one with an exception pending, is fatal.
SwitchThread ==
    /\ Rescheduling
    /\ \A t \in Thread : ~Due(t)
    /\ CurrentThread # NIL => /\ ~pendingException[CurrentThread]
                              /\ state[CurrentThread] = {"ACTIVE"}
    /\ Timeslice' = 1
    /\ \/ /\ CurrentThread # NIL /\ RunnableThreads = << >>
          /\ UNCHANGED <<CurrentThread, RunnableThreads, pendingException>>
       \/ /\ RunnableThreads # << >>
          /\ CurrentThread' = Head(RunnableThreads)
          /\ RunnableThreads' =
               IF CurrentThread = NIL THEN Tail(RunnableThreads)
               ELSE AddThreadToQueue(Tail(RunnableThreads), CurrentThread)
          /\ pendingException' =
               [pendingException EXCEPT ![Head(RunnableThreads)] = FALSE]
    /\ UNCHANGED <<AliveThreadCount, isPendingInterrupt, waitVars, alarmVars, lockVars>>

-----------------------------------------------------------------------------
Next ==
    \/ \E t \in Thread :
         \/ \E o \in Object :
              \/ MonitorEnter(t, o)
              \/ MonitorExit(t, o)
              \/ MonitorWaitThrows(t, o)
              \/ \E delta \in 0..MaxDelta : MonitorWait(t, o, delta)
              \/ \E notifyAll \in BOOLEAN : MonitorNotify(t, o, notifyAll)
              \/ ObjectHashCode(t, o)
         \/ \E delta \in 1..MaxDelta : Sleep(t, delta)
         \/ SleepThrows(t)
         \/ Yield(t)
         \/ \E u \in Thread : Start(t, u)
         \/ \E u \in Interruptible : Interrupt(t, u)
         \/ Stop(t)
         \/ GarbageCollect(t)
         \/ FireAlarm(t)
    \/ Tick
    \/ SwitchThread

Spec == Init /\ [][Next]_vars

(***************************************************************************)
(* Fairness.  The interpreter always comes to the end of a time slice and  *)
(* to reschedule(), and time passes.  Of the program it is assumed that a  *)
(* thread which again and again runs as the owner of a lock at some time   *)
(* exits it, and, when it again and again holds it by one entry, releases  *)
(* it.                                                                     *)
(***************************************************************************)
Reschedule == SwitchThread \/ \E u \in Thread : FireAlarm(u)

Releases(t, o) == MonitorExit(t, o) /\ Owner(o)' # t

FairSpec ==
    /\ Spec
    /\ WF_vars(Tick)
    /\ WF_vars(Reschedule)
    /\ WF_vars(\E t \in Thread : Yield(t))
    /\ \A t \in Thread, o \in Object :
         SF_vars(MonitorExit(t, o)) /\ SF_vars(Releases(t, o))

-----------------------------------------------------------------------------
(***************************************************************************)
(* Safety.                                                                 *)
(***************************************************************************)

(***************************************************************************)
(* A thread is in one place, the one its flags name: running or on         *)
(* RunnableThreads (once), on the one queue of the one monitor its monitor *)
(* field points to, or asleep with an alarm set.  A thread in two places   *)
(* would have its single nextThread link rewired under a queue; a thread   *)
(* in none would never run again.                                          *)
(***************************************************************************)
InOnePlace ==
    /\ NoDuplicates(RunnableThreads)
    /\ \A m \in Monitor : /\ NoDuplicates(monitors[m].monitor_waitq)
                          /\ NoDuplicates(monitors[m].condvar_waitq)
    /\ \A t \in Thread :
         /\ state[t] = {"ACTIVE"} <=> t = CurrentThread \/ t \in OnQueue(RunnableThreads)
         /\ t = CurrentThread => t \notin OnQueue(RunnableThreads)
         /\ state[t] = {"ACTIVE", "SUSPENDED"} => wakeupCall[t] = "resumeThread"
         /\ "MONITOR_WAIT" \in state[t] \/ "CONVAR_WAIT" \in state[t] <=> monitor[t] # NIL
         /\ \A m \in Monitor :
              /\ t \in OnQueue(monitors[m].monitor_waitq) <=>
                   "MONITOR_WAIT" \in state[t] /\ monitor[t] = m
              /\ t \in OnQueue(monitors[m].condvar_waitq) <=>
                   "CONVAR_WAIT" \in state[t] /\ "MONITOR_WAIT" \notin state[t]
                   /\ monitor[t] = m

(***************************************************************************)
(* A MONITOR belongs to one object at most, and the free ones to none, so  *)
(* that a monitor taken from MonitorCache is not another object's lock.    *)
(***************************************************************************)
MonitorsUnshared ==
    /\ \A o, p \in Object : HasMonitor(o) /\ mhc[p] = mhc[o] => p = o
    /\ \A o \in Object : HasMonitor(o) => mhc[o].val \notin OnQueue(MonitorCache)
    /\ NoDuplicates(MonitorCache)

\* A thread's only extendedLock record holds the depth and the hash of one
\* object at most, and is in use exactly when there is such an object.
ExtendedLocksUnshared ==
    /\ \A o, p \in Object :
         mhc[o].tag = "MHC_EXTENDED_LOCK" /\ mhc[p] = mhc[o] => p = o
    /\ \A t \in Thread :
         ~ExtendedLockFree(t) <=> \E o \in Object : mhc[o] = ExtendedLock(t)

\* A monitor that nobody owns has nobody queued for it, and is entered zero
\* times: no hand-off is ever missed, and nobody can barge in.
NoIdleWaiters ==
    \A o \in Object : HasMonitor(o) =>
        LET r == monitors[mhc[o].val] IN
        IF r.owner = NIL THEN r.monitor_waitq = << >> /\ r.depth = 0
                         ELSE r.depth > 0

\* None of the fatalError() calls of resumeThread(), monitorWaitAlarm() and
\* SwitchThread() is ever reached.
NoFatalError ==
    /\ CurrentThread # NIL => /\ ~pendingException[CurrentThread]
                              /\ state[CurrentThread] = {"ACTIVE"}
    /\ \A m \in Monitor :
         \A t \in OnQueue(monitors[m].monitor_waitq) : CanResume(state, t)
    /\ \A t \in Thread :
         /\ wakeupCall[t] = "resumeThread" => CanResume(state, t)
         /\ wakeupCall[t] = "monitorWaitAlarm" =>
              /\ monitor[t] # NIL
              /\ t \in OnQueue(monitors[monitor[t]].condvar_waitq)

\* A thread with an InterruptedException to throw is on its way to throw it:
\* runnable, or queued for the lock it gave up, never in a wait or a sleep.
InterruptedComesBack ==
    \A t \in Thread : pendingException[t] =>
        /\ wakeupCall[t] = NIL
        /\ \/ t \in OnQueue(RunnableThreads)
           \/ \E m \in Monitor : t \in OnQueue(monitors[m].monitor_waitq)

\* thread.h, "Each monitor structure holds a wait queue in which those threads
\* who are waiting for the monitor to be released are stored": every thread
\* that waits for a monitor is on that monitor's queue.
WaitersAreQueued ==
    \A t \in Thread : "MONITOR_WAIT" \in state[t] =>
        t \in OnQueue(monitors[monitor[t]].monitor_waitq)

\* The hash drawn for an object stays with it while its lock changes form.
HashKept ==
    [][\A o \in Object : HashOf(o) # 0 => HashOf(o)' = HashOf(o)]_vars

\* class.c, objectHashCode(): "Return the identity of the object".  What the
\* routine answers for an object, once it has answered, never changes.  It does
\* change when the lock becomes a MONITOR: HashKept is what holds.
AnswerKept ==
    [][\A o \in Object : HashOf(o) # 0 /\ HashAnswer(o) = HashOf(o)
                           => HashAnswer(o)' = HashAnswer(o)]_vars

(***************************************************************************)
(* Refinement: whatever form its lock has, an object behaves as one fair   *)
(* Java monitor (JavaMonitors.tla).                                        *)
(***************************************************************************)
QueueOf(o, field) == IF HasMonitor(o) THEN monitors[mhc[o].val][field] ELSE << >>

JM == INSTANCE JavaMonitors WITH
        owner    <- [o \in Object |-> Owner(o)],
        count    <- [o \in Object |-> Depth(o)],
        entryQ   <- [o \in Object |-> QueueOf(o, "monitor_waitq")],
        waitQ    <- [o \in Object |-> QueueOf(o, "condvar_waitq")],
        saved    <- monitor_depth,
        hash     <- [o \in Object |-> HashOf(o)]

ImplementsJavaMonitors == JM!Spec

-----------------------------------------------------------------------------
(***************************************************************************)
(* Liveness.                                                               *)
(***************************************************************************)
\* Every runnable thread gets the processor.
RunnableRuns ==
    \A t \in Thread : t \in OnQueue(RunnableThreads) ~> CurrentThread = t

\* Every thread queued for a lock gets it.
EntryIsFair ==
    \A t \in Thread : "MONITOR_WAIT" \in state[t] ~> CurrentThread = t

\* A sleep, or a wait with a timeout, ends even if nobody notifies.
TimeoutEnds ==
    \A t \in Thread : wakeupCall[t] # NIL ~> CurrentThread = t
=============================================================================
