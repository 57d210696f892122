------------------------------ MODULE Debugger ------------------------------
(***************************************************************************)
(* The Java-level debugger agent (debugger.c) with the parts of the        *)
(* scheduler (thread.c), the interpreter (execute.h, bytecodes.c) and the  *)
(* exception mechanism (frame.c) that report events to the debugger and    *)
(* carry out its commands.                                                 *)
(*                                                                         *)
(* The VM is one native thread.  It reads a command where it reschedules,  *)
(* or in processBreakCommands(), which an event that stops all threads, or *)
(* a step request, enters in the middle of what the VM was doing.  So the  *)
(* VM has a stack of things to go on with (waits).                         *)
(*                                                                         *)
(* A thread executes one instruction at a time, at one of a few spots, and *)
(* its instructions do whatever an instruction can do to a thread.         *)
(***************************************************************************)
EXTENDS Integers, Sequences, FiniteSets, ThreadQueue

CONSTANTS
    Threads, MainThread,
    Spots, Entry,       \* places in the code, and where a thread begins
    Requests,           \* what the debugger may ask for in EventRequest_Set
    MaxRequests,        \* ... with so many structures for requests
    MaxCommands,        \* how many commands it gives, resumes apart
    MaxCount,           \* how often it suspends a thread itself
    SuspendAtStart,     \* the choices for the option -suspend
    Unchecked,          \* the precautions the debugger does not take
    NIL

Precautions ==
    {"resumeRunning", "disconnectRunning", "suspendAtStart", "uncaught", "sharedSpot",
     "staleClear"}

\* What the debugger asks for is well formed: a breakpoint has a place, and a step a
\* thread, in the first of its modifiers.
Modifier ==
    [kind : {"ExceptionOnly", "Step", "LocationOnly"}, spot : Spots \cup {NIL},
     thread : Threads \cup {NIL}, caught : BOOLEAN, uncaught : BOOLEAN]

EventKinds == {"BREAKPOINT", "STEP", "START", "END", "PREPARE", "EXCEPTION"}
Policies == {"NONE", "EVENT_THREAD", "ALL"}

RequestType == [kind : EventKinds, policy : Policies, count : Nat, mods : Seq(Modifier)]

ASSUME DebuggerAssumption ==
    /\ IsFiniteSet(Threads) /\ MainThread \in Threads /\ NIL \notin Threads /\ Entry \in Spots
    /\ MaxRequests \in Nat /\ MaxCommands \in Nat /\ MaxCount \in Nat
    /\ SuspendAtStart \subseteq BOOLEAN /\ Unchecked \subseteq Precautions
    /\ \A r \in Requests :
          /\ r \in RequestType
          /\ r.kind = "BREAKPOINT" => r.mods # <<>> /\ r.mods[1].spot \in Spots
          /\ r.kind = "STEP" => r.mods # <<>> /\ r.mods[1].thread \in Threads

VARIABLES
    vm,         \* the data of the VM, see Booted
    at,         \* where it is, as soon as it waits no more
    waits,      \* the calls of processBreakCommands() it is in, the inner one first
    asleep,     \* threads in Thread.sleep(), as an example of suspendThread()
    place,      \* where each thread is, whatever the VM thinks
    hit,        \* what each thread has still to do with a breakpoint there
    given       \* commands given

vars == <<vm, at, waits, asleep, place, hit, given>>

Booted ==
    [current      |-> MainThread,
     runnable     |-> <<>>,
     state        |-> [t \in Threads |-> IF t = MainThread THEN {"ACTIVE"} ELSE {}],
     count        |-> [t \in Threads |-> 0],             \* debugSuspendCount
     all          |-> <<MainThread>>,                     \* AllThreads
     alive        |-> 1,                                 \* AliveThreadCount
     ip           |-> Entry,                             \* ip_global
     ipStore      |-> [t \in Threads |-> Entry],
     code         |-> [s \in Spots |-> "op"],
     nextOpcode   |-> [t \in Threads |-> "none"],        \* and isAtBreakpoint, if there is one
     isStepping   |-> {},
     debugEvent   |-> [t \in Threads |-> <<>>],          \* and needEvent, if it is not empty
     events       |-> <<>>,                              \* the list eventHead
     notify       |-> {},                                \* debuggerNotifyList
     ready        |-> TRUE,                              \* vmDebugReady
     resumeOK     |-> FALSE,
     allSuspended |-> FALSE,
     timeToReschedule |-> FALSE,
     policy       |-> "NONE",                            \* that of the last event sent
     told         |-> {},                                \* threads a breakpoint was reported for
     fatal        |-> "no"]

Init ==
    /\ vm = Booted /\ at = "boot" /\ waits = <<>> /\ asleep = {}
    /\ place = [t \in Threads |-> Entry] /\ hit = [t \in Threads |-> "no"] /\ given = 0

----------------------------------------------------------------------------
(* Threads (thread.c) *)

storeExecutionEnvironment(v, t) == [v EXCEPT !.ipStore[t] = v.ip]
loadExecutionEnvironment(v, t) == [v EXCEPT !.ip = v.ipStore[t]]

\* Saves the registers of the current thread, if that has not been done.
StoreCurrent(v) ==
    IF "SUSPENDED" \in v.state[v.current] THEN v
    ELSE [storeExecutionEnvironment(v, v.current) EXCEPT !.timeToReschedule = TRUE]

suspendSpecificThread(v, t) ==
    LET stopped ==
            IF t = v.current THEN [StoreCurrent(v) EXCEPT !.current = NIL]
            ELSE IF v.state[t] \cap {"SUSPENDED", "DEAD"} = {}
            THEN [v EXCEPT !.runnable = RemoveFromQueue(@, t)] ELSE v
    IN [stopped EXCEPT !.state[t] = @ \cup {"DBG_SUSPENDED"}, !.count[t] = @ + 1]

\* One thread of AllThreads after the other.
suspendAllThreads(v) ==
    LET after[n \in 0 .. Len(v.all)] ==
            IF n = 0 THEN v ELSE suspendSpecificThread(after[n - 1], v.all[n])
    IN [after[Len(v.all)] EXCEPT !.allSuspended = TRUE]

\* Mutant: a thread that the debugger has suspended runs when its sleep ends.
resumeThreadAtOnce(v, t) ==
    [v EXCEPT !.state[t] = {"ACTIVE"}, !.runnable = AddThreadToQueue(@, t)]

resumeThread(v, t) ==
    CASE "SUSPENDED" \notin v.state[t] ->
           [v EXCEPT !.fatal = "resuming a thread that is not suspended"]
      [] {"SUSPENDED", "DBG_SUSPENDED"} \subseteq v.state[t] ->
           [v EXCEPT !.state[t] = @ \ {"SUSPENDED"}]
      [] "DBG_SUSPENDED" \notin v.state[t] /\ "SUSPENDED" \in v.state[t] ->
           LET active == [v EXCEPT !.state[t] = {"ACTIVE"}]
           IN IF t = v.current
              THEN [active EXCEPT !.fatal = "resuming the current thread"]
              ELSE [active EXCEPT !.runnable = AddThreadToQueue(@, t)]

resumeSpecificThread(v, t) ==
    IF v.count[t] > 1 THEN [v EXCEPT !.count[t] = @ - 1]
    ELSE LET free == [v EXCEPT !.count[t] = 0, !.state[t] = @ \ {"DBG_SUSPENDED"}]
         IN IF free.state[t] \cap {"SUSPENDED", "JUST_BORN"} # {} THEN free
            ELSE resumeThread([free EXCEPT !.state[t] = @ \cup {"SUSPENDED"}], t)

Valid(v) == OnQueue(v.all)

isValidThread(v, t) == t \in Valid(v)

----------------------------------------------------------------------------
(* Events (debugger.c) *)

Event(kind, t) == [kind |-> kind, thread |-> t, caught |-> FALSE]

\* One modifier of a request, and an event.
satisfiesModifiers(e, mod) ==
    CASE mod.kind = "ExceptionOnly" -> IF e.caught THEN mod.caught ELSE mod.uncaught
      [] mod.kind = "Step"          -> e.thread = mod.thread
      [] mod.kind = "LocationOnly"  -> TRUE      \* found by its location

\* The first request for a breakpoint at this spot, in use or not; 0 if there is none.
findBreakEvent(v, spot) ==
    LET found == {i \in DOMAIN v.events :
                    /\ v.events[i].kind = "BREAKPOINT"
                    /\ \E j \in DOMAIN v.events[i].mods : v.events[i].mods[j].spot = spot}
    IN IF found = {} THEN 0 ELSE CHOOSE i \in found : \A j \in found : i <= j

\* The requests of S are done with: clearEvent() for each.
Cleared(v, S) ==
    [i \in DOMAIN v.events |->
        IF i \in S THEN [v.events[i] EXCEPT !.active = FALSE, !.inUse = FALSE] ELSE v.events[i]]

Of(v, S, kind) == {i \in S : v.events[i].kind = kind /\ v.events[i].mods # <<>>}

\* Mutant: the breakpoints stay in the code.
clearEventsOnly(v, S) == [v EXCEPT !.events = Cleared(v, S)]

clearEvents(v, S) ==
    LET breaks(s) == {i \in Of(v, S, "BREAKPOINT") : v.events[i].mods[1].spot = s}
        last(s) == CHOOSE i \in breaks(s) : \A j \in breaks(s) : j <= i
        stepped == {v.events[i].mods[1].thread : i \in Of(v, S, "STEP")}
    IN [v EXCEPT !.events = Cleared(v, S),
                 !.code = [s \in Spots |->
                             IF breaks(s) = {} THEN v.code[s] ELSE v.events[last(s)].opcode],
                 !.isStepping = @ \ stepped]

clearEvent(v, i) == clearEvents(v, {i})

\* An event counts for every active request of its kind, before its modifiers are looked at.
Counted(v, e) ==
    [i \in DOMAIN v.events |->
        LET r == v.events[i]
        IN IF r.active /\ r.kind = e.kind /\ r.countActive
           THEN [r EXCEPT !.count = @ - 1] ELSE r]

\* The requests an event is reported for: one modifier that it satisfies is enough.
findSatisfyingEvent(v, e) ==
    {i \in DOMAIN v.events :
        LET r == v.events[i]
        IN /\ r.active /\ r.kind = e.kind
           /\ r.countActive => r.count <= 1
           /\ r.mods # <<>> => \E j \in DOMAIN r.mods : satisfiesModifiers(e, r.mods[j])}

\* checkEventCount() for each of them: a request that has counted down is done with.
checkEventCount(v, S) ==
    LET out == {i \in S : v.events[i].countActive /\ v.events[i].count = 0}
    IN clearEvents([v EXCEPT !.events = [i \in DOMAIN @ |->
                                          IF i \in out THEN [@[i] EXCEPT !.countActive = FALSE]
                                          ELSE @[i]]], out)

Strongest(policies) ==
    IF "ALL" \in policies THEN "ALL"
    ELSE IF "EVENT_THREAD" \in policies THEN "EVENT_THREAD" ELSE "NONE"

handleSuspendPolicy(v, policy, t) ==
    CASE policy = "NONE"         -> v
      [] policy = "EVENT_THREAD" -> suspendSpecificThread(v, t)
      [] policy = "ALL"          -> suspendAllThreads(v)

\* setEvent_ThreadStart() and the like report an event to all requests it satisfies.
setEvent(v, e) ==
    LET found == findSatisfyingEvent(v, e)
        policy == Strongest({v.events[i].policy : i \in found})
        counted == [v EXCEPT !.events = Counted(v, e), !.policy = policy]
        cleared == checkEventCount(counted, found)
    IN IF e.kind \notin v.notify THEN [v EXCEPT !.policy = "NONE"]
       ELSE handleSuspendPolicy(cleared, policy, e.thread)

setEvent_ThreadStart(v, t)  == setEvent(v, Event("START", t))
setEvent_ThreadDeath(v, t)  == setEvent(v, Event("END", t))
setEvent_ClassPrepare(v, t) == setEvent(v, Event("PREPARE", t))
setEvent_SingleStep(v, t)   == setEvent(v, Event("STEP", t))

\* An event that was kept.
sendEvent(v, e) ==
    CASE e.kind = "START"   -> setEvent_ThreadStart(v, e.thread)
      [] e.kind = "PREPARE" -> setEvent_ClassPrepare(v, e.thread)

\* Events of a thread are kept until it reschedules, or it is suspended.
insertDebugEvent(v, e) ==
    IF v.current = NIL THEN sendEvent(v, e)
    ELSE [v EXCEPT !.debugEvent[v.current] = Append(@, e), !.timeToReschedule = TRUE]

checkDebugEvent(v, t) ==
    LET sent[n \in 0 .. Len(v.debugEvent[t])] ==
            IF n = 0 THEN v ELSE sendEvent(sent[n - 1], v.debugEvent[t][n])
    IN [sent[Len(v.debugEvent[t])] EXCEPT !.debugEvent[t] = <<>>]

CheckCurrent(v) ==
    IF v.ready /\ v.current # NIL /\ v.debugEvent[v.current] # <<>>
    THEN checkDebugEvent(v, v.current) ELSE v

----------------------------------------------------------------------------
(* The life of a thread (thread.c) *)

startThread(v, t) ==
    LET started == [v EXCEPT !.state[t] = {"SUSPENDED"}, !.alive = @ + 1]
    IN IF v.ready THEN insertDebugEvent(started, Event("START", t)) ELSE started

\* The events of the thread are sent before it stops being the current one.
suspendThread(v) ==
    LET stored == StoreCurrent(v)
    IN [CheckCurrent([stored EXCEPT !.state[v.current] = @ \cup {"SUSPENDED"}])
            EXCEPT !.current = NIL]

DismantleThread(v, t) ==
    LET told == IF v.ready THEN setEvent_ThreadDeath(storeExecutionEnvironment(v, t), t) ELSE v
    IN [told EXCEPT !.state[t] = {"DEAD"}, !.all = RemoveFromQueue(@, t)]

stopThread(v) ==
    LET t == v.current
        suspended == suspendThread(v)
    IN DismantleThread([suspended EXCEPT !.state[t] = {"DEAD"}, !.alive = @ - 1], t)

removeFirstRunnableThread(v) == [v EXCEPT !.current = Head(v.runnable), !.runnable = Tail(@)]

\* The next thread is made the current one, if there is one.
SwitchThread(v) ==
    CASE v.current # NIL /\ v.state[v.current] # {"ACTIVE"} ->
           [v EXCEPT !.fatal = "switching to an inactive thread"]
      [] v.current # NIL /\ v.state[v.current] = {"ACTIVE"} /\ v.runnable # <<>> ->
           LET stored == storeExecutionEnvironment(v, v.current)
               next == [removeFirstRunnableThread(stored) EXCEPT
                            !.runnable = AddThreadToQueue(@, v.current), !.timeToReschedule = FALSE]
           IN loadExecutionEnvironment(next, next.current)
      [] v.current = NIL /\ v.runnable # <<>> ->
           LET next == [removeFirstRunnableThread(v) EXCEPT !.timeToReschedule = FALSE]
           IN loadExecutionEnvironment(next, next.current)
      [] v.current # NIL /\ v.state[v.current] = {"ACTIVE"} /\ v.runnable = <<>> ->
           [v EXCEPT !.timeToReschedule = FALSE]
      [] OTHER -> v

----------------------------------------------------------------------------
(* Commands (debugger.c) *)

\* The structure for a new request: one not in use, or one more.
createVmEvent(v) ==
    LET unused == {i \in DOMAIN v.events : ~v.events[i].inUse}
    IN IF unused = {} THEN Len(v.events) + 1 ELSE CHOOSE i \in unused : \A j \in unused : i <= j

\* The instruction that a breakpoint stands for, and the breakpoint.
installBreakpoint(v, i) ==
    LET spot == v.events[i].mods[1].spot
        former == findBreakEvent(v, spot)
        opcode == IF v.code[spot] = "BREAKPOINT" THEN v.events[former].opcode ELSE v.code[spot]
    IN [v EXCEPT !.events[i].opcode = opcode, !.code[spot] = "BREAKPOINT"]

Request(r) ==
    [kind |-> r.kind, policy |-> r.policy, mods |-> r.mods, count |-> r.count,
     countActive |-> r.count > 0, active |-> TRUE, inUse |-> TRUE, opcode |-> "none"]

\* createEvent(), but for the rest of a step request; a request for a step of a dead
\* thread is refused.
createEvent(v, r) ==
    LET i == createVmEvent(v)
        new == IF i > Len(v.events) THEN Append(v.events, Request(r))
               ELSE [v.events EXCEPT ![i] = Request(r)]
        set == [v EXCEPT !.events = new]
        refused == [set EXCEPT !.events[i].inUse = FALSE, !.events[i].mods = <<>>]
    IN CASE r.kind = "BREAKPOINT" ->
              IF v.code[r.mods[1].spot] = "BREAKPOINT" /\ findBreakEvent(v, r.mods[1].spot) = 0
              THEN refused ELSE installBreakpoint(set, i)
         [] r.kind = "STEP" /\ "DEAD" \in v.state[r.mods[1].thread] -> refused
         [] OTHER -> set

EventRequest_Set(v, r) == [createEvent(v, r) EXCEPT !.notify = @ \cup {r.kind}]

clearAllBreakpoints(v) ==
    clearEvents(v, {i \in DOMAIN v.events : v.events[i].kind = "BREAKPOINT"})

VirtualMachine_Resume(v) ==
    LET after[n \in 0 .. Len(v.all)] ==
            IF n = 0 THEN [v EXCEPT !.current = NIL]
            ELSE resumeSpecificThread(after[n - 1], v.all[n])
    IN [after[Len(v.all)] EXCEPT !.allSuspended = FALSE, !.resumeOK = TRUE]

ThreadReference_Suspend(v, t) == IF isValidThread(v, t) THEN suspendSpecificThread(v, t) ELSE v

ThreadReference_Resume(v, t) ==
    [(IF isValidThread(v, t) THEN resumeSpecificThread(v, t) ELSE v)
        EXCEPT !.allSuspended = FALSE, !.resumeOK = TRUE]

\* The frames of a thread are read from where its registers are stored.
ThreadReference_Frames(v) ==
    IF v.current = NIL THEN v ELSE storeExecutionEnvironment(v, v.current)

\* The connection has been lost.
ConnectionLost(v) ==
    clearAllBreakpoints([VirtualMachine_Resume(v) EXCEPT !.ready = FALSE, !.notify = {}])

KVM_Cleanup(v) == IF v.ready THEN clearAllBreakpoints(v) ELSE v

----------------------------------------------------------------------------
(* What a debugger takes care of.  Without these precautions the agent     *)
(* loses threads or instructions; U is the set of those not taken.         *)

\* A thread of the program that runs, or could.
Running(v, t) == v.state[t] = {"ACTIVE"}

\* It resumes nobody who runs (resumeRunning), ...
MayResumeAll(v, U) == (\A t \in Valid(v) : ~Running(v, t)) \/ "resumeRunning" \in U
MayResume(v, t, U) == ~Running(v, t) \/ "resumeRunning" \in U

\* ... nor goes away while a thread runs (disconnectRunning), ...
MayDisconnect(v, U) ==
    (\A t \in Valid(v) : ~Running(v, t)) \/ "disconnectRunning" \in U

\* ... suspends nobody once more before the program has started (suspendAtStart), ...
MaySuspend(U) == (\A i \in DOMAIN waits : waits[i].what # "start") \/ "suspendAtStart" \in U

\* ... sets one breakpoint at a spot (sharedSpot), stops nobody for an exception that is not
\* caught (uncaught), ...
MaySet(v, r, U) ==
    /\ r.kind = "BREAKPOINT" /\ "sharedSpot" \notin U => v.code[r.mods[1].spot] # "BREAKPOINT"
    /\ r.kind = "EXCEPTION" /\ "uncaught" \notin U =>
         \/ r.policy = "NONE"
         \/ r.mods # <<>> /\ \A i \in DOMAIN r.mods :
                               r.mods[i].kind = "ExceptionOnly" /\ ~r.mods[i].uncaught

\* ... and clears a request once, and no breakpoint that a thread has fetched already
\* (staleClear).
MayClear(v, i, U) ==
    \/ "staleClear" \in U
    \/ /\ v.events[i].inUse
       /\ v.events[i].kind = "BREAKPOINT" =>
            \A t \in Threads : v.nextOpcode[t] # "BREAKPOINT"

----------------------------------------------------------------------------
(* The VM at work *)

\* How each thread gets on with the breakpoint where it is, if there is one: it arrived
\* there, and the breakpoint was reported.
Hit(new, moved) ==
    [t \in Threads |->
        LET armed == new.code[place'[t]] = "BREAKPOINT" /\ "DEAD" \notin new.state[t]
        IN IF t \in moved
           THEN IF hit[t] = "due" THEN "missed" ELSE IF armed THEN "due" ELSE "no"
           ELSE IF ~armed THEN "no"
           ELSE IF t \notin new.told THEN hit[t]
           ELSE IF hit[t] = "told" THEN "twice" ELSE "told"]

\* The VM goes on with new data, where the threads that moved have executed an instruction.
Becomes(new, moved) ==
    /\ vm' = [new EXCEPT !.told = {}, !.policy = "NONE", !.resumeOK = FALSE]
    /\ hit' = Hit(new, moved)

\* The main thread goes on after the start of the VM: with nobody, it crashes.
Started(v) ==
    IF v.current # NIL THEN v
    ELSE IF v.runnable = <<>> THEN [v EXCEPT !.fatal = "no thread to start with"]
    ELSE LET first == removeFirstRunnableThread(v) IN loadExecutionEnvironment(first, first.current)

\* sendAllClassPrepares() reports the classes there are.
sendAllClassPrepares(v) ==
    setEvent_ClassPrepare(v, IF v.current = NIL THEN MainThread ELSE v.current)

\* After an exception that nobody caught.
Uncaught(v, t) == IF v.current = NIL THEN DismantleThread(v, t) ELSE stopThread(v)

\* The rest of a step request, with the answer of the proxy.
StepRequested(v, t) == [v EXCEPT !.isStepping = @ \cup {t}]

\* What processBreakCommands() returns to.
Continue(v, w) ==
    CASE w.what = "start"    -> sendAllClassPrepares(Started(v))
      [] w.what = "caught"   -> v
      [] w.what = "uncaught" -> Uncaught(v, w.thread)
      [] w.what = "step"     -> StepRequested(v, w.thread)

\* The state after a command: if it lets the VM go on, the inner wait ends.
AfterCommand(v) ==
    IF waits # <<>> /\ v.resumeOK
    THEN /\ Becomes(Continue(v, Head(waits)), {})
         /\ waits' = Tail(waits)
    ELSE Becomes(v, {}) /\ waits' = waits

NoActiveThreads == vm.current = NIL /\ vm.runnable = <<>>

\* Where ProcessDebugCmds() is called.
Listening ==
    /\ vm.ready /\ vm.fatal = "no"
    /\ \/ waits # <<>>
       \/ at = "commands"
       \/ at = "events" /\ NoActiveThreads

Command == Listening /\ UNCHANGED <<asleep, place>>

\* The VM goes on to the next point of its loop, unless it waits.
GoesOn == at' = IF waits # <<>> THEN at ELSE IF at = "events" THEN "commands" ELSE "switch"

Budget == given < MaxCommands /\ given' = given + 1

\* A thread the debugger has heard of: it has been started.
Known(t) == vm.state[t] # {} /\ "JUST_BORN" \notin vm.state[t]

SuspendAll ==
    /\ Command /\ GoesOn /\ Budget
    /\ \A t \in Valid(vm) : vm.count[t] < MaxCount
    /\ AfterCommand(suspendAllThreads(vm))

SuspendOne(t) ==
    /\ Command /\ GoesOn /\ Budget
    /\ Known(t) /\ vm.count[t] < MaxCount
    /\ AfterCommand(ThreadReference_Suspend(vm, t))

ResumeAll ==
    /\ Command /\ GoesOn /\ UNCHANGED given
    /\ AfterCommand(VirtualMachine_Resume(vm))

ResumeOne(t) ==
    /\ Command /\ GoesOn /\ UNCHANGED given /\ Known(t)
    /\ \A u \in Valid(vm) \ {t} : vm.count[u] <= MaxCount     \* others may be stopped again
    /\ AfterCommand(ThreadReference_Resume(vm, t))

Frames ==
    /\ Command /\ GoesOn /\ UNCHANGED given
    /\ AfterCommand(ThreadReference_Frames(vm))

Clear(i) ==
    /\ Command /\ GoesOn /\ Budget
    /\ AfterCommand(clearEvent(vm, i))

ClearAllBreakpoints ==
    /\ Command /\ GoesOn /\ Budget
    /\ AfterCommand(clearAllBreakpoints(vm))

SetRequest(r) ==
    /\ Command /\ GoesOn /\ Budget /\ createVmEvent(vm) <= MaxRequests
    /\ r.kind = "STEP" => Known(r.mods[1].thread)
    /\ LET set == EventRequest_Set(vm, r)
           step == r.kind = "STEP" /\ set.events[createVmEvent(vm)].inUse
       IN \/ step /\ Becomes(set, {})
                  /\ waits' = <<[what |-> "step", thread |-> r.mods[1].thread]>> \o waits
          \/ ~step /\ AfterCommand(set)

\* KVMCommands_GetSteppingInfo: the answer of the proxy.
SteppingInfo ==
    /\ Listening /\ waits # <<>> /\ Head(waits).what = "step"
    /\ UNCHANGED <<at, asleep, place, given>>
    /\ AfterCommand([vm EXCEPT !.resumeOK = TRUE])

Exit ==
    /\ Command /\ Budget /\ at' = "exit"
    /\ Becomes(KVM_Cleanup([vm EXCEPT !.notify = {}]), {}) /\ waits' = <<>>

LoseConnection ==
    /\ Command /\ GoesOn /\ Budget
    /\ AfterCommand(ConnectionLost(vm))

----------------------------------------------------------------------------
(* The interpreter *)

\* The VM begins: setEvent_VMInit().
StartJVM ==
    /\ at = "boot" /\ at' = "reschedulePoint"
    /\ UNCHANGED <<asleep, place>>
    /\ \/ TRUE \in SuspendAtStart /\ Becomes(suspendAllThreads(vm), {})
                                  /\ waits' = <<[what |-> "start", thread |-> MainThread]>>
       \/ FALSE \in SuspendAtStart /\ Becomes(sendAllClassPrepares(vm), {}) /\ UNCHANGED waits

Executing == waits = <<>> /\ vm.fatal = "no"

\* The time slice of the thread has ended, or has been ended: reschedule().
Reschedule ==
    /\ Executing /\ at = "reschedulePoint"
    /\ at' = IF CheckCurrent(vm).alive = 0 THEN "finish" ELSE "events"
    /\ UNCHANGED <<asleep, place, waits>>
    /\ Becomes([CheckCurrent(vm) EXCEPT !.timeToReschedule = FALSE], {})

\* An alarm goes off: checkTimerQueue().
WakeUp(t) ==
    /\ Executing /\ at = "events" /\ t \in asleep
    /\ asleep' = asleep \ {t}
    /\ UNCHANGED <<at, place, waits>>
    /\ Becomes(resumeThread(vm, t), {})

\* No command has come, unless the VM waits for one.
NoCommand ==
    /\ Executing /\ at \in {"events", "commands"}
    /\ at' = IF at = "events" THEN "commands" ELSE "switch"
    /\ Listening => ~vm.allSuspended
    /\ UNCHANGED <<vm, asleep, place, hit, waits>>

Switch ==
    /\ Executing /\ at = "switch"
    /\ at' = IF SwitchThread(vm).current = NIL THEN "events" ELSE "fetch"
    /\ UNCHANGED <<asleep, place, waits>>
    /\ Becomes(SwitchThread(vm), {})

Finish ==
    /\ Executing /\ at = "finish" /\ at' = "exit"
    /\ UNCHANGED <<asleep, place, waits>>
    /\ Becomes(KVM_Cleanup(vm), {})

\* Where the current thread fetches an instruction: after rescheduling, or without.
Fetching ==
    /\ Executing
    /\ \/ at \in {"fetch", "next"}
       \/ at = "reschedulePoint" /\ ~vm.timeToReschedule

\* The instruction, and what is left of the VM's data.
AtBreakpoint == vm.ready /\ at # "next" /\ vm.nextOpcode[vm.current] # "none"
Token == IF AtBreakpoint THEN vm.nextOpcode[vm.current] ELSE vm.code[vm.ip]
Fetched ==
    IF AtBreakpoint THEN [vm EXCEPT !.nextOpcode[vm.current] = "none"] ELSE vm

\* handleSingleStep() reports the step, once it has gone far enough.
handleSingleStep(v) ==
    LET t == v.current
        sent == IF v.debugEvent[t] # <<>> THEN checkDebugEvent(v, t) ELSE v
    IN setEvent_SingleStep(sent, t)

\* If that suspends the thread, it goes on with the instruction later.
StopAfterStep ==
    /\ Fetching /\ vm.current \in vm.isStepping
    /\ handleSingleStep(Fetched).current = NIL
    /\ at' = "reschedulePoint"
    /\ UNCHANGED <<asleep, place, waits>>
    /\ Becomes([handleSingleStep(Fetched) EXCEPT
                   !.nextOpcode[vm.current] = Token, !.timeToReschedule = TRUE], {})

\* The data when the instruction is carried out: no step has ended, or it stops nobody.
Prepared ==
    IF ~Fetching \/ vm.current = NIL THEN {}
    ELSE {Fetched} \cup
         (IF vm.current \in vm.isStepping
          THEN {v \in {handleSingleStep(Fetched)} : v.current # NIL} ELSE {})

\* The first request for the breakpoint is reported, ...
setEvent_Breakpoint(v, i, t) ==
    IF v.notify \cap {"STEP", "BREAKPOINT"} = {} THEN v
    ELSE handleSuspendPolicy([v EXCEPT !.told = {t}], v.events[i].policy, t)

\* Mutant: it goes on with the breakpoint.
handleBreakpointAgain(v) ==
    LET t == v.current
        i == findBreakEvent(v, v.ip)
    IN IF i = 0 THEN [v EXCEPT !.fatal = "VirtualMachineError"]
       ELSE setEvent_Breakpoint([v EXCEPT !.timeToReschedule = TRUE], i, t)

\* ... and the thread will go on with the instruction that the breakpoint stands for.
handleBreakpoint(v) ==
    LET t == v.current
        i == findBreakEvent(v, v.ip)
    IN IF i = 0 THEN [v EXCEPT !.fatal = "VirtualMachineError"]
       ELSE setEvent_Breakpoint([v EXCEPT !.nextOpcode[t] = v.events[i].opcode,
                                          !.timeToReschedule = TRUE], i, t)

Breakpoint ==
    /\ Executing /\ Prepared # {} /\ Token = "BREAKPOINT"
    /\ at' = "reschedulePoint"
    /\ UNCHANGED <<asleep, place, waits>>
    /\ \E v \in Prepared :
            IF v.debugEvent[v.current] # <<>> THEN Becomes(checkDebugEvent(v, v.current), {})
             ELSE Becomes(handleBreakpoint(v), {})

----------------------------------------------------------------------------
(* Instructions *)

\* The current thread executes an instruction and is at spot afterwards.
Instruction(v, spot) ==
    /\ Fetching /\ Token = "op"
    /\ place' = [place EXCEPT ![v.current] = spot]

Moved(v, spot) == [v EXCEPT !.ip = spot]

\* One instruction after the other, and branches.
Straight(v, spot) ==
    /\ Instruction(v, spot) /\ at # "next" /\ at' = "next"
    /\ Becomes(Moved(v, spot), {v.current})
    /\ UNCHANGED <<asleep, waits>>

Branch(v, spot) ==
    /\ Instruction(v, spot) /\ at' = "reschedulePoint"
    /\ Becomes(Moved(v, spot), {v.current})
    /\ UNCHANGED <<asleep, waits>>

\* A Thread object is made: BuildThread().
New(v, spot) ==
    /\ Instruction(v, spot) /\ at' = "reschedulePoint"
    /\ \E t \in Threads :
          /\ v.state[t] = {}
          /\ Becomes([Moved(v, spot) EXCEPT !.state[t] = {"JUST_BORN"}, !.all = <<t>> \o @],
                     {v.current})
    /\ UNCHANGED <<asleep, waits>>

\* Thread.sleep() and Thread.start().
Sleep(v, spot) ==
    /\ Instruction(v, spot) /\ at' = "reschedulePoint"
    /\ asleep' = asleep \cup {v.current}
    /\ Becomes(suspendThread(Moved(v, spot)), {v.current})
    /\ UNCHANGED waits

Start(v, spot) ==
    /\ Instruction(v, spot) /\ at' = "reschedulePoint"
    /\ \E t \in Threads :
          /\ v.state[t] = {"JUST_BORN"}
          /\ Becomes(resumeThread(startThread(Moved(v, spot), t), t), {v.current})
    /\ UNCHANGED <<asleep, waits>>

\* A class is loaded, linked or initialized.
Prepare(v, spot) ==
    /\ Instruction(v, spot) /\ at' = "reschedulePoint"
    /\ Becomes(IF v.ready THEN insertDebugEvent(Moved(v, spot), Event("PREPARE", v.current))
               ELSE Moved(v, spot), {v.current})
    /\ UNCHANGED <<asleep, waits>>

\* Return from the first method.
Return(v) ==
    /\ Instruction(v, v.ip) /\ at' = "reschedulePoint"
    /\ Becomes(stopThread(v), {v.current})
    /\ UNCHANGED <<asleep, waits>>

\* setEvent_Exception() waits if it stops all threads.
setEvent_Exception(v, caught) ==
    IF v.ready
    THEN setEvent(v, [kind |-> "EXCEPTION", thread |-> v.current, caught |-> caught])
    ELSE [v EXCEPT !.policy = "NONE"]

WaitIf(all, what, t) ==
    waits' = IF all THEN <<[what |-> what, thread |-> t]>> ELSE <<>>

Throw(v, spot) ==
    /\ Instruction(v, spot) /\ at' = "reschedulePoint"
    /\ LET new == setEvent_Exception(Moved(v, spot), TRUE)
       IN Becomes(new, {v.current}) /\ WaitIf(new.policy = "ALL", "caught", v.current)
    /\ UNCHANGED asleep

ThrowUncaught(v) ==
    /\ Instruction(v, v.ip) /\ at' = "reschedulePoint"
    /\ LET new == setEvent_Exception(v, FALSE)
       IN /\ Becomes(IF new.policy = "ALL" THEN new ELSE Uncaught(new, v.current), {v.current})
          /\ WaitIf(new.policy = "ALL", "uncaught", v.current)
    /\ UNCHANGED asleep

ExecuteOp ==
    \E v \in Prepared :
        \/ \E s \in Spots : \/ Straight(v, s) \/ Branch(v, s) \/ Sleep(v, s) \/ New(v, s)
                            \/ Start(v, s) \/ Prepare(v, s) \/ Throw(v, s)
        \/ Return(v) \/ ThrowUncaught(v)

VMStep ==
    /\ UNCHANGED given
    /\ \/ StartJVM \/ Reschedule \/ NoCommand \/ Switch \/ Finish
       \/ \E t \in Threads : WakeUp(t)
       \/ StopAfterStep \/ Breakpoint \/ ExecuteOp

CommandStep(U) ==
    \/ MaySuspend(U) /\ (SuspendAll \/ \E t \in Threads : SuspendOne(t))
    \/ MayResumeAll(vm, U) /\ ResumeAll
    \/ \E t \in Threads : MayResume(vm, t, U) /\ ResumeOne(t)
    \/ Frames
    \/ \E i \in DOMAIN vm.events : MayClear(vm, i, U) /\ Clear(i)
    \/ /\ \A i \in DOMAIN vm.events : vm.events[i].inUse => MayClear(vm, i, U)
       /\ ClearAllBreakpoints
    \/ \E r \in Requests : MaySet(vm, r, U) /\ SetRequest(r)
    \/ SteppingInfo \/ Exit
    \/ MayDisconnect(vm, U) /\ LoseConnection

Next == VMStep \/ CommandStep(Unchecked)

\* The debugger takes all the precautions.
TakesPrecautions == VMStep \/ CommandStep({})

Spec == Init /\ [][Next]_vars

----------------------------------------------------------------------------
(* Properties *)

Alive(t) == vm.state[t] # {} /\ vm.state[t] \cap {"JUST_BORN", "DEAD"} = {}

\* While the debugger takes the precautions (resumeRunning, disconnectRunning, suspendAtStart,
\* uncaught, sharedSpot, staleClear), suspendSpecificThread() and resumeSpecificThread() keep
\* every thread: one that neither waits nor is suspended by the debugger is the current one or
\* in the queue, once; any other is not.
SuspendedStandStill ==
    /\ vm.fatal = "no"
    /\ \A t \in Threads :
         LET places == (IF vm.current = t THEN 1 ELSE 0) +
                       Cardinality({i \in DOMAIN vm.runnable : vm.runnable[i] = t})
         IN /\ places = (IF vm.state[t] = {"ACTIVE"} THEN 1 ELSE 0)
            /\ ("DBG_SUSPENDED" \in vm.state[t]) <=> (vm.count[t] > 0 /\ "DEAD" \notin vm.state[t])
            /\ ("SUSPENDED" \in vm.state[t]) <=> (t \in asleep)
    /\ (\A i \in DOMAIN waits : waits[i].what # "uncaught") =>
         vm.alive = Cardinality({t \in Threads : Alive(t)})

\* While the debugger takes the precautions, every thread goes on where it was, and
\* handleBreakpoint() and nextOpcode see to it that it executes the instruction at a breakpoint
\* after the breakpoint has been reported, once each time that it gets there.
BreakpointsHit ==
    /\ \A t \in Threads : /\ hit[t] \notin {"missed", "twice"}
                          /\ Alive(t) => place[t] = IF t = vm.current THEN vm.ip
                                                      ELSE vm.ipStore[t]

\* While the debugger takes the precautions, the code differs from the program where a request
\* for a breakpoint says so, and that request knows the instruction: installBreakpoint() and
\* clearEvent().
CodeRestored ==
    \A s \in Spots :
        LET live == {i \in DOMAIN vm.events :
                        /\ vm.events[i].inUse /\ vm.events[i].kind = "BREAKPOINT"
                        /\ vm.events[i].mods[1].spot = s}
        IN /\ vm.code[s] = "BREAKPOINT" <=> live # {}
           /\ \A i \in live : vm.events[i].opcode = "op"

\* What the scheduler knows is as before.
NoEffect(v, w) ==
    /\ w.current = v.current /\ w.runnable = v.runnable
    /\ w.state = v.state /\ w.fatal = v.fatal


\* What ThreadReference_Resume does to a thread t that the debugger has not suspended: nothing,
\* if it does not run or is the only one in the queue; otherwise the VM ends, or there is a
\* thread that could run and that the scheduler does not know any more.
ResumeOfUnsuspended ==
    \A t \in Valid(vm) : vm.count[t] = 0 =>
        LET v == ThreadReference_Resume(vm, t)
        IN /\ NoEffect(vm, v) <=> ~Running(vm, t) \/ vm.runnable = <<t>>
           /\ ~NoEffect(vm, v) =>
                \/ v.fatal # "no"
                \/ \E u \in Threads :
                      v.state[u] = {"ACTIVE"} /\ u # v.current /\ u \notin OnQueue(v.runnable)
=============================================================================
