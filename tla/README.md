# TLA+ models of the KVM (CLDC virtual machine)

This directory specifies, model-checks and proves properties of the K virtual
machine, the reference implementation of CLDC: the C program under
`src/kvm`. File names below are relative to `src/kvm/VmCommon` when no other
directory is given.

## 1. The system

One native thread runs everything. `Interpret()` executes bytecodes of
`CurrentThread` until the counter `Timeslice` reaches zero, then `reschedule()`
(`h/events.h:87`) loops over: stop if no thread is alive; `checkTimerQueue()`
fires due alarms; `InterpreterHandleEvent()` sleeps or polls for events;
`SwitchThread()` picks the next thread. "Concurrency" is therefore the
interleaving of Java threads between bytecodes, of alarms and of native events
at `reschedule()`, and, in builds with asynchronous natives, of native threads.

| part | state | operations | works with |
|---|---|---|---|
| threads, scheduler (`thread.c`) | `CurrentThread`, `RunnableThreads`, `AllThreads`, `AliveThreadCount`, `Timeslice`; per THREAD: `state`, `nextThread`, `pendingException`, `isPendingInterrupt` | `startThread`, `suspendThread`, `resumeThread`, `interruptThread`, `stopThread`, `SwitchThread`, natives of `java.lang.Thread` | timers and monitors suspend and resume; the interpreter asks for switches |
| timer queue (`thread.c`) | `TimerQueue`; per THREAD `wakeupTime`, `wakeupCall`, `nextAlarmThread` | `registerAlarm`, `checkTimerQueue`, `removePendingAlarm` | `sleep`, `wait(timeout)`; calls back `resumeThread`, `monitorWaitAlarm` |
| monitors (`thread.c`, `thread.h`) | each object's `mhc` word, `MONITOR` structures with two queues, `MonitorCache`, each thread's `extendedLock` | `monitorEnter/Exit/Wait/Notify`, `upgradeToRealMonitor`, `removeMonitorWait` | bytecodes, synchronized methods, `stopThread` (join), the collector |
| identity hash (`class.c:1027`) | kept in `mhc`, `extendedLock` or `MONITOR` | `objectHashCode`, `monitorHashCodeAddress` | shares every word with the lock |
| events (`events.c`) | `eventBuffer`, `eventInP`, `eventCount`, `waitingThread` | `StoreKVMEvent`, `readOneEvent`, `InterpreterHandleEvent` | suspends and resumes a thread; sleeps the VM until the next alarm |
| asynchronous natives (`VmExtra/src/async.c`) | `IocbRoots`, `IocbFreeList`, `AsyncThreadCount`, `collectorIsRunning`, `VersionOfTheWorld` | acquire, hand over, release, rundown for the collector and for a restart | native threads; resumed Java threads; the collector |
| class initialization (`class.c:144`) | `status` and `initThread` of a class, a frame per initializer | `initializeClass`, `runClinit` | monitors of class objects, exceptions |
| heap (`collector.c`, `garbage.c`) | free list, permanent space, mark bits, deferred table, break table, weak lists | allocate, mark, sweep, compact | every pointer of the VM |
| loader, hash tables, pools (`loader.c`, `hashtable.c`, `pool.c`, `fields.c`) | class table, UTF and name tables | load, link, intern, resolve | class initialization |
| interpreter (`interpret.c`, `bytecodes.c`, `frame.c`, `cache.c`) | VM registers, frames in stack chunks, inline caches | bytecodes, `throwException`, push and pop of frames | everything |
| verifier, stack maps (`verifier.c`, `verifierUtil.c`, `stackmap.c`) | `vLocals`, `vStack`, the stack maps of a method, then its pointer maps | verify a class, mask of a frame | loader, preverifier, interpreter, collector |
| preverifier (`tools/preverifier`) | types and flags in front of each instruction | `run_dataflow`, stack maps | a tool; its output is the verifier's input |
| KNI, JAR and inflation, floating point | none that lasts | pure algorithms | loader |
| debugger agent, ports, JAM, ROMizer, proxy, Java classes | | | outside the core |

`PROJECT.json` lists every component with what is modelled of it, and under
`hazards` the places where this code can go wrong in a way a test would hardly
reach. The hard behaviours are: a thread moving between queues that all use one
link; a lock and a hash sharing a word that changes form; alarms racing
notifications and interrupts; hand-off of monitors; the interplay of the single
event waiter with the timers; the VM's own `fatalError()` checks on resuming
threads; native threads against a collector that moves objects; initializers
of classes that wait for each other or fail; classes whose loading fails halfway up
a chain; a marker that must cope with bounded
recursion and a bounded queue, and a compactor that keeps its table in the heap it
moves; and three programs (preverifier, verifier, collector) that each have their own
idea of what a frame holds.

## 2. Modules

| module | models | role |
|---|---|---|
| `ThreadQueue` | `addThreadToQueue`, `removeQueueStart`, `removeFromQueue` as operators on sequences | helper |
| `ThreadQueues` | the same as a machine on several sequences | abstract specification |
| `CircularQueue` | the same on `nextThread` and queue pointers | refines `ThreadQueues` |
| `AlarmClock` | what a timer queue promises | abstract specification |
| `TimerQueue` | the timer queue on its pointers | refines `AlarmClock` |
| `ThreadLists` | both kinds of lists `thread.c` keeps of its threads | composes `CircularQueue` and `TimerQueue` |
| `JavaMonitors` | an owner, an entry count, two queues and a hash for every object | abstract specification |
| `KvmThreads` | threads, scheduler, alarms, monitors, fast locks, identity hashes | the core, refines `JavaMonitors` |
| `EventStream` | the stream of cells readers of events get | abstract specification |
| `Events` | `events.c`, and `reschedule()` step by step | refines `EventStream` |
| `AsyncNatives` | asynchronous native functions: VM, native I/O threads, collector, restart of the VM | component |
| `ClassInit` | `initializeClass()`, `runClinit()`, `runClinitException()` with several threads | component |
| `ClassLoading` | `loadClassfile()` and the states of a class until it is linked | component |
| `ClassFiles` | `ClassLoading` beside the modules that have threads: classes by their names | composition with `ClassInit` |
| `Marking` | the marking phase of `collector.c` | component |
| `Collector` | sweep, compaction with the break table, allocation, on the cells of the heap | extends `Marking` |
| `VerifierTypes` | types of the verifier and assignability | helper |
| `Verifier` | the class file verifier of the VM | component |
| `Interpreter` | the interpreter on a method the verifier has accepted, with exceptions | extends `Verifier` |
| `PointerMaps` | the pointer maps of frames (`stackmap.c`) | extends `Interpreter` |
| `Preverifier` | the data flow analysis of the preverifier (`check_code.c`) | extends `Verifier` |
| `Debugger` | the Java-level debugger agent with the scheduler, the interpreter and exceptions as far as they report to it | component |
| `Toolchain` | preverifier, verifier, interpreter and pointer maps on one method | composition |
| `KvmThreads_proofs` | types, locks and hashes; places of threads; refinement of `JavaMonitors`; each part on the one before | proofs |
| `ThreadLists_proofs` | the two refinements of `ThreadLists` | proofs |
| `Events_proofs`, `ClassInit_proofs`, `ClassLoading_proofs`, `Marking_proofs`, `AsyncNatives_proofs`, `Debugger_proofs` | theorems about these components | proofs |
| `MC*` | model values, heaps, programs and methods for TLC | instances |

Operators with "Bug:" or "Mutant:" above them are not part of the model: each is
a definition of the model changed the way the code could be wrong (section 3).

### How `KvmThreads` corresponds to the code

Its variables are the C globals and THREAD fields of the same names. An action
is what one bytecode or native method does between two points where the
interpreter may switch threads, because nothing else runs in between. The
actions take the whole call tree: `MonitorWait` is `monitorWait()` with the
upgrade to a real monitor, `registerAlarm()`, `addCondvarWait()`,
`removeMonitorWait()` (the hand-off) and `suspendThread()`. A MONITOR is a
record; `mhc` is a tagged word; pointers are model values with `NIL`.

Abstractions made:

* `Timeslice` is 1 (more bytecodes may run) or 0 (time to reschedule); `Yield`
  stands for the native method and for the end of a slice, which both lead to
  `reschedule()` with the thread still running.
* `wakeupTime` counts from the present: `Tick` lowers it. Alarms due at the
  same moment fire in either order (the code fires the one registered last
  first). `Tick` is independent of the other actions, so letting the clock
  run at any time loses nothing.
* A step that would reach one of the code's `fatalError()` calls is not
  enabled; `NoFatalError` says that none of them could be reached.
* `AllThreads`, stacks and frames are left out. A thread exits only when it
  holds no lock, because javac pairs each MONITORENTER with an exit on every
  path and the interpreter releases the lock of a synchronized method.
* Collections are only what they do to threads: `MonitorCache = NULL`.
* The program interrupts threads of `Interruptible`. `RepeatInterrupt` says
  whether it may interrupt a thread whose `wait()` has ended but which is still
  queued for the lock; see finding 1.

`JavaMonitors` does not know the forms of locks, alarms, flags or the scheduler.
The mapping in `KvmThreads` (`JM`) takes owner, count and hash from
wherever the current form of the lock keeps them.

### How `Events` corresponds to the code

`Events` has its own small scheduler: threads run, read events, sleep and yield,
and `reschedule()` is taken apart into its three calls (`atStep`), because what
matters here is what happens between them. `InterpreterHandleEvent` is one step
with the wait inside: `Waits(elapsed)` lets that much time pass. The wait is
outside the repository (`GetAndStoreNextKVMEvent()`, stubs in every port, and
`SLEEP_FOR`), so it may last any time up to the limit passed, and, without a limit,
until there is an event, as the porting guide demands. A port may store up to two
events in one call, and a device may call back `StoreKVMEvent()` at any time,
so the buffer is filled and read in pieces. A cell is told from others by its
event type and place, which is what order and completeness are about. Builds with
a debugger or asynchronous natives cap each wait at 20 ms and are left out.

### How `AsyncNatives` corresponds to the code

Here native threads run truly at the same time, so an action ends wherever
another native thread could see what it has done. `vm` is where the one thread
of the VM is, `io[i]` where an I/O thread is. A critical section is one action.
`AcquireAsyncIOCB()` is two, because the check and the use of an IOCB follow the
critical section; `CallAsyncNativeFunction_md()` is the hand-over and the wait
until the request has been taken. `updatePointer()` of the collector is a read
and a write of `aiocb->thread` (`ReadPointer`, `WritePointer`), since an I/O
thread may free the IOCB in between. A call is reduced to what all functions of
`VmExtra/src/socketProtocol.c` have in common: take arguments from the Java
stack, fail at once or wait for the device between
`ASYNC_enableGarbageCollection()` and `ASYNC_disableGarbageCollection()`, push
the result, release. The hand-over, the threads and the event object are those
of the Windows port, the only one that has them.

### How `ClassInit` corresponds to the code

`initializeClass()` pushes a frame and every later call of `runClinit()` continues
from the state (1 to 6) kept in it. An action is one such call, one use of a
class by a `<clinit>`, or the unwinding of one frame. The lock of a class object
is taken as a Java monitor: `KvmThreads` shows that the monitors are. A program
(superclasses, what an initializer uses, whether it may fail or catch, which
classes the verifier rejects, room on the stacks, who interrupts and who locks
class objects) is chosen in the initial state.

### How `ClassLoading` corresponds to the code

`frames` are the activations of `loadClassfile()`, each with its `clazz` and `ifIndex`:
it loops over superclasses but calls itself for interfaces. An action is one turn
of one of its loops: a class read, a class checked against its superclass, one
interface, the fields laid out, the end, or the `CATCH`, which reverts the class and
throws on to the activation below. Superclasses, interfaces, flags and packages are
chosen in the initial state; how an attempt to read a file ends is chosen each time
among the `outcomes` of that file. `LINKED` stands for `CLASS_VERIFIED` and
`CLASS_READY`, too. `InitializeClass` is there because `initializeClass()` verifies
any class that is not `CLASS_RAW`, linked or not; `usedUnlinked` remembers
where that happened. `loadedBy` is a history variable for the proof and says which
activation still has to link a class. A class that the VM loads only to throw an
exception is taken to be loaded already.

### How `Marking` and `Collector` correspond to the code

`Marking`: objects are numbered by address. `scanner` is the position of
`markNonRootObjects()`, `frames` the activations of `markChildren()`, at most
`MAX_GC_DEPTH`; `deferred` and `overflow` are `deferredObjectTable` and its flag.
An action is one iteration of a loop: a child, an object taken from the queue, a
step of the scanner, the end of a pass with its weak lists.

`Collector` goes on with the cells of the heap: `sweepTheHeap()` makes a list of
chunks whose headers are in the cells themselves, `compactTheHeap()` and
`slideObject()` move live objects down and keep the break table in free cells,
rolling it out of the way; `sortBreakTable()`, `updatePointer()`,
`allocateFreeChunk()` and `callocPermanentObject()` follow. Marking and sweeping
are not interleaved with anything: the collector is the VM's only native thread
(`AsyncNatives` shows that the others keep away).

### How `Debugger` corresponds to the code

A thread of the program is at one of a few spots and does there anything an
instruction can do to threads: go on, branch, sleep, make and start a thread, load a
class, throw, return. `at` is where the VM is: fetching, or in one of the calls of
`reschedule()`. Commands are read in `ProcessDebugCmds()` there, or in
`processBreakCommands()`, which an event that stops all threads (at start, at an
exception) and a step request enter in the middle of something else; `waits` is the stack of what the
VM was doing, each command may let the inner one go on. Events carry what the
modifiers look at. Where a step ends is left open: it may end at any instruction.
`place`, `hit` and `told` are history variables: where a thread really is, whatever
its stored registers say, and whether it still has to report a breakpoint.

The agent relies on the debugger in six ways, the `Precautions`, although the protocol
allows a debugger to do without them: it resumes nobody who runs (`resumeRunning`),
does not lose the connection while a thread runs (`disconnectRunning`), suspends nobody once
more before the program has started (`suspendAtStart`), stops nobody for an
exception that is not caught (`uncaught`), sets one breakpoint at a spot (`sharedSpot`), and clears a
request once, and no breakpoint that a thread has fetched already (`staleClear`).
The commands themselves are modelled without them; `CommandStep` has each with what the
operators `May...` ask of it, for the precautions that are not in `Unchecked`, and an
instance with a precaution in `Unchecked` shows what happens otherwise (finding 5 and
observation 7 of section 4). `clearEvents` is
the loop of `clearEvent()` over several requests at once: each gives back the instruction it
has kept, and where two had a breakpoint at one spot the last one decides.

### How `Verifier`, `Interpreter`, `PointerMaps` and `Preverifier` correspond to the code

All four work on one method whose instructions are chosen lazily: when the
verifier or the preverifier first reads an offset, any instruction of the
instance is possible there, and a stack map has any types when it is first
looked up. So TLC goes through every method of that length over the instructions, with
every stack map, but spends nothing on code behind a rejected instruction. An
instruction stands for a family of bytecodes (`load` for `iload`, `aload_0`, ...;
float and double are int and long). `map` lists the families with the code of
their bytecodes in `verifier.c`, `bytecodes.c`, `stackmap.c` and `check_code.c`.

* `Verifier`: one action per instruction of the loop of `Vfy_verifyMethod()`, on
  `vLocals`, `vStack` and `vNeedInitialization`, with stack maps at joins and handlers.
* `Interpreter`: cells remember what was put into them; `Requires` is what the C
  code of a bytecode takes for granted. Exceptions unwind to handlers of the method.
* `PointerMaps`: `getGCRegisterMask()` from the last map before the instruction.
* `Preverifier`: `run_dataflow()` visits changed instructions pass by pass and merges
  states (`merge_into_one_successor()`, `merge_fullinfo_types()`); what it ends
  with are the stack maps.

Simplifications: the methods look like a compiler's output (an instruction does
not jump into another one's operands unless a kit says so); an execution that assigns a field of an
unrelated class to `this` before the superclass constructor (finding 3) ends there, as
after it anything may happen; the check of protected fields is left out, as it is
commented out in the code; `monitorExit` on return of synchronized methods, class initialization
and native calls are left out of the `Interpreter` (see `KvmThreads`, `ClassInit`);
subroutines (`jsr`, `ret`) and the rewriting of dead code are left out of the
preverifier.

## 3. Runs

Runs of `KvmThreads` bound nesting of one lock (`MaxDepth`), timeouts (`MaxDelta`), and
how late an alarm may be noticed (`MaxLate`). Two objects are the fewest that can
compete for one extendedLock record and one cached MONITOR. Three threads are
the fewest for which one is queued for a lock, one waits, and a third decides.
Two entries of a lock are the fewest that use an extended lock and a saved count.

| run | instance | question |
|---|---|---|
| `monitors` | two instances, chosen in the initial state (`kind`): "locks" has 2 threads, 2 objects, 2 monitors, 2 hashes, depth 2, no alarms; "waits" has 3 threads, 1 object which is also a Thread object (join), depth 2, timeouts up to 2, 1 late, interrupts | are locks and hashes kept through every change of form? is every thread in one place, is no `fatalError()` reached, does an interrupted thread come back, does each object act as a Java monitor? |
| `liveness` | 3 threads, 1 object, depth 2, timeouts of 1, interrupts of one thread | do runnable threads run, is entry to a lock fair, do timeouts end? |
| `debugger` | 2 threads, 2 spots of code, a debugger that takes the precautions, with 9 requests of every kind, 2 of them at once, 2 commands besides resumes; with 4 threads on 2 circular queues (a queued thread may be queued again), and of 3 threads, 2 callbacks, deltas up to 2 and times up to 3 on the timer queue | does the scheduler keep its threads under such a debugger, is no breakpoint passed or left behind? do the pointers of queues do what the sequences say? is the sorted list an alarm clock? |
| `events_and_heap` | two systems, chosen in the initial state (`kind`): "events" has 3 threads, one of which reads, events of 1 and 2 cells, a buffer of 3, sleeps up to 2; "heap" has all 720 orders of addresses of a graph of 6 objects with a weak object and a monitor, layouts of 7, 10 and 11 objects of several sizes, depth 1, a queue of 1 | is the buffer never overrun, do cells arrive in order and once, does waiting for the device hold up nobody for good? is what is reachable marked, moved intact and found again? |
| `async` | 2 Java threads, 2 I/O threads, 2 IOCBs, the VM started twice | do collector and native functions keep out of each other's way, are IOCBs neither lost nor shared, do calls end with their VM, and do they end? |
| `classes` | loading: 4 classes that extend and name each other as interfaces in 216 ways, and files that are missing, malformed, hidden, final or restricted; initialization: 3 threads, 3 classes (a subclass, a third one), 7 programs: plain, circles, failures caught and not, rejected classes, overflowing stacks, locked class objects, interrupts | is each class linked only on linked ones, does every load end, is each class initialized once, by one thread, and is nobody left waiting? |
| `verifier` | 13 kits of instructions, each with all methods of 5 to 13 bytes | does a verified method never go wrong, does the collector find its references, does the VM accept what the preverifier wrote? |
| `lost_waiter`, `left_behind`, `foreign_field`, `handler_locals`, `resume_running` | small, or those above with one thing more allowed | the findings below |

Runs of `KvmThreads` do not check for deadlock: every thread may be dead, or
blocked for good by what the program does. `NoIdleWaiters`, `InOnePlace` and the
liveness properties say what must not happen instead. `async` stops where the VM calls
`fatalError()` (observation 3 below), `classes` when the VM has done so, or all threads have
finished or wait for each other in a circle, the heap and `verifier` when they are done.
`debugger` stops when the VM exits. The model of events cannot stop: a device may call at any
time; that its threads go on is what its liveness properties say.

Where a run has two instances, neither affects the other; they share the run, not the
state. In "locks", alarms are switched off (`MaxDelta = 0`, where `wait(0)` waits
without a timeout) and nobody interrupts, so that the two objects can take every
combination of forms; "waits" has one object and all of the rest.

In `async`, with two of each, a thread that has just been resumed can call again while
its old IOCB is not free yet and the other thread has the second one: the pool
is empty, and the only idle I/O thread may be the one that was just released.
In "heap", depth 1 and a queue of one entry make every object that is not
followed by iteration a deferred one, and every second of those an overflow;
groups of 2 to 7 cells make the break table fit into a gap, be rolled, be rolled
an odd number of times and be moved whole. The kits of `verifier` are
about one thing each (longs and their halves, new objects, constructors, fields of several
classes assigned before the superclass constructor, arrays, calls, loops, and six kinds of joins through the preverifier), because together they
would be too many.

### Properties

* `MonitorsUnshared`, `ExtendedLocksUnshared`: the two records that stand in for
  a word belong to one object at most. Breaking one takes two upgrades.
* `NoIdleWaiters`: a monitor without owner has nobody queued for it. Every path
  that frees a monitor or queues a thread has to hand it over.
* `InOnePlace`: flags, the `monitor` field and the queues agree. It fails in
  executions of finding 1, which `monitors` excludes with `RepeatInterrupt = FALSE`.
* `NoFatalError`: resuming or switching to a thread that is not suspended ends the VM.
* `InterruptedComesBack`: an InterruptedException to be thrown finds its thread
  runnable or queued for the lock, with no alarm that could still ring for it.
* `HashKept`: an action property on two objects and all forms.
* `ImplementsJavaMonitors`: the refinement.
* `RunnableRuns`, `EntryIsFair`, `TimeoutEnds`: liveness.
* `ImplementsThreadQueues`, `ImplementsAlarmClock`: what the two linked structures do.
* Of a debugger that takes the six precautions: `SuspendedStandStill`: the scheduler has each
  thread once, if it is active, and not at all if it waits or is suspended. `BreakpointsHit`: no thread passes a
  breakpoint unreported, is reported twice or goes on somewhere else than where it stopped.
  `CodeRestored`: patched instructions and requests for breakpoints belong together.
* `BufferInBounds`: a full buffer, and one emptied and filled again in between.
  A buffer of 3 with events of 2 cells is the smallest that can be neither full
  nor have room.
* `ImplementsEventStream`, and the liveness properties `ThreadsNotHeldUp` (`RunnableNotHeldUp`
  of the instance "events", also of those that sleep) and `ReaderIsAnswered`: nothing is assumed of the device.
* `CollectorAlone`: no native function uses a pointer into the heap while objects
  move. `IocbsUnshared`: every control block is in one place. `NoFatalError` of
  `AsyncNatives`: none of the checks in these functions fails but one.
  `WorldsApart`: what `VersionOfTheWorld` is for. `CallsEnd`: liveness.
* `OneInitializer`, `RunOnceBeforeReady`, `NobodyLeftWaiting`,
  `ErrorIsFinal`, `InitializationEnds`: initialization as the Java VM
  specification promises it. The conditions in them (no interrupts, nobody
  locks class objects, no circles between threads, room on the stack) are where the code
  gives up, by its own comments; the other programs run too.
* `LinkedIsClosed`: a class that was linked stands on linked classes of the right
  kind, its fields behind theirs. Breaking it takes a circle through an interface, or a
  failed load that is tried again. `LoadsEnd`: liveness, whatever the circles.
* `MarkedIsReachable`: neither more nor less. `WeakReferencesCleared`,
  `ObjectsIntact` (content, pointers, and a heap that can be scanned and allocated
  from), `GarbageCollectionEnds` (`CollectionEnds` of the instance "heap").
* `NeverGoesWrong`: no verified method reaches an instruction whose code would take
  one kind of value for another, nor does a constructor return without having called one.
  One exception is named in it, `AssignsForeignField` (finding 3); that the fields assigned
  early are those of the class itself is `EarlyFieldsAreOwn`, which is false.
  `FramesDescribe`: verifier and interpreter agree on locals and stack.
  `CollectorSeesReferences`: what the collector is told of a frame is true.
* `MapsAccepted`: the VM accepts what the preverifier made, with three named
  excuses, which only the VM asks for: a new object alive on a branch backwards,
  a constructor call inside a try block, and a path of a constructor that
  forgets `this`. Two more differences were met and kept out of the kits: for a
  local that is an array of interface `I` on one path and of a class on another
  the map keeps `I[]`, which the VM rejects on the other path; and `aastore`
  into an array known to be null passes the preverifier only.

Every property has a mutant in `PROJECT.json`: a definition of the model changed
the way the code could be wrong (the bug is a comment above the operator), under
which the run finds the property violated.

### Fairness

`FairSpec` assumes of the VM that `reschedule()` is reached and completed (weak
fairness of the end of a time slice and of `FireAlarm`/`SwitchThread`: the
counter `Timeslice` falls with every branch and call, and `reschedule()` is a
loop without other exits) and that time passes (weak fairness of `Tick`). Of the
program it assumes that a thread which owns a lock and runs again and again at
some time exits it (strong fairness of `MonitorExit`, and of the last exit).
Nothing is assumed of `notify`, `interrupt`, or of who enters. Queues are first
in, first out, so this is enough for `EntryIsFair`, which no unfair lock would
satisfy.

`FairSpec` of `Events` assumes the same of the VM, step by step of `reschedule()`,
and nothing of the program or the device: it may never have an event.

`FairSpec` of `AsyncNatives` assumes that the operating system runs the VM and
every I/O thread (weak fairness of their steps), that devices answer (closing a
socket wakes its reader), that time slices end although the VM collects garbage
again and again (strong fairness of `SwitchThread`), and that a thread which spins in
`incrementAsyncCount()` at some time finds the collector not running (strong
fairness: the collector runs for a part of the time only). Nothing makes
a program call or collect.

`FairSpec` of `ClassInit` is weak fairness of "some thread goes on" (`reschedule()`
again), without fairness between threads: the scheduler's is `RunnableRuns`. That of
`ClassLoading` is weak fairness of `loadClassfile()`, which nothing interrupts; that of
`Collector` (`CollectorFairSpec`) is weak fairness of its one thread. Interrupts, locking of class
objects, and allocation after a collection are never obliged to happen.

## 4. Findings

1. `interruptThread()` (`src/thread.c:611`) takes `THREAD_CONVAR_WAIT` for "is in
   wait()", but `addMonitorWait()` leaves the flag set. A second interrupt (or an
   interrupt after notify or timeout) of a thread queued for the lock adds it to
   that queue once more; `addThreadToQueue()` rewires its link and the threads
   behind it are lost. Run `lost_waiter`.
2. The `CATCH` of `loadClassfile()` (`src/loader.c:2315`) walks up `superClass` after
   `revertToRawClass()` has cleared it, so only the initiating class is reverted.
   Superclasses loaded on the way stay `CLASS_LOADED` or `CLASS_LOADING` for good: the next
   attempt ends in `ClassCircularityError` or `fatalVMError()` although all files can be read
   by then, and `Class.forName()` of such a class verifies and initializes it although it was
   never linked. Run `left_behind`.
3. `Vfy_verifyMethodOrAbort()` (`src/verifier.c:1456`) is to allow `putfield` on the uninitialized
   `this` "if the field is defined within the current class", but compares the class that
   declares the field with the class that the instruction names, not with the one being verified. So a constructor may assign
   a field of any class to `this` before it calls the constructor of the superclass, and the
   interpreter uses the offset that the field has in that class. The preverifier rejects
   an unrelated class (`check_code.c:1946`), but the verifier does not depend on it elsewhere
   either. Run `foreign_field`.
4. `markThreadStack()` (`src/collector.c:1018`) looks up the pointer map of a waiting
   method behind its call. A local that only the exception handler around the
   call still uses may be missing in the stack map there: it is neither marked nor moved, and
   the handler finds a stale reference. Run `handler_locals`.
5. `ThreadReference_Resume()` of a thread that the debugger has not suspended "has no
   effect" (`src/doc/kdwp/html/07-ThreadRef.html:158`), but `resumeSpecificThread()` (`src/thread.c:828`) resumes it
   although it runs: the current thread ends the VM in `fatalError()`, and one that is in
   `RunnableThreads` is queued once more, by which others in the queue are lost. Run `resume_running`;
   theorem `ResumeLosesThreads` says exactly when.

Observations without a run of their own, each reproduced by changing an instance:

1. `monitorHashCodeAddress()` returns NULL for an object with a MONITOR, so that
   `objectHashCode()` answers the MONITOR's address: what it answers for an object changes
   (`AnswerKept` of `KvmThreads` is violated with one thread that takes a hash and
   waits). The stored hash itself is never lost (`HashKept`).
2. `wait()` saves the entry count in a `short`: with `ShortMax = 3` and `MaxDepth = 5`
   in place of 32767, `ImplementsJavaMonitors` is violated. `readOneEvent()`
   remembers one reader: with two, `ReaderIsAnswered` is violated.
3. `asyncFunctionEpilog()` gives up its claim on the heap before `FreeAsyncIOCB()`
   clears `aiocb->thread`. A compaction in between may have read the pointer and
   write it back into the free IOCB; the next `AcquireAsyncIOCB()` of it ends the
   VM ("Problem in AcquireAsyncIOCB"). The state is reached in run `async`
   (`ProblemInAcquire`), whose `CallsEnd` makes an exception for it.
4. `KVM_Cleanup()` frees the heap before the next start of the VM increments
   `VersionOfTheWorld`; an I/O thread that is woken in between, or is past the check,
   pushes its result into the old heap. `WorldsApart` says that it does so before the
   new VM runs. Freeing the heap itself is not modelled.
5. An interrupt of a thread that waits in `runClinit()` meets a frame in state 2,
   which `runClinitException()` answers with `fatalVMError()`.
6. `runClinit()` (`src/class.c:210`) pops its frame without an exception when the class
   has become erroneous meanwhile, so that a thread which waited for a superclass goes
   on to run the initializer of the subclass, and marks it ready: `SupersFirst` of
   `ClassInit` is violated in the run `classes` when it is checked there.
7. `SuspendedStandStill`, `BreakpointsHit` or `CodeRestored` of `Debugger` is
   violated with any one of these in `Unchecked`, the first three at the bounds of the run
   `debugger`, the others with `MaxCommands = 4` and `MaxCount = 2`:
   * `resumeRunning`: finding 5; `VirtualMachine_Resume()` while a thread runs does the same to
     each that does.
   * `disconnectRunning`: so does the resume of all threads when the connection is lost.
   * `uncaught`: a thread stopped for an exception that it does not catch is dismantled
     while it is suspended; it is left on `RunnableThreads`, dead, and stays counted as alive.
     A request that may stop threads for caught exceptions only has to say so in each of its
     modifiers, as one that is satisfied is enough.
   * `suspendAtStart`: suspended once more before the program has started, the VM goes on
     with `removeFirstRunnableThread()` although no thread is runnable.
   * `sharedSpot`: of two breakpoints at one spot, clearing the first restores the code.
   * `staleClear`: a breakpoint is cleared between the fetch of its instruction and its
     report.
   Further, a thread that was suspended with all others before it was started cannot be
   started (`IllegalThreadStateException`) until it has been resumed; `findSatisfyingEvent()` takes one satisfied modifier for enough, where
   `src/doc/kdwp/html/09-EventReq.html` says "Only events that satisfy all modifiers are
   reported"; counts go on falling below zero when other modifiers reject an
   event; and breakpoints do not look at their count.

## 5. Proofs

For every number of threads, objects, monitors and hashes and all bounds allowed
by the assumption on the constants of each module. Those of the proofs that the
code itself is silent about: a VM has finitely many threads (`IsFiniteSet(Thread)`),
`NIL`, which stands for C's `NULL`, is none of them, an event fits into the empty
buffer, and an object without pointers has no weak pointers either.

Threads and monitors:

* `TypeCorrect` (`KvmThreads_proofs`): `TypeOK` is inductive. One lemma per
  operation; the operators on queues are shown to return sequences of threads.
* `MonitorsNeverShared`, `ExtendedLocksNeverShared` and `HashNeverLost`
  (`KvmThreads_proofs`): from the invariant `LockInv`, the conjunction of
  `MonitorsUnshared`, `ExtendedLocksUnshared` and `DepthsAreNatural`. The last is
  needed because an extended lock is free when its depth is 0, so that a step
  that enters an object more deeply must be known not to reach 0 from below. Most
  of the argument is in two facts: what `UpgradeToRealMonitor` does to words,
  records and cache, and that a fast-lock operation changes one word and one
  record. `HashNeverLost` follows because upgrading copies the hash, and because,
  with extended locks unshared, writing a thread's record changes the hash
  of no other object.
* `ThreadsInOnePlace`, `SchedulerNeverFatal` and `InterruptedThreadsComeBack`
  (`KvmThreads_proofs`), if `~RepeatInterrupt`: the program does not interrupt a thread
  whose `wait()` has ended already. Without this hypothesis all three are false:
  finding 1 is an execution in which such a thread is in two queues.
  The invariant `QueueInv` says where the flags of a
  thread put it (`Placed`: one of the queues, once, or none; each set of
  flags names at most one place, `FlagSetsApart`), that an alarm is set only for a thread
  that sleeps or waits (`AlarmsFit`), that an exception is pending only for one that
  is to run or in line (`InterruptsFit`), and that only the monitor of an object has threads in its
  queues (`Attached`), which is what makes it sound that `monitorExit()` puts a record on the
  `MonitorCache` list for another object. Two moves are behind all steps: `addMonitorWait()` puts a thread that is nowhere
  into a line, and the hand-over in `monitorExit()` takes the first of a line.
* `HandOversNeverMissed` and `KvmImplementsJavaMonitors` (`KvmThreads_proofs`), if also
  `MaxDepth <= ShortMax`: no lock is nested deeper than the `short` counts in
  which `wait()` saves the depth. Beyond that a thread comes back from `wait()` with
  a lock that it has not entered, or entered a wrong number of times. The refinement
  mapping gives each object the monitor `Upgraded(o)` which `upgradeToRealMonitor()` would make of its
  lock: upgrading, going back to a fast lock and allocating monitors are stutters by
  one lemma each (`LocksStay`), and an operation is proved once on `Upgraded(o)`, not
  once per form. `DepthInv` adds to the earlier invariants that a lock without
  owner is entered zero times and has nobody in line, and that a thread that waits
  has saved a positive depth: without it a hand-over would make an owner of depth 0.
* `ListsImplementQueues` (`ThreadLists_proofs`): `ImplementsThreadQueues` for any number of threads and
  queues. The invariant is about what the links look like: each queue is empty or a ring, the links
  from its last thread run through the threads of one sequence, once each, and come
  back (`IsRing`); no thread is in two rings. Each operation is then one fact about two sequences. `removeFromQueue()`
  walks until it is back at the start: that the walk visits the sequence, and ends there, is what the proof is about.
* `ListImplementsAlarmClock` (`ThreadLists_proofs`): `ImplementsAlarmClock` for any number of threads and callbacks. The
  chain of alarms ends in `NULL`, has each thread that has set one, once, and is sorted by time; so
  the alarms that `checkTimerQueue()` finds due are a prefix of it. Both mappings follow
  pointers by functions that are recursive over the numbers up to the count of threads. As no prover here can apply
  induction to an operator, the module proves induction for sets of numbers first (`NatSetInduction`,
  `LeastNumber`, by the well-foundedness of `<`), and
  that such a walk exists (`WalkExists`); the claims are then sets of steps for which they hold.
* `ThreadsOutliveDebugger`, `NoBreakpointMissed` and `RequestsKnowCode` (`Debugger_proofs`), as
  long as the debugger takes the six precautions (`TakesPrecautions`, an action: for any value
  of `Unchecked` they hold until it first leaves one out). None of the six can be dropped: each one that
  is, breaks one of the three (observation 7 of section 4). Otherwise it may ask for anything in
  any order, threads start, sleep, throw and end while it does, and the bounds of the
  instance are arbitrary. The three need one invariant, `IInv`: a breakpoint
  is missed where a thread goes on in another place than its own, and a breakpoint that no request
  knows is a fatal error for the thread that meets it. Its parts:
  `Placed`, every thread is where its flags say, with a set of those that are just dying, because
  `stopThread()` reports the end of a thread when it is dead and still listed; `CodeInv`, breakpoints and requests belong
  together, and no request stops a thread for an uncaught exception; `HitInv`, what a thread has still to do at a breakpoint agrees
  with `nextOpcode`; `EventsSent`, events are kept only by the current thread and only until it reschedules;
  `BeforeStart`, while the VM waits for the debugger at its start there is only the main thread.
  They speak of any record of VM data, not of the variable, as an action carries the data through several functions
  that may suspend and resume threads in between; `Same` says what these
  leave alone. Loops over `AllThreads` and over kept events are functions on the numbers
  up to a length; `LoopExists` and `LoopStays` do the induction for all of them.
* `ResumeLosesThreads` (`Debugger_proofs`): why `resumeRunning` is a precaution. In every state that such a debugger can
  reach, and for every thread it has not suspended, `ThreadReference_Resume()` keeps the promise of finding 5 if and
  only if the thread does not run or is alone in the queue; otherwise the VM ends, or a
  thread that could run is neither the current one nor in the queue any more (`ResumeOfUnsuspended`).
  It follows from `IInv`, and from what `addThreadToQueue()` does with a thread that is in the queue (`AddAgain`).

Events and native functions:

* `BufferNeverOverrun` (`Events_proofs`): for every buffer size and all events that
  fit into an empty buffer (`EventsAssumption`, which `StoreKVMEvent()` does not
  check). The inductive invariant adds that pointer and count are naturals.
* `EventsReachReaders` (`Events_proofs`): `ImplementsEventStream`, under the same
  assumption. The stream's unread cells are `Cells(Buffer)`, the `count` cells before
  `inP`: storing an event appends its cells or drops the event, also when the buffer is first
  moved to the front; asking the port comes down to storing an event or nothing.
  `EventInv` is the type of what is behind the mapping.
* `CollectorNeverDisturbs` (`AsyncNatives_proofs`): `CollectorAlone` for any number of
  threads and IOCBs. The invariant `HeapInv` says that `AsyncThreadCount` is the
  number of I/O threads that use the heap, plus one while a call is between
  `asyncFunctionProlog()` and the I/O thread that takes it; the VM, on whose thread
  the collector runs, waits for that in `CallAsyncNativeFunction_md()`.
* `ControlBlocksUnshared`, `AsyncNeverFatal` and `WorldsStayApart` (`AsyncNatives_proofs`), from
  `AsyncInv`, which adds to `HeapInv` who holds each control block (`HoldersInv`, without counting:
  the cardinalities in `IocbsUnshared` are derived from it), that the event wakes
  one thread for one request (`HandInv`), that a thread runs, is runnable or
  suspended (`RunInv`), that the control block of a call that still has to resume its thread names a suspended
  thread, and no other call's (`CallInv`), that what the collector will write back
  into a control block is what it still holds (`CopyInv`: the collector copies the root, moves the object, and writes,
  while I/O threads that have nothing to do with the heap go on), and
  `WorldsApart` itself. That a restart waits until all blocks are free is by
  counting: a list of `IocbCount` different blocks has them all (`AllFree`, by the pigeonhole principle).

Classes and the heap:

* `LiveObjectsMarked` (`Marking_proofs`): `MarkedIsReachable` for every heap of
  `MarkingAssumption`, every recursion depth and every size of the queue. The invariant
  `MarkInv` says that what a marked object has not passed on yet somebody still
  knows (`Known`): the object is above the scanner, in the queue, the next to be
  visited, on an activation that has come as far, or the overflow flag is set. When a pass ends
  without overflow only "has passed on everything" remains, so that the marked
  objects are closed; that they are reachable is the easy half. The rest of
  `Collector` is shown not to touch the marks.
* `WeakObjectsOnce` (`Marking_proofs`): `WeakReferencesCleared`. An object is put on the list of
  weak objects where its pointers are followed, and an overflow makes the collector pass over the heap
  again, so the question is why no object comes twice. `PendingOnce` answers
  it: an object chosen by an activation, deferred, or listed is only one of these, chosen by
  one activation, and behind the scanner; `NoneForgotten` says that
  a marked weak object is one of these or still to come.
* `LinkedClassesStand` and `LinkedClassesStay` (`ClassLoading_proofs`): for any number
  of classes and all class files (`ClassPathsAssumption`, a hypothesis of the
  theorems, which `ClassFiles` states as an ASSUME for TLC). The invariant `IInv` says that the classes an
  activation has loaded and not linked form a chain of superclasses that ends at a linked
  class or at the next one to be loaded (`ChainsEndLinked`), that each activation below
  the top waits at an interface of such a class, whose superclass and earlier interfaces are
  settled (`InterfaceLoops`), and that nobody links a class of another activation. From
  the first follows that `findSuperMostUnlinked()`, which follows `superClass` over
  whatever earlier loads have left, never leaves its own activation (`LinkedByTop`).
* `InitializedByOne`, `ClinitRunsOnce`, `WaitersAreWoken` and `FailureIsFinal`
  (`ClassInit_proofs`): for any number of threads and all programs of
  `ProgramType` with finitely many classes. `OneInitializer` alone is not inductive. `Core` adds what
  the frames of a thread look like (`StackInv`): only a frame in state 4 or 5, or a
  `<clinit>`, has a frame above it, a thread begins with a class once, and the class of a frame that has
  begun names the thread; whom exceptions find in which state (`ThrowInv`: a thread that
  waits, or has been interrupted, is in step 2, one that unwinds otherwise in a state that
  `runClinitException()` expects); how often `<clinit>` has been entered
  before and behind step 5 of a frame (`RunsInv`), with the exception of a frame whose `pushFrame()` has just failed;
  and that a failed class has no initializer (`ErrorsStay`). The last needs
  `EnoughRoom`: `initializeClass()` marks a class as failed when its frame does not fit, also a class that another
  thread is initializing, which then makes it ready. That the frames do fit is by
  counting (`StackBound`): below the top a thread has at most two frames for each class, one in state 4
  or 5 and one of `<clinit>`. `QuietInv` is for `WaitersAreWoken`: when nobody else takes the monitor of a
  class, it is owned only behind the end of the initialization, while those who waited are let in one after the other, a
  thread is in its queues exactly if it is in step 2 for this class, and state 6 does not occur.

Every one of these invariants was checked by TLC on the instances of section 3 before it was proved.

Only model-checked:

* liveness (`RunnableRuns`, `EntryIsFair`, `TimeoutEnds`, `RunnableNotHeldUp`, `ReaderIsAnswered`,
  `CallsEnd`, `LoadsEnd`, `InitializationEnds`, `CollectionEnds`): out of the prover's reach, like everything
  that needs fairness and `ENABLED`;
* `ObjectsIntact`: addresses are sums of sizes, and the heap is scanned by adding them up; the
  proof has to carry a layout through sweep, compaction and the rolling break table, and
  was not attempted;
* `CollectorSeesReferences`, `NeverGoesWrong`, `FramesDescribe` and `MapsAccepted`: that an accepted
  method never goes wrong is type soundness, an induction over assignability, over the folds that
  pop arguments, and over walks along the code, for each bytecode family; not attempted;
* the findings, which are executions.

## 6. Not modelled

* Stacks and their chunks, roots found on stacks by `markThreadStack()` (only the map of one
  frame is), finalizers of weak pointer lists, arithmetic, fast bytecodes, inline
  caches: no module yet.
* Of the debugger agent: its packets, the identifiers of objects, values, and where a
  single step ends.
* The contents of class files, array classes, the class path, hash tables and pools:
  parsing and tables.
* Class files in the preverifier, `jsr` inlining and dead code; the ROMizer, the debug
  proxy and other tools; JAR files, inflation, floating point; the Java Application
  Manager, which is I/O and parsing.
* Ports: clock, devices and sockets are nondeterministic, except for the I/O threads
  of the Windows port.

## 7. Plan

1. `Frames`: stack chunks, exceptions that release the locks of synchronized methods;
   `InlineCache`; `Hashtable`; inflation against a reference decoder.
2. Proofs: `ObjectsIntact`, beginning with the free list that `sweepTheHeap()` leaves, then
   the break table; `FramesDescribe`, beginning with the transitivity of `IsAssignableTo`.
