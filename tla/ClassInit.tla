------------------------------ MODULE ClassInit ------------------------------
(***************************************************************************)
(* Initialization of classes: initializeClass(), runClinit() and           *)
(* runClinitException() of VmCommon/src/class.c.                           *)
(*                                                                         *)
(* initializeClass() pushes a frame of RunCustomCodeMethod.  Each time the *)
(* interpreter executes that frame it calls runClinit(), which goes on     *)
(* from the state kept in the frame and returns to the interpreter with a  *)
(* new one.  An action is one such call, one bytecode of a <clinit> that   *)
(* needs a class, or the unwinding of one frame by throwException().       *)
(* Threads are switched between any two bytecodes.                         *)
(*                                                                         *)
(* The lock of a class object is a Java monitor here: KvmThreads shows     *)
(* that the monitors of thread.c are.  What the program is like (its       *)
(* classes, what their initializers do, whom it interrupts) is chosen once *)
(* in the initial state.                                                   *)
(***************************************************************************)
EXTENDS Naturals, Sequences, FiniteSets, ThreadQueue

CONSTANTS
    Thread, Class, NIL,
    Programs    \* the programs considered, see ProgramType

ProgramType ==
    [superClass : [Class -> Class \cup {NIL}],
     hasClinit : SUBSET Class,           \* classes with a <clinit>
     uses : [Class -> SUBSET Class],     \* classes a <clinit> touches
     fails : SUBSET Class,               \* a <clinit> that may throw
     catches : SUBSET Class,             \* a <clinit> that may catch
     unverifiable : SUBSET Class,        \* what verifyClass() rejects
     room : [Thread -> Nat],             \* frames a thread can push
     interruptible : SUBSET Thread,      \* threads the program interrupts
     lockers : SUBSET Thread]            \* threads that lock class objects

ASSUME ProgramsAssumption ==
    /\ NIL \notin Thread \cup Class
    /\ IsFiniteSet(Class)
    /\ Programs \subseteq ProgramType

VARIABLES
    program,            \* constant: the program that runs
    status, initThread, \* fields of INSTANCE_CLASS
    lock,               \* lock[c]: the monitor of the class object
    stack,              \* stack[t]: the frames of t that matter here, top last
    pendingException,   \* fields of THREAD
    isPendingInterrupt,
    throwing,           \* the thread throwException() unwinds, or NIL
    fatal,              \* has fatalVMError() been called?
    runs                \* history: how often each <clinit> was entered

classVars == <<status, initThread>>
intrVars  == <<pendingException, isPendingInterrupt>>
vars == <<program, classVars, lock, stack, intrVars, throwing, fatal, runs>>

\* Statuses are "LINKED", "VERIFIED", "READY" and "ERROR".  A frame [cls, state,
\* todo] of RunCustomCodeMethod holds runClinit()'s state, 1 to 6; state 0 is the
\* frame of the method <clinit> itself.  A lock is [owner, entryQ, waitQ].
Init ==
    /\ program \in Programs
    /\ status = [c \in Class |-> "LINKED"]
    /\ initThread = [c \in Class |-> NIL]
    /\ lock = [c \in Class |-> [owner |-> NIL, entryQ |-> << >>,
                                waitQ |-> << >>]]
    /\ stack = [t \in Thread |-> << >>]
    /\ pendingException = [t \in Thread |-> FALSE]
    /\ isPendingInterrupt = [t \in Thread |-> FALSE]
    /\ throwing = NIL
    /\ fatal = FALSE
    /\ runs = [c \in Class |-> 0]

-----------------------------------------------------------------------------
(***************************************************************************)
(* Threads and frames.                                                     *)
(***************************************************************************)
InSeq(x, s) == \E i \in DOMAIN s : s[i] = x

Waiting(t) == \E c \in Class : InSeq(t, lock[c].waitQ)
Queued(t)  == \E c \in Class : InSeq(t, lock[c].entryQ)

\* t may execute the next bytecode.
Runs(t) ==
    /\ ~fatal
    /\ throwing = NIL
    /\ ~Waiting(t) /\ ~Queued(t)
    /\ ~pendingException[t]

Running(t, state) ==
    Runs(t) /\ stack[t] /= << >> /\ stack[t][Len(stack[t])].state = state

Top(t) == stack[t][Len(stack[t])]
Popped(s) == SubSeq(s, 1, Len(s) - 1)
WithState(s, n) == [s EXCEPT ![Len(s)].state = n]    \* topStack = n

PopFrame(t) == stack' = [stack EXCEPT ![t] = Popped(@)]

\* pushFrame(frame) on s; without room it throws StackOverflowError.
PushFrame(t, s, frame) ==
    IF Len(s) < program.room[t]
    THEN stack' = [stack EXCEPT ![t] = Append(s, frame)] /\ throwing' = NIL
    ELSE stack' = [stack EXCEPT ![t] = s] /\ throwing' = t

(***************************************************************************)
(* The monitor of a class object.  A free monitor has no queue for entry.  *)
(***************************************************************************)
HasMonitor(l) == l.owner /= NIL \/ l.entryQ /= << >> \/ l.waitQ /= << >>
OwnedBy(l, t) == [l EXCEPT !.owner = t]
QueueFor(l, t) == [l EXCEPT !.entryQ = Append(@, t)]
Released(l) ==
    IF l.entryQ = << >> THEN [l EXCEPT !.owner = NIL]
    ELSE [l EXCEPT !.owner = Head(l.entryQ), !.entryQ = Tail(@)]
Waited(l, t) == Released([l EXCEPT !.waitQ = Append(@, t)])
Notified(l) == [l EXCEPT !.entryQ = @ \o l.waitQ, !.waitQ = << >>]

-----------------------------------------------------------------------------
(***************************************************************************)
(* initializeClass(c), called by t with the frames s.                      *)
(***************************************************************************)
HasInitializedSuper(c) ==
    program.superClass[c] = NIL \/ status[program.superClass[c]] = "READY"

Throws(t, s) == stack' = [stack EXCEPT ![t] = s] /\ throwing' = t

\* Bug: a class that failed is initialized again.
InitializeClassAgain(t, s, c) ==
    \/ /\ status[c] = "LINKED" /\ c \in program.unverifiable
       /\ status' = [status EXCEPT ![c] = "ERROR"]
       /\ Throws(t, s)
    \/ /\ status[c] = "LINKED" => c \notin program.unverifiable
       /\ status[c] /= "READY"
       /\ PushFrame(t, s, [cls |-> c, state |-> 1, todo |-> {}])
       /\ status' = [status EXCEPT ![c] = "VERIFIED"]

InitializeClass(t, s, c) ==
    \/ status[c] = "ERROR" /\ Throws(t, s) /\ UNCHANGED status
    \/ /\ status[c] = "LINKED" /\ c \in program.unverifiable
       /\ status' = [status EXCEPT ![c] = "ERROR"]
       /\ Throws(t, s)
    \/ /\ status[c] = "LINKED" => c \notin program.unverifiable
       /\ status[c] \in {"LINKED", "VERIFIED"}
       /\ IF HasInitializedSuper(c) /\ c \notin program.hasClinit
          THEN /\ status' = [status EXCEPT ![c] = "READY"]
               /\ stack' = [stack EXCEPT ![t] = s]
               /\ UNCHANGED throwing
          ELSE /\ PushFrame(t, s, [cls |-> c, state |-> 1, todo |-> {}])
               /\ status' = [status EXCEPT
                    ![c] = IF throwing' = NIL THEN "VERIFIED" ELSE "ERROR"]

-----------------------------------------------------------------------------
(***************************************************************************)
(* runClinit(), for the frame of c on top of t's stack.  In each operator  *)
(* l is the monitor of c as the calls made before have left it.            *)
(***************************************************************************)
SetLock(c, l) == lock' = [lock EXCEPT ![c] = l]

\* unmarkClass
UnmarkClass(t, c, l) ==
    /\ initThread' = [initThread EXCEPT ![c] = NIL]
    /\ status' = [status EXCEPT ![c] = "READY"]
    /\ SetLock(c, l)
    /\ PopFrame(t)
    /\ UNCHANGED throwing

\* Bug: the monitor is not left after notifying.
AfterClinitInMonitor(t, c, l) ==
    IF l.owner = NIL THEN UnmarkClass(t, c, Notified(OwnedBy(l, t)))
    ELSE /\ SetLock(c, QueueFor(l, t))
         /\ stack' = [stack EXCEPT ![t] = WithState(@, 6)]
         /\ initThread' = [initThread EXCEPT ![c] = t]
         /\ UNCHANGED <<status, throwing>>

\* case 5: notify the waiting threads, if there is a monitor at all
AfterClinit(t, c, l) ==
    IF ~HasMonitor(l) THEN UnmarkClass(t, c, l)
    ELSE IF l.owner = NIL
    THEN UnmarkClass(t, c, Released(Notified(OwnedBy(l, t))))
    ELSE /\ SetLock(c, QueueFor(l, t))
         /\ stack' = [stack EXCEPT ![t] = WithState(@, 6)]
         /\ initThread' = [initThread EXCEPT ![c] = t]
         /\ UNCHANGED <<status, throwing>>

\* case 4.  From here on initThread[c] is t already unless markClass has
\* just fallen through.
RunBody(t, c, l) ==
    IF c \in program.hasClinit
    THEN /\ PushFrame(t, WithState(stack[t], 5),
              [cls |-> c, state |-> 0, todo |-> program.uses[c]])
         /\ runs' = [runs EXCEPT ![c] = IF throwing' = NIL THEN @ + 1 ELSE @]
         /\ initThread' = [initThread EXCEPT ![c] = t]
         /\ SetLock(c, l)
         /\ UNCHANGED status
    ELSE AfterClinit(t, c, l) /\ UNCHANGED runs

\* Bug: the class is not looked at again after waiting.
MarkClassUnchecked(t, c, l) == RunBody(t, c, l)

\* markClass, and case 3: the superclass first
MarkClass(t, c, l) ==
    IF initThread[c] = t \/ status[c] \in {"READY", "ERROR"}
    THEN PopFrame(t) /\ SetLock(c, l) /\ UNCHANGED <<classVars, throwing, runs>>
    ELSE IF HasInitializedSuper(c) THEN RunBody(t, c, l)
    ELSE /\ InitializeClass(t, WithState(stack[t], 4), program.superClass[c])
         /\ initThread' = [initThread EXCEPT ![c] = t]
         /\ SetLock(c, l)
         /\ UNCHANGED runs

\* monitorWait(): a thread interrupted before does not wait, it is left with
\* a pending exception.  It then executes the frame again and waits after
\* all, or its time slice ends first and SwitchThread() gives up.
WaitForInitializer(t, c, l) ==
    /\ SetLock(c, Waited(l, t))
    /\ stack' = [stack EXCEPT ![t] = WithState(@, 2)]
    /\ pendingException' = [pendingException EXCEPT ![t] = isPendingInterrupt[t]]
    /\ isPendingInterrupt' = [isPendingInterrupt EXCEPT ![t] = FALSE]
    /\ fatal' \in {FALSE, isPendingInterrupt[t]}
    /\ UNCHANGED <<classVars, throwing, runs>>

\* Bug: whoever gets the monitor initializes the class.
WithMonitorNoWait(t, c, l) ==
    IF status[c] \in {"READY", "ERROR"}
    THEN MarkClass(t, c, Released(l)) /\ UNCHANGED <<intrVars, fatal>>
    ELSE RunBody(t, c, Released(l)) /\ UNCHANGED <<intrVars, fatal>>

\* case 2: t owns the monitor
WithMonitor(t, c, l) ==
    IF initThread[c] \notin {NIL, t} THEN WaitForInitializer(t, c, l)
    ELSE MarkClass(t, c, Released(l)) /\ UNCHANGED <<intrVars, fatal>>

RunClinit1(t) ==
    /\ Running(t, 1)
    /\ LET c == Top(t).cls
           l == lock[c]
       IN \/ /\ ~HasMonitor(l) /\ initThread[c] = NIL
             /\ MarkClass(t, c, l)
             /\ UNCHANGED <<intrVars, fatal>>
          \/ /\ HasMonitor(l) \/ initThread[c] /= NIL
             /\ l.owner = NIL
             /\ WithMonitor(t, c, OwnedBy(l, t))
          \/ /\ l.owner /= NIL
             /\ SetLock(c, QueueFor(l, t))
             /\ stack' = [stack EXCEPT ![t] = WithState(@, 2)]
             /\ UNCHANGED <<classVars, intrVars, throwing, fatal, runs>>
    /\ UNCHANGED program

RunClinit2(t) ==
    /\ Running(t, 2)
    /\ WithMonitor(t, Top(t).cls, lock[Top(t).cls])
    /\ UNCHANGED program

RunClinit4(t) ==
    /\ Running(t, 4)
    /\ RunBody(t, Top(t).cls, lock[Top(t).cls])
    /\ UNCHANGED <<program, intrVars, fatal>>

RunClinit5(t) ==
    /\ Running(t, 5)
    /\ AfterClinit(t, Top(t).cls, lock[Top(t).cls])
    /\ UNCHANGED <<program, intrVars, fatal, runs>>

RunClinit6(t) ==
    /\ Running(t, 6)
    /\ UnmarkClass(t, Top(t).cls, Released(Notified(lock[Top(t).cls])))
    /\ UNCHANGED <<program, intrVars, fatal, runs>>

-----------------------------------------------------------------------------
(***************************************************************************)
(* Bytecodes that need a class (getstatic, invokestatic, new, ...): in a   *)
(* <clinit>, and in a thread that initializes nothing.  The bytecode is    *)
(* executed again after the initialization it starts.                      *)
(***************************************************************************)
CLASS_INITIALIZED(t, c) == status[c] = "READY" \/ initThread[c] = t

UseClass(t, s, c) ==
    IF status[c] = "ERROR" THEN Throws(t, s) /\ UNCHANGED status
    ELSE InitializeClass(t, s, c)

\* Bound: a thread that locks a class object does only that meanwhile.
AtRest(t) ==
    /\ Runs(t) /\ stack[t] = << >>
    /\ \A c \in Class : lock[c].owner /= t

\* A class that failed makes the bytecode throw and changes nothing here.
Touch(t, c) ==
    /\ AtRest(t)
    /\ ~CLASS_INITIALIZED(t, c) /\ status[c] /= "ERROR"
    /\ InitializeClass(t, << >>, c)
    /\ UNCHANGED <<program, initThread, lock, intrVars, fatal, runs>>

ClinitUses(t, c) ==
    /\ Running(t, 0) /\ c \in Top(t).todo
    /\ IF status[c] /= "ERROR" /\ CLASS_INITIALIZED(t, c)
       THEN /\ stack' = [stack EXCEPT ![t][Len(stack[t])].todo = @ \ {c}]
            /\ UNCHANGED <<status, throwing>>
       ELSE UseClass(t, stack[t], c)
    /\ UNCHANGED <<program, initThread, lock, intrVars, fatal, runs>>

ClinitReturns(t) ==
    /\ Running(t, 0) /\ Top(t).todo = {}
    /\ PopFrame(t)
    /\ UNCHANGED <<program, classVars, lock, intrVars, throwing, fatal, runs>>

ClinitThrows(t) ==
    /\ Running(t, 0) /\ Top(t).cls \in program.fails
    /\ throwing' = t
    /\ UNCHANGED <<program, classVars, lock, stack, intrVars, fatal, runs>>

\* A class object that is known can be locked, by a static synchronized
\* method for one.
LockClass(t, c) ==
    /\ t \in program.lockers /\ AtRest(t)
    /\ status[c] = "READY" \/ initThread[c] /= NIL
    /\ SetLock(c, IF lock[c].owner = NIL THEN OwnedBy(lock[c], t)
                                         ELSE QueueFor(lock[c], t))
    /\ UNCHANGED <<program, classVars, stack, intrVars, throwing, fatal, runs>>

UnlockClass(t, c) ==
    /\ Runs(t) /\ stack[t] = << >> /\ lock[c].owner = t
    /\ SetLock(c, Released(lock[c]))
    /\ UNCHANGED <<program, classVars, stack, intrVars, throwing, fatal, runs>>

-----------------------------------------------------------------------------
(***************************************************************************)
(* throwException() unwinds the frames of the thread `throwing' one by     *)
(* one, calling runClinitException() for a frame of runClinit().  Nothing  *)
(* else happens meanwhile.                                                 *)
(***************************************************************************)
\* Bug: the initialization of the superclass is forgotten.
ExpectedInClinitOnly == {1, 5}

\* A class initialization during bootstrap, a superclass, a <clinit>
ExpectedStates == {1, 4, 5}

\* Bug: the waiting threads are not notified.
UnwindRunClinitSilently(t) ==
    LET c == Top(t).cls IN
    /\ throwing = t /\ stack[t] /= << >> /\ Top(t).state /= 0 /\ ~fatal
    /\ Top(t).state \in ExpectedStates
    /\ status' = [status EXCEPT ![c] = "ERROR"]
    /\ initThread' = [initThread EXCEPT ![c] = NIL]
    /\ PopFrame(t)
    /\ UNCHANGED <<program, lock, intrVars, throwing, fatal, runs>>

UnwindRunClinit(t) ==
    LET c == Top(t).cls IN
    /\ throwing = t /\ stack[t] /= << >> /\ Top(t).state /= 0 /\ ~fatal
    /\ IF Top(t).state \notin ExpectedStates
       THEN fatal' = TRUE /\ UNCHANGED <<classVars, lock, stack>>
       ELSE /\ status' = [status EXCEPT ![c] = "ERROR"]
            /\ initThread' = [initThread EXCEPT ![c] = NIL]
            /\ SetLock(c, IF HasMonitor(lock[c]) /\ lock[c].owner \in {NIL, t}
                          THEN Released(Notified(OwnedBy(lock[c], t)))
                          ELSE lock[c])
            /\ PopFrame(t)
            /\ UNCHANGED fatal
    /\ UNCHANGED <<program, intrVars, throwing, runs>>

\* A <clinit>: its handler goes on behind the bytecode that threw, or it has
\* none for this exception.
UnwindClinit(t) ==
    /\ throwing = t /\ stack[t] /= << >> /\ Top(t).state = 0
    /\ \/ /\ Top(t).cls \in program.catches
          /\ stack' = [stack EXCEPT ![t][Len(stack[t])].todo = {}]
          /\ throwing' = NIL
       \/ PopFrame(t) /\ UNCHANGED throwing
    /\ UNCHANGED <<program, classVars, lock, intrVars, fatal, runs>>

\* The frames below are of no interest here: one of them catches.
UnwindBottom(t) ==
    /\ throwing = t /\ stack[t] = << >>
    /\ throwing' = NIL
    /\ UNCHANGED <<program, classVars, lock, stack, intrVars, fatal, runs>>

\* SwitchThread(), switching to a thread that was interrupted
ThrowPending(t) ==
    /\ ~fatal /\ throwing = NIL
    /\ pendingException[t] /\ ~Waiting(t) /\ ~Queued(t)
    /\ pendingException' = [pendingException EXCEPT ![t] = FALSE]
    /\ throwing' = t
    /\ UNCHANGED <<program, classVars, lock, stack, isPendingInterrupt, fatal,
                   runs>>

\* interruptThread().  Bound: not while the thread is queued for entry.
Interrupt(t) ==
    /\ t \in program.interruptible /\ ~fatal /\ throwing = NIL /\ ~Queued(t)
    /\ \/ /\ ~Waiting(t)
          /\ isPendingInterrupt' = [isPendingInterrupt EXCEPT ![t] = TRUE]
          /\ UNCHANGED <<lock, pendingException>>
       \/ \E c \in Class :
            /\ InSeq(t, lock[c].waitQ)
            /\ LET l == [lock[c] EXCEPT !.waitQ = RemoveFromQueue(@, t)]
               IN SetLock(c, IF l.owner = NIL THEN OwnedBy(l, t)
                                              ELSE QueueFor(l, t))
            /\ pendingException' = [pendingException EXCEPT ![t] = TRUE]
            /\ UNCHANGED isPendingInterrupt
    /\ UNCHANGED <<program, classVars, stack, throwing, fatal, runs>>

-----------------------------------------------------------------------------
\* What the thread t does by itself once it has begun.
RunClinit(t) ==
    RunClinit1(t) \/ RunClinit2(t) \/ RunClinit4(t) \/ RunClinit5(t) \/ RunClinit6(t)

Unwind(t) == UnwindRunClinit(t) \/ UnwindClinit(t) \/ UnwindBottom(t)

Clinit(t) ==
    \/ \E c \in Class : ClinitUses(t, c)
    \/ ClinitReturns(t) \/ ClinitThrows(t)

Continue(t) == RunClinit(t) \/ Clinit(t) \/ Unwind(t) \/ ThrowPending(t)

Next ==
    \E t \in Thread :
        \/ Continue(t)
        \/ Interrupt(t)
        \/ \E c \in Class : Touch(t, c) \/ LockClass(t, c) \/ UnlockClass(t, c)

Spec == Init /\ [][Next]_vars

\* The interpreter goes on with some thread as long as one can run.  That they
\* take turns (RunnableRuns of KvmThreads) is not needed.
ContinueAny == \E t \in Thread : Continue(t)

FairSpec == Spec /\ WF_vars(ContinueAny)

-----------------------------------------------------------------------------
(***************************************************************************)
(* Properties.                                                             *)
(***************************************************************************)
Frames(t) == {stack[t][i] : i \in DOMAIN stack[t]}

\* Whoever is past step 6 for a class, or in its <clinit>, is the one thread
\* the class names as its initializer: two threads never initialize one class
\* together, even when several wait for it and it is interrupted or fails.
OneInitializer ==
    \A t \in Thread : \A f \in Frames(t) :
        f.state \in {0, 4, 5, 6} => initThread[f.cls] = t

\* A <clinit> runs at most once, and has returned when its class is ready.
RunOnceBeforeReady ==
    \A c \in Class :
        /\ runs[c] <= 1
        /\ status[c] = "READY" /\ c \in program.hasClinit =>
             /\ runs[c] = 1
             /\ \A t \in Thread : \A f \in Frames(t) :
                  f.cls = c => f.state \notin {0, 4, 5}

\* class.c, runClinitException(): "If any other thread is waiting for this, we
\* should try to wake them up if we can".  Nobody is left waiting for a class
\* that no thread initializes, unless the monitor of the class belongs to a
\* thread that locked it for itself or was interrupted in its wait.
NobodyLeftWaiting ==
    program.lockers \cup program.interruptible = {} =>
        \A c \in Class : lock[c].waitQ /= << >> => initThread[c] /= NIL

\* A class that failed stays failed for all threads, if there is room on the
\* stacks for the frames of initializeClass().
EnoughRoom == \A t \in Thread : program.room[t] > 2 * Cardinality(Class)

\* And class.c, runClinitException(): "Must be: a class initialization during
\* bootstrap (state == 1), or executing either clinit or superclass(es) clinit
\* (state == 4 || state = 5)", unless somebody interrupts.
ErrorIsFinal ==
    [][/\ EnoughRoom =>
            \A c \in Class : status[c] = "ERROR" => status'[c] = "ERROR"
       /\ program.interruptible = {} => ~fatal']_vars

\* Every initialization that is begun ends, normally or with an exception,
\* unless initializers wait for each other in a circle, or the program locks
\* class objects or interrupts threads.
Needs(c) == program.uses[c] \cup ({program.superClass[c]} \ {NIL})

Acyclic ==
    \A S \in SUBSET Class \ {{}} : \E c \in S : Needs(c) \cap S \subseteq {c}

InitializationEnds ==
    (Acyclic /\ program.lockers = {} /\ program.interruptible = {}) =>
        \A t \in Thread : stack[t] /= << >> ~> stack[t] = << >>

\* class.c, runClinit(): "This function follows the exact steps as documented
\* in the Java virtual machine spec (2ed) 2.17.5": a <clinit> is entered only
\* when the superclass is initialized, or is being initialized by the same
\* thread.
SupersFirst ==
    [][\A c \in Class : runs'[c] > runs[c] =>
         \/ HasInitializedSuper(c)
         \/ initThread[program.superClass[c]] = initThread'[c]]_vars
=============================================================================
