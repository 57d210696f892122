--------------------------- MODULE Debugger_proofs ---------------------------
(***************************************************************************)
(* Proofs about Debugger, for all sets of threads, places and requests and *)
(* all bounds, of a debugger that takes the precautions as long as it      *)
(* does; and what becomes of the threads when it resumes one that runs.    *)
(*                                                                         *)
(* A step of the VM is made of several functions, one after the other, and *)
(* each may suspend or resume any thread, clear requests or patch code.    *)
(* So the invariant consists of parts that speak of any value of the VM's  *)
(* data, and each function is shown to keep them; the loops over           *)
(* AllThreads and over the events kept for a thread are recursive          *)
(* functions, for which the induction is over a set of numbers.            *)
(***************************************************************************)
EXTENDS Debugger, FiniteSetTheorems, SequenceTheorems, WellFoundedInduction, TLAPS

----------------------------------------------------------------------------
(* Queues *)

LEMMA OnQueueType ==
    ASSUME NEW S, NEW q \in Seq(S)
    PROVE  OnQueue(q) \subseteq S
  BY DEF OnQueue

LEMMA IndexOfType ==
    ASSUME NEW S, NEW q \in Seq(S), NEW t \in OnQueue(q)
    PROVE  IndexOf(q, t) \in 1..Len(q) /\ q[IndexOf(q, t)] = t
  BY DEF OnQueue, IndexOf

LEMMA AddType ==
    ASSUME NEW S, NEW q \in Seq(S), NEW t \in S
    PROVE  AddThreadToQueue(q, t) \in Seq(S)
  <1>1. CASE t \notin OnQueue(q)
    BY <1>1 DEF AddThreadToQueue
  <1>2. CASE t \in OnQueue(q)
    <2>1. IndexOf(q, t) \in 1..Len(q)
      BY <1>2, IndexOfType
    <2>2. SubSeq(q, 1, IndexOf(q, t)) \in Seq(S)
      BY <2>1, SubSeqProperties
    <2>. QED
      BY <1>2, <2>2 DEF AddThreadToQueue
  <1>. QED
    BY <1>1, <1>2

LEMMA RemoveType ==
    ASSUME NEW S, NEW q \in Seq(S), NEW t
    PROVE  RemoveFromQueue(q, t) \in Seq(S)
  <1>1. CASE t \notin OnQueue(q)
    BY <1>1 DEF RemoveFromQueue
  <1>2. CASE t \in OnQueue(q)
    <2>. DEFINE i == IndexOf(q, t)
    <2>1. i \in 1..Len(q)
      BY <1>2, IndexOfType
    <2>2. SubSeq(q, 1, i - 1) \in Seq(S) /\ SubSeq(q, i + 1, Len(q)) \in Seq(S)
      BY <2>1, SubSeqProperties
    <2>. QED
      BY <1>2, <2>2 DEF RemoveFromQueue, WithoutIndex
  <1>. QED
    BY <1>1, <1>2

LEMMA EmptyQueue == OnQueue(<< >>) = {} /\ NoDuplicates(<< >>)
  BY DEF OnQueue, NoDuplicates

LEMMA QueueMember ==
    ASSUME NEW S, NEW q \in Seq(S), NEW t
    PROVE  /\ t \in OnQueue(q) <=> \E i \in 1..Len(q) : q[i] = t
           /\ q = << >> <=> OnQueue(q) = {}
           /\ q # << >> => Head(q) \in OnQueue(q) /\ Head(q) \in S
           /\ OnQueue(q) \subseteq S
  BY DEF OnQueue

\* addThreadToQueue() of a thread that is not on the queue.
LEMMA AddedQueue ==
    ASSUME NEW S, NEW q \in Seq(S), NEW t \in S, t \notin OnQueue(q)
    PROVE  /\ AddThreadToQueue(q, t) = Append(q, t)
           /\ OnQueue(AddThreadToQueue(q, t)) = OnQueue(q) \cup {t}
           /\ NoDuplicates(q) => NoDuplicates(AddThreadToQueue(q, t))
  <1>1. AddThreadToQueue(q, t) = Append(q, t)
    BY DEF AddThreadToQueue
  <1>2. /\ Append(q, t) \in Seq(S)
        /\ Len(Append(q, t)) = Len(q) + 1
        /\ \A i \in 1..Len(q) : Append(q, t)[i] = q[i]
        /\ Append(q, t)[Len(q) + 1] = t
    OBVIOUS
  <1>3. OnQueue(Append(q, t)) = OnQueue(q) \cup {t}
    <2>1. \A x : x \in OnQueue(Append(q, t)) => x \in OnQueue(q) \cup {t}
      BY <1>2 DEF OnQueue
    <2>2. \A x : x \in OnQueue(q) \cup {t} => x \in OnQueue(Append(q, t))
      BY <1>2 DEF OnQueue
    <2>. QED
      BY <2>1, <2>2
  <1>4. NoDuplicates(q) => NoDuplicates(Append(q, t))
    BY <1>2 DEF NoDuplicates, OnQueue
  <1>. QED
    BY <1>1, <1>3, <1>4

\* removeQueueStart().
LEMMA TailQueue ==
    ASSUME NEW S, NEW q \in Seq(S), q # << >>, NoDuplicates(q)
    PROVE  /\ OnQueue(Tail(q)) = OnQueue(q) \ {Head(q)}
           /\ NoDuplicates(Tail(q))
           /\ Tail(q) \in Seq(S)
  <1>1. /\ Tail(q) \in Seq(S)
        /\ Len(Tail(q)) = Len(q) - 1
        /\ \A i \in 1..(Len(q) - 1) : Tail(q)[i] = q[i + 1]
        /\ Head(q) = q[1] /\ Len(q) \in Nat /\ Len(q) >= 1
    BY HeadTailProperties
  <1>2. NoDuplicates(Tail(q))
    BY <1>1 DEF NoDuplicates
  <1>3. \A x : x \in OnQueue(Tail(q)) => x \in OnQueue(q) \ {Head(q)}
    BY <1>1 DEF OnQueue, NoDuplicates
  <1>4. \A x : x \in OnQueue(q) \ {Head(q)} => x \in OnQueue(Tail(q))
    <2>1. ASSUME NEW i \in 1..Len(q), q[i] # Head(q)
          PROVE  i - 1 \in 1..Len(Tail(q)) /\ Tail(q)[i - 1] = q[i]
      BY <1>1, <2>1
    <2>2. ASSUME NEW x \in OnQueue(q) \ {Head(q)}
          PROVE  x \in OnQueue(Tail(q))
      <3>1. PICK i \in 1..Len(q) : q[i] = x
        BY DEF OnQueue
      <3>2. i - 1 \in 1..Len(Tail(q)) /\ Tail(q)[i - 1] = x
        BY <2>1, <3>1
      <3>3. DOMAIN Tail(q) = 1..Len(Tail(q))
        BY <1>1
      <3>. QED
        BY <3>2, <3>3 DEF OnQueue
    <2>. QED
      BY <2>2
  <1>. QED
    BY <1>1, <1>2, <1>3, <1>4

LEMMA ConcatQueue ==
    ASSUME NEW S, NEW q \in Seq(S), NEW p \in Seq(S)
    PROVE  /\ OnQueue(q \o p) = OnQueue(q) \cup OnQueue(p)
           /\ NoDuplicates(q) /\ NoDuplicates(p) /\ OnQueue(q) \cap OnQueue(p) = {}
                => NoDuplicates(q \o p)
  <1>1. /\ q \o p \in Seq(S)
        /\ Len(q \o p) = Len(q) + Len(p)
        /\ \A i \in 1..Len(q) : (q \o p)[i] = q[i]
        /\ \A i \in 1..Len(p) : (q \o p)[Len(q) + i] = p[i]
        /\ Len(q) \in Nat /\ Len(p) \in Nat
    OBVIOUS
  <1>. DEFINE c == q \o p
  <1>. HIDE DEF c
  <1>2. \A i \in 1..Len(c) : i \in 1..Len(q) \/ i - Len(q) \in 1..Len(p)
    BY <1>1 DEF c
  <1>3. \A i \in 1..Len(c) : i \notin 1..Len(q) => c[i] = p[i - Len(q)]
    BY <1>1 DEF c
  <1>4. \A x : x \in OnQueue(c) => x \in OnQueue(q) \cup OnQueue(p)
    BY <1>1, <1>2, <1>3 DEF OnQueue, c
  <1>5. \A x : x \in OnQueue(q) => x \in OnQueue(c)
    BY <1>1 DEF OnQueue, c
  <1>6. \A x : x \in OnQueue(p) => x \in OnQueue(c)
    <2>1. \A i \in 1..Len(p) : Len(q) + i \in 1..Len(c)
      BY <1>1 DEF c
    <2>. QED
      BY <1>1, <2>1, SMTT(60) DEF OnQueue, c
  <1>7. ASSUME NoDuplicates(q), NoDuplicates(p), OnQueue(q) \cap OnQueue(p) = {}
        PROVE  NoDuplicates(c)
    <2>1. \A i \in 1..Len(q), j \in 1..Len(p) : q[i] # p[j]
      BY <1>7 DEF OnQueue
    <2>2. DOMAIN c = 1..Len(c) /\ DOMAIN q = 1..Len(q) /\ DOMAIN p = 1..Len(p)
      BY <1>1 DEF c
    <2>. QED
      BY <1>1, <1>2, <1>3, <1>7, <2>1, <2>2 DEF NoDuplicates, c
  <1>. QED
    BY <1>4, <1>5, <1>6, <1>7 DEF c

\* removeFromQueue() of a thread that is on the queue.
LEMMA RemovedQueue ==
    ASSUME NEW S, NEW q \in Seq(S), NEW t \in OnQueue(q), NoDuplicates(q)
    PROVE  /\ OnQueue(RemoveFromQueue(q, t)) = OnQueue(q) \ {t}
           /\ NoDuplicates(RemoveFromQueue(q, t))
           /\ \E i \in 1..Len(q) :
                /\ q[i] = t
                /\ RemoveFromQueue(q, t) = SubSeq(q, 1, i - 1) \o SubSeq(q, i + 1, Len(q))
  <1>. DEFINE i == IndexOf(q, t)
              a == SubSeq(q, 1, i - 1)
              b == SubSeq(q, i + 1, Len(q))
  <1>1. i \in 1..Len(q) /\ q[i] = t /\ Len(q) \in Nat
    BY IndexOfType
  <1>2. RemoveFromQueue(q, t) = a \o b
    BY DEF RemoveFromQueue, WithoutIndex
  <1>. HIDE DEF i
  <1>3. /\ a \in Seq(S) /\ Len(a) = i - 1
        /\ \A k \in 1..(i - 1) : a[k] = q[k]
    BY <1>1, SubSeqProperties
  <1>4. /\ b \in Seq(S) /\ Len(b) = Len(q) - i
        /\ \A k \in 1..(Len(q) - i) : b[k] = q[i + k]
    BY <1>1, SubSeqProperties
  <1>. HIDE DEF a, b
  <1>5. \A j, k \in 1..Len(q) : q[j] = q[k] => j = k
    BY DEF NoDuplicates
  <1>6. NoDuplicates(a) /\ NoDuplicates(b)
    <2>1. DOMAIN a = 1..Len(a) /\ DOMAIN b = 1..Len(b)
      BY <1>3, <1>4
    <2>2. \A k \in 1..(i - 1) : k \in 1..Len(q)
      BY <1>1
    <2>3. \A k \in 1..(Len(q) - i) : i + k \in 1..Len(q)
      BY <1>1
    <2>4. NoDuplicates(a)
      BY <1>3, <1>5, <2>1, <2>2 DEF NoDuplicates
    <2>5. ASSUME NEW j \in 1..(Len(q) - i), NEW k \in 1..(Len(q) - i), b[j] = b[k]
          PROVE  j = k
      <3>1. i + j = i + k
        BY <1>4, <1>5, <2>3, <2>5
      <3>. QED
        BY <1>1, <3>1
    <2>. QED
      BY <1>4, <2>1, <2>4, <2>5 DEF NoDuplicates
  <1>7. \A x : x \in OnQueue(a) <=> \E k \in 1..Len(q) : k < i /\ q[k] = x
    <2>1. \A k : k \in 1..(i - 1) <=> k \in 1..Len(q) /\ k < i
      BY <1>1
    <2>2. \A x : x \in OnQueue(a) <=> \E k \in 1..(i - 1) : a[k] = x
      BY <1>3 DEF OnQueue
    <2>. QED
      BY <1>3, <2>1, <2>2
  <1>8. \A x : x \in OnQueue(b) <=> \E k \in 1..Len(q) : k > i /\ q[k] = x
    <2>1. \A k \in 1..Len(q) : k > i => k - i \in 1..(Len(q) - i) /\ b[k - i] = q[k]
      BY <1>1, <1>4
    <2>2. \A k \in 1..(Len(q) - i) : i + k \in 1..Len(q) /\ i + k > i
      BY <1>1
    <2>3. \A x : x \in OnQueue(b) <=> \E k \in 1..(Len(q) - i) : b[k] = x
      BY <1>4 DEF OnQueue
    <2>. QED
      BY <1>4, <2>1, <2>2, <2>3
  <1>9. OnQueue(a) \cap OnQueue(b) = {}
    BY <1>1, <1>5, <1>7, <1>8
  <1>10. OnQueue(a) \cup OnQueue(b) = OnQueue(q) \ {t}
    <2>1. \A x : x \in OnQueue(q) <=> \E k \in 1..Len(q) : q[k] = x
      BY DEF OnQueue
    <2>2. \A k \in 1..Len(q) : k # i => k < i \/ k > i
      BY <1>1
    <2>3. \A x : x \in OnQueue(a) \cup OnQueue(b) <=> x \in OnQueue(q) \ {t}
      BY <1>1, <1>5, <1>7, <1>8, <2>1, <2>2
    <2>. QED
      BY <2>3
  <1>11. OnQueue(a \o b) = OnQueue(q) \ {t} /\ NoDuplicates(a \o b)
    BY <1>3, <1>4, <1>6, <1>9, <1>10, ConcatQueue
  <1>. QED
    BY <1>1, <1>2, <1>11 DEF a, b

LEMMA SingleQueue ==
    ASSUME NEW t
    PROVE  OnQueue(<<t>>) = {t} /\ NoDuplicates(<<t>>)
  BY DEF OnQueue, NoDuplicates

----------------------------------------------------------------------------
(* Loops over a list *)

\* A set of numbers that has 0 and with each number the next has them all.
LEMMA NatSetInduction ==
    ASSUME NEW T, 0 \in T, \A n \in Nat : n \in T => n + 1 \in T
    PROVE  Nat \subseteq T
<1>. DEFINE F == Nat \ T
<1>1. SUFFICES ASSUME F # {} PROVE FALSE
  OBVIOUS
<1>2. PICK x \in F : \A y \in F : ~(<<y, x>> \in OpToRel(<, Nat))
  <2>. HIDE DEF F
  <2>1. F \subseteq Nat
    BY DEF F
  <2>. QED
    BY <1>1, <2>1, NatLessThanWellFounded, WFMin, Zenon
<1>3. x # 0 /\ x \in Nat /\ x - 1 \in Nat
  OBVIOUS
<1>4. x - 1 \in F
  BY <1>3
<1>5. <<x - 1, x>> \in OpToRel(<, Nat)
  BY <1>3 DEF OpToRel
<1>. QED
  BY <1>2, <1>4, <1>5, Zenon

\* A loop that is a recursive function: g[n] is its n-th turn.
LEMMA LoopExists ==
    ASSUME NEW S, NEW b \in S, NEW N \in Nat, NEW g \in [1..N -> [S -> S]]
    PROVE  \E f \in [0..N -> S] :
              f[0] = b /\ \A n \in 1..N : f[n] = g[n][f[n - 1]]
<1>. DEFINE IsLoop(f, m) == /\ f \in [0..m -> S]
                            /\ \A n \in 0..m : f[n] = IF n = 0 THEN b ELSE g[n][f[n - 1]]
            T == {m \in Nat : m <= N => \E f : IsLoop(f, m)}
<1>1. 0 \in T
  <2>1. IsLoop([n \in 0..0 |-> b], 0)
    OBVIOUS
  <2>. QED
    BY <2>1
<1>2. ASSUME NEW m \in Nat, m \in T PROVE m + 1 \in T
  <2>. SUFFICES ASSUME m + 1 <= N PROVE \E f : IsLoop(f, m + 1)
    OBVIOUS
  <2>1. PICK f : IsLoop(f, m)
    BY <1>2
  <2>. DEFINE h == [n \in 0..(m + 1) |-> IF n <= m THEN f[n] ELSE g[m + 1][f[m]]]
  <2>2. m + 1 \in 1..N /\ m \in 0..m /\ f[m] \in S /\ g[m + 1][f[m]] \in S
    BY <2>1
  <2>3. h \in [0..(m + 1) -> S]
    BY <2>1, <2>2
  <2>4. ASSUME NEW n \in 0..(m + 1) PROVE h[n] = IF n = 0 THEN b ELSE g[n][h[n - 1]]
    <3>1. CASE n = 0
      BY <2>1, <3>1
    <3>2. CASE n # 0 /\ n <= m
      <4>1. n \in 0..m /\ n - 1 \in 0..m /\ n - 1 \in 0..(m + 1) /\ n - 1 <= m
        BY <3>2
      <4>. QED
        BY <2>1, <3>2, <4>1
    <3>3. CASE n = m + 1
      <4>1. m \in 0..(m + 1) /\ n - 1 = m /\ ~(m + 1 <= m) /\ m + 1 # 0
        BY <3>3
      <4>. QED
        BY <3>3, <4>1
    <3>. QED
      BY <3>1, <3>2, <3>3
  <2>5. IsLoop(h, m + 1)
    BY <2>3, <2>4
  <2>. QED
    BY <2>5
<1>3. Nat \subseteq T
  <2>. HIDE DEF T
  <2>. QED
    BY <1>1, <1>2, NatSetInduction
<1>4. PICK f : IsLoop(f, N)
  BY <1>3
<1>5. 0 \in 0..N /\ \A n \in 1..N : n \in 0..N /\ n # 0
  OBVIOUS
<1>. QED
  BY <1>4, <1>5

----------------------------------------------------------------------------
(* Types *)

Opcode == {"none", "op", "BREAKPOINT"}

EventType == [kind : EventKinds, thread : Threads, caught : BOOLEAN]

EventRequest ==
    [kind : EventKinds, policy : Policies, mods : Seq(Modifier), count : Int,
     countActive : BOOLEAN, active : BOOLEAN, inUse : BOOLEAN, opcode : Opcode]

Flag == {"ACTIVE", "SUSPENDED", "DBG_SUSPENDED", "JUST_BORN", "DEAD"}

FatalErrors ==
    {"no", "resuming a thread that is not suspended", "resuming the current thread",
     "switching to an inactive thread", "no thread to start with", "VirtualMachineError"}

VM ==
    [current : Threads \cup {NIL}, runnable : Seq(Threads),
     state : [Threads -> SUBSET Flag], count : [Threads -> Nat], all : Seq(Threads),
     alive : Int, ip : Spots, ipStore : [Threads -> Spots], code : [Spots -> Opcode],
     nextOpcode : [Threads -> Opcode], isStepping : SUBSET Threads,
     debugEvent : [Threads -> Seq(EventType)], events : Seq(EventRequest),
     notify : SUBSET EventKinds, ready : BOOLEAN, resumeOK : BOOLEAN,
     allSuspended : BOOLEAN, timeToReschedule : BOOLEAN, policy : Policies,
     told : SUBSET Threads, fatal : FatalErrors]

----------------------------------------------------------------------------
(* The invariant of the VM's data, in parts that speak of any value of it, so  *)
(* that they can be stated of the middle of a step as well.                    *)

\* What a thread does, whether or not the debugger lets it.
Life(s) == s \ {"DBG_SUSPENDED"}

Lives == {{}, {"JUST_BORN"}, {"ACTIVE"}, {"ACTIVE", "SUSPENDED"}, {"DEAD"}}

\* Every thread is where its flags say.  Those of D have just died and are still
\* on AllThreads.
Placed(v, D) ==
    /\ v.fatal = "no"
    /\ v.current # NIL => v.state[v.current] = {"ACTIVE"}
    /\ NoDuplicates(v.runnable) /\ NoDuplicates(v.all)
    /\ \A t \in D : "DEAD" \in v.state[t]
    /\ \A t \in Threads :
         /\ Life(v.state[t]) \in Lives /\ v.state[t] # {"DBG_SUSPENDED"}
         /\ t \in OnQueue(v.runnable) <=> v.state[t] = {"ACTIVE"} /\ t # v.current
         /\ t \in OnQueue(v.all) <=> Life(v.state[t]) # {} /\ ("DEAD" \in v.state[t] => t \in D)
         /\ t \notin D =>
              ("DBG_SUSPENDED" \in v.state[t] <=> v.count[t] > 0 /\ "DEAD" \notin v.state[t])

\* Where a thread goes on.
Position(v, t) == IF t = v.current THEN v.ip ELSE v.ipStore[t]

\* Breakpoints are the requests for them, one for each place.
Installed(r) == r.inUse /\ r.kind = "BREAKPOINT"

BreaksInv(v) ==
    /\ \A i \in DOMAIN v.events :
         LET r == v.events[i] IN
         /\ r.kind = "BREAKPOINT" /\ r.mods # <<>> => r.opcode = "op"
         /\ Installed(r) => /\ r.mods # <<>> /\ r.mods[1].spot \in Spots
                            /\ v.code[r.mods[1].spot] = "BREAKPOINT"
         /\ r.kind = "EXCEPTION" /\ r.policy # "NONE" =>
              r.mods # <<>> /\ \A j \in DOMAIN r.mods :
                                  r.mods[j].kind = "ExceptionOnly" /\ ~r.mods[j].uncaught
    /\ \A i, j \in DOMAIN v.events :
         Installed(v.events[i]) /\ Installed(v.events[j])
            /\ v.events[i].mods[1].spot = v.events[j].mods[1].spot => i = j
    /\ \A s \in Spots :
         /\ v.code[s] # "none"
         /\ v.code[s] = "BREAKPOINT" =>
              \E i \in DOMAIN v.events :
                Installed(v.events[i]) /\ v.events[i].mods[1].spot = s

\* The debugger is there as long as there are any.
CodeInv(v) ==
    /\ BreaksInv(v)
    /\ \A s \in Spots : v.code[s] = "BREAKPOINT" => v.ready /\ "BREAKPOINT" \in v.notify

\* The parts together, with the threads in Thread.sleep() and the places of all.
Sane(v, sleeping, places) ==
    /\ v \in VM /\ Placed(v, {}) /\ CodeInv(v)
    /\ \A t \in Threads : "SUSPENDED" \in v.state[t] <=> t \in sleeping
    /\ \A t \in Threads : "DEAD" \notin v.state[t] => places[t] = Position(v, t)
    /\ v.alive = Cardinality({t \in Threads : "ACTIVE" \in v.state[t]})

\* How far each thread has got with a breakpoint at its place.
HitInv(v, places, hits, alert) ==
    \A t \in Threads : "DEAD" \notin v.state[t] =>
        /\ hits[t] \in {"no", "due", "told"}
        /\ hits[t] # "no" => v.code[places[t]] = "BREAKPOINT"
        /\ alert =>
             /\ hits[t] = "due" => v.nextOpcode[t] # "op"
             /\ hits[t] = "told" => v.nextOpcode[t] = "op"
             /\ v.nextOpcode[t] = "BREAKPOINT" => v.code[places[t]] = "BREAKPOINT"

WaitType == [what : {"start", "caught", "step"}, thread : Threads]

\* Nobody but the main thread lives before the program starts.
BeforeStart(v) ==
    /\ v.current = NIL /\ v.count[MainThread] <= 1 /\ Life(v.state[MainThread]) = {"ACTIVE"}
    /\ \A t \in Threads \ {MainThread} : v.state[t] = {}

\* The events of a thread are sent before anything else happens.
EventsSent(v) ==
    \A t \in Threads : v.debugEvent[t] # <<>> =>
        /\ at = "reschedulePoint" /\ waits = <<>> /\ t = v.current
        /\ v.timeToReschedule /\ v.ready
        /\ \A i \in DOMAIN v.debugEvent[t] :
             /\ v.debugEvent[t][i].kind \in {"START", "PREPARE"}
             /\ v.debugEvent[t][i].thread \in OnQueue(v.all)

ControlInv ==
    /\ waits \in Seq(WaitType)
    /\ \A i \in DOMAIN waits :
         waits[i].what = "start" => i = Len(waits) /\ BeforeStart(vm)
    /\ at = "boot" => vm = Booted /\ waits = <<>>
    /\ at \in {"fetch", "next"} => vm.current # NIL /\ waits = <<>>
    /\ at = "next" /\ vm.ready => vm.nextOpcode[vm.current] = "none"
    /\ EventsSent(vm)

Alert == vm.ready /\ at # "exit"

Data ==
    /\ asleep \subseteq Threads
    /\ place \in [Threads -> Spots]
    /\ hit \in [Threads -> {"no", "due", "told"}]
    /\ Sane(vm, asleep, place)
    /\ HitInv(vm, place, hit, Alert)
    /\ ~vm.resumeOK /\ vm.told = {}

IInv == Data /\ ControlInv

----------------------------------------------------------------------------
(* Suspending threads *)

\* What suspending and resuming threads leaves alone.
Aside(v, w) ==
    /\ w.all = v.all /\ w.alive = v.alive /\ w.ip = v.ip /\ w.code = v.code
    /\ w.nextOpcode = v.nextOpcode /\ w.isStepping = v.isStepping
    /\ w.debugEvent = v.debugEvent /\ w.events = v.events /\ w.notify = v.notify
    /\ w.ready = v.ready /\ w.policy = v.policy /\ w.told = v.told

\* What suspendSpecificThread() does to the threads.
Stops(v, t, w) ==
    /\ w \in VM
    /\ w.state = [v.state EXCEPT ![t] = @ \cup {"DBG_SUSPENDED"}]
    /\ w.count = [v.count EXCEPT ![t] = @ + 1]
    /\ w.current = IF t = v.current THEN NIL ELSE v.current
    /\ w.runnable = IF t # v.current /\ v.state[t] \cap {"SUSPENDED", "DEAD"} = {}
                    THEN RemoveFromQueue(v.runnable, t) ELSE v.runnable
    /\ w.ipStore = IF t = v.current /\ "SUSPENDED" \notin v.state[t]
                   THEN [v.ipStore EXCEPT ![t] = v.ip] ELSE v.ipStore
    /\ Aside(v, w) /\ w.fatal = v.fatal /\ w.resumeOK = v.resumeOK

LEMMA SuspendOneFields ==
    ASSUME NEW v \in VM, NEW t \in Threads, NEW w, w = suspendSpecificThread(v, t)
    PROVE  Stops(v, t, w)
<1>1. PICK x : x = IF t = v.current THEN [StoreCurrent(v) EXCEPT !.current = NIL]
                   ELSE IF v.state[t] \cap {"SUSPENDED", "DEAD"} = {}
                   THEN [v EXCEPT !.runnable = RemoveFromQueue(@, t)] ELSE v
  OBVIOUS
<1>2. /\ x \in VM /\ x.state = v.state /\ x.count = v.count
      /\ x.current = IF t = v.current THEN NIL ELSE v.current
      /\ x.runnable = IF t # v.current /\ v.state[t] \cap {"SUSPENDED", "DEAD"} = {}
                      THEN RemoveFromQueue(v.runnable, t) ELSE v.runnable
      /\ x.ipStore = IF t = v.current /\ "SUSPENDED" \notin v.state[t]
                          THEN [v.ipStore EXCEPT ![t] = v.ip] ELSE v.ipStore
      /\ Aside(v, x) /\ x.fatal = v.fatal /\ x.resumeOK = v.resumeOK
  <2>1. CASE t = v.current /\ "SUSPENDED" \in v.state[t]
    <3>1. x = [v EXCEPT !.current = NIL]
      BY <1>1, <2>1 DEF StoreCurrent
    <3>2. x \in VM
      BY <3>1 DEF VM
    <3>3. /\ x.current = NIL /\ x.state = v.state /\ x.count = v.count
          /\ x.runnable = v.runnable /\ x.ipStore = v.ipStore
          /\ Aside(v, x) /\ x.fatal = v.fatal /\ x.resumeOK = v.resumeOK
      BY <3>1 DEF VM, Aside
    <3>. QED
      BY <2>1, <3>2, <3>3
  <2>2. CASE t = v.current /\ "SUSPENDED" \notin v.state[t]
    <3>1. PICK y : y = [v EXCEPT !.ipStore[t] = v.ip]
      OBVIOUS
    <3>2. PICK z : z = [y EXCEPT !.timeToReschedule = TRUE]
      OBVIOUS
    <3>3. x = [z EXCEPT !.current = NIL]
      BY <1>1, <2>2, <3>1, <3>2 DEF StoreCurrent, storeExecutionEnvironment
    <3>4. y \in VM
      BY <3>1 DEF VM
    <3>5. z \in VM
      BY <3>2, <3>4 DEF VM
    <3>6. x \in VM
      BY <3>3, <3>5 DEF VM
    <3>7. /\ y.state = v.state /\ y.count = v.count /\ y.runnable = v.runnable
          /\ y.ipStore = [v.ipStore EXCEPT ![t] = v.ip]
          /\ Aside(v, y) /\ y.fatal = v.fatal /\ y.resumeOK = v.resumeOK
      BY <3>1 DEF VM, Aside
    <3>8. /\ z.state = y.state /\ z.count = y.count /\ z.runnable = y.runnable
          /\ z.ipStore = y.ipStore
          /\ Aside(y, z) /\ z.fatal = y.fatal /\ z.resumeOK = y.resumeOK
      BY <3>2, <3>4 DEF VM, Aside
    <3>9. /\ x.state = z.state /\ x.count = z.count /\ x.runnable = z.runnable
          /\ x.ipStore = z.ipStore /\ x.current = NIL
          /\ Aside(z, x) /\ x.fatal = z.fatal /\ x.resumeOK = z.resumeOK
      BY <3>3, <3>5 DEF VM, Aside
    <3>. QED
      BY <2>2, <3>6, <3>7, <3>8, <3>9 DEF Aside
  <2>3. CASE t # v.current /\ v.state[t] \cap {"SUSPENDED", "DEAD"} = {}
    <3>1. x = [v EXCEPT !.runnable = RemoveFromQueue(v.runnable, t)]
      BY <1>1, <2>3
    <3>2. RemoveFromQueue(v.runnable, t) \in Seq(Threads)
      BY RemoveType DEF VM
    <3>3. x \in VM
      BY <3>1, <3>2 DEF VM
    <3>4. /\ x.state = v.state /\ x.count = v.count /\ x.current = v.current
          /\ x.runnable = RemoveFromQueue(v.runnable, t)
          /\ x.ipStore = v.ipStore
          /\ Aside(v, x) /\ x.fatal = v.fatal /\ x.resumeOK = v.resumeOK
      BY <3>1 DEF VM, Aside
    <3>. QED
      BY <2>3, <3>3, <3>4
  <2>4. CASE t # v.current /\ v.state[t] \cap {"SUSPENDED", "DEAD"} # {}
    BY <1>1, <2>4 DEF Aside
  <2>. QED
    BY <2>1, <2>2, <2>3, <2>4
<1>3. w = [x EXCEPT !.state[t] = @ \cup {"DBG_SUSPENDED"}, !.count[t] = @ + 1]
  BY <1>1 DEF suspendSpecificThread
<1>4. /\ x.state \in [Threads -> SUBSET Flag] /\ x.count \in [Threads -> Nat]
  BY <1>2 DEF VM
<1>5. w \in VM
  <2>1. PICK s : s = [x.state EXCEPT ![t] = @ \cup {"DBG_SUSPENDED"}]
    OBVIOUS
  <2>2. PICK n : n = [x.count EXCEPT ![t] = @ + 1]
    OBVIOUS
  <2>3. s \in [Threads -> SUBSET Flag]
    BY <1>4, <2>1 DEF Flag
  <2>4. n \in [Threads -> Nat]
    BY <1>4, <2>2
  <2>5. PICK y : y = [x EXCEPT !.state = s]
    OBVIOUS
  <2>6. y \in VM /\ y.count = x.count
    BY <1>2, <2>3, <2>5 DEF VM
  <2>7. w = [y EXCEPT !.count = n]
    BY <1>2, <1>3, <2>1, <2>2, <2>5, <2>6 DEF VM
  <2>. QED
    BY <2>4, <2>6, <2>7, ZenonT(60) DEF VM
<1>6. /\ w.state = [x.state EXCEPT ![t] = @ \cup {"DBG_SUSPENDED"}]
      /\ w.count = [x.count EXCEPT ![t] = @ + 1]
      /\ w.current = x.current /\ w.runnable = x.runnable /\ w.ipStore = x.ipStore
      /\ Aside(x, w) /\ w.fatal = x.fatal /\ w.resumeOK = x.resumeOK
  BY <1>2, <1>3 DEF VM, Aside
<1>. QED
  BY <1>2, <1>5, <1>6 DEF Aside, Stops

\* The requests, but for those that are no breakpoints and have counted down.
SameRequests(p, q) ==
    /\ Len(p) = Len(q)
    /\ \A i \in 1 .. Len(p) :
          /\ q[i].kind = p[i].kind /\ q[i].policy = p[i].policy /\ q[i].mods = p[i].mods
          /\ q[i].opcode = p[i].opcode
          /\ p[i].kind = "BREAKPOINT" => q[i].inUse = p[i].inUse

\* What suspending and resuming threads, and reporting events, leaves alone: threads may
\* stop or go on, but all will go on where they were and with what they were doing.
Same(v, w) ==
    /\ w \in VM
    /\ w.all = v.all /\ w.alive = v.alive /\ w.code = v.code
    /\ w.nextOpcode = v.nextOpcode /\ w.debugEvent = v.debugEvent
    /\ w.notify = v.notify /\ w.ready = v.ready /\ w.told = v.told
    /\ \A t \in Threads : Life(w.state[t]) = Life(v.state[t])
    /\ \A t \in Threads : Position(w, t) = Position(v, t)
    /\ SameRequests(v.events, w.events)

LEMMA RequestsType ==
    ASSUME NEW v \in VM
    PROVE  /\ DOMAIN v.events = 1 .. Len(v.events) /\ Len(v.events) \in Nat
           /\ \A i \in 1 .. Len(v.events) : v.events[i] \in EventRequest
  BY DEF VM

LEMMA SameRefl ==
    ASSUME NEW v \in VM
    PROVE  Same(v, v)
  BY DEF Same, SameRequests

LEMMA SameTrans ==
    ASSUME NEW v, NEW w, NEW x, Same(v, w), Same(w, x)
    PROVE  Same(v, x)
<1>1. SameRequests(v.events, x.events)
  BY DEF Same, SameRequests
<1>. QED
  BY <1>1 DEF Same

LEMMA PlacedQueues ==
    ASSUME NEW v \in VM, NEW t \in OnQueue(v.all)
    PROVE  t \in Threads
  BY OnQueueType DEF VM

LEMMA SuspendOneKeeps ==
    ASSUME NEW v \in VM, NEW D, Placed(v, D), NEW t \in OnQueue(v.all),
           NEW w, w = suspendSpecificThread(v, t)
    PROVE  /\ Placed(w, D) /\ Same(v, w)
           /\ w.current = IF t = v.current THEN NIL ELSE v.current
           /\ w.policy = v.policy /\ w.resumeOK = v.resumeOK
           /\ w.count[t] = v.count[t] + 1
<1>1. t \in Threads /\ NIL \notin Threads
  BY PlacedQueues, DebuggerAssumption
<1>0. Stops(v, t, w)
  BY <1>1, SuspendOneFields
<1>2. /\ w \in VM
      /\ w.state = [v.state EXCEPT ![t] = @ \cup {"DBG_SUSPENDED"}]
      /\ w.count = [v.count EXCEPT ![t] = @ + 1]
      /\ w.current = IF t = v.current THEN NIL ELSE v.current
      /\ w.runnable = IF t # v.current /\ v.state[t] \cap {"SUSPENDED", "DEAD"} = {}
                      THEN RemoveFromQueue(v.runnable, t) ELSE v.runnable
      /\ w.ipStore = IF t = v.current /\ "SUSPENDED" \notin v.state[t]
                     THEN [v.ipStore EXCEPT ![t] = v.ip] ELSE v.ipStore
      /\ Aside(v, w) /\ w.fatal = v.fatal /\ w.resumeOK = v.resumeOK
  BY <1>0 DEF Stops
<1>3. /\ v.state \in [Threads -> SUBSET Flag] /\ v.count \in [Threads -> Nat]
      /\ v.ipStore \in [Threads -> Spots] /\ v.runnable \in Seq(Threads)
  BY DEF VM
<1>4. NoDuplicates(w.runnable) /\ OnQueue(w.runnable) = OnQueue(v.runnable) \ {t}
  <2>1. CASE t \in OnQueue(v.runnable)
    <3>1. v.state[t] = {"ACTIVE"} /\ t # v.current
      BY <1>1, <2>1 DEF Placed
    <3>2. w.runnable = RemoveFromQueue(v.runnable, t)
      BY <1>2, <3>1
    <3>3. NoDuplicates(v.runnable)
      BY DEF Placed
    <3>4. /\ OnQueue(RemoveFromQueue(v.runnable, t)) = OnQueue(v.runnable) \ {t}
          /\ NoDuplicates(RemoveFromQueue(v.runnable, t))
      BY <1>3, <2>1, <3>3, RemovedQueue
    <3>. QED
      BY <3>2, <3>4
  <2>2. CASE t \notin OnQueue(v.runnable)
    <3>1. w.runnable = v.runnable
      BY <1>2, <2>2 DEF RemoveFromQueue
    <3>. QED
      BY <2>2, <3>1 DEF Placed
  <2>. QED
    BY <2>1, <2>2
<1>5. \A u \in Threads : Life(w.state[u]) = Life(v.state[u])
  BY <1>2, <1>3 DEF Life
<1>6. \A u \in Threads : Position(w, u) = Position(v, u)
  <2>1. "SUSPENDED" \notin v.state[t] \/ t # v.current
    BY <1>1 DEF Placed
  <2>. QED
    BY <1>1, <1>2, <1>3, <2>1 DEF Position, Aside
<1>7. Same(v, w)
  BY <1>2, <1>5, <1>6 DEF Same, SameRequests, Aside
<1>8. Placed(w, D)
  <2>1. w.current # NIL => w.state[w.current] = {"ACTIVE"}
    BY <1>1, <1>2, <1>3, SMTT(60) DEF Placed, VM
  <2>2. \A u \in D : "DEAD" \in w.state[u]
    BY <1>2, <1>3 DEF Placed
  <2>3. ASSUME NEW u \in Threads
        PROVE  /\ Life(w.state[u]) \in Lives /\ w.state[u] # {"DBG_SUSPENDED"}
               /\ u \in OnQueue(w.runnable) <=> w.state[u] = {"ACTIVE"} /\ u # w.current
               /\ u \in OnQueue(w.all)
                    <=> Life(w.state[u]) # {} /\ ("DEAD" \in w.state[u] => u \in D)
               /\ u \notin D =>
                    ("DBG_SUSPENDED" \in w.state[u]
                       <=> w.count[u] > 0 /\ "DEAD" \notin w.state[u])
    <3>1. /\ Life(v.state[u]) \in Lives /\ v.state[u] # {"DBG_SUSPENDED"}
          /\ u \in OnQueue(v.runnable) <=> v.state[u] = {"ACTIVE"} /\ u # v.current
          /\ u \in OnQueue(v.all)
               <=> Life(v.state[u]) # {} /\ ("DEAD" \in v.state[u] => u \in D)
          /\ u \notin D =>
               ("DBG_SUSPENDED" \in v.state[u]
                  <=> v.count[u] > 0 /\ "DEAD" \notin v.state[u])
      BY DEF Placed
    <3>2. CASE u = t
      <4>1. w.state[u] = v.state[u] \cup {"DBG_SUSPENDED"} /\ w.count[u] = v.count[u] + 1
        BY <1>1, <1>2, <1>3, <3>2
      <4>2. Life(v.state[u]) # {} /\ ("DEAD" \in v.state[u] => u \in D)
        BY <3>1, <3>2
      <4>3. v.count[u] \in Nat
        BY <1>3
      <4>4. w.state[u] # {"ACTIVE"} /\ w.state[u] # {"DBG_SUSPENDED"}
        BY <4>1, <4>2 DEF Life
      <4>5. w.all = v.all
        BY <1>2 DEF Aside
      <4>6. "DEAD" \in w.state[u] <=> "DEAD" \in v.state[u]
        BY <4>1
      <4>7. u \in OnQueue(w.runnable) <=> w.state[u] = {"ACTIVE"} /\ u # w.current
        BY <1>4, <3>2, <4>4
      <4>8. u \in OnQueue(w.all)
              <=> Life(w.state[u]) # {} /\ ("DEAD" \in w.state[u] => u \in D)
        BY <1>5, <3>1, <4>5, <4>6
      <4>9. "DBG_SUSPENDED" \in w.state[u] /\ w.count[u] > 0
        BY <4>1, <4>3
      <4>. QED
        BY <1>5, <3>1, <4>2, <4>4, <4>6, <4>7, <4>8, <4>9
    <3>3. CASE u # t
      <4>1. w.state[u] = v.state[u] /\ w.count[u] = v.count[u] /\ w.all = v.all
        BY <1>2, <1>3, <3>3 DEF Aside
      <4>2. u # w.current <=> u # v.current
        BY <1>1, <1>2, <3>3
      <4>. QED
        BY <1>4, <3>1, <3>3, <4>1, <4>2
    <3>. QED
      BY <3>2, <3>3
  <2>. QED
    BY <1>2, <1>4, <2>1, <2>2, <2>3 DEF Placed, Aside
<1>9. w.count[t] = v.count[t] + 1
  BY <1>1, <1>2, <1>3
<1>. QED
  BY <1>2, <1>7, <1>8, <1>9 DEF Aside

LEMMA VMLoop ==
    ASSUME NEW b \in VM, NEW N \in Nat, NEW g \in [1..N -> [VM -> VM]]
    PROVE  \E f \in [0..N -> VM] : f[0] = b /\ \A n \in 1..N : f[n] = g[n][f[n - 1]]
  BY LoopExists

\* Two values with the same threads, ...
Threaded(v, w) ==
    /\ w \in VM
    /\ w.current = v.current /\ w.runnable = v.runnable /\ w.state = v.state
    /\ w.count = v.count /\ w.ip = v.ip /\ w.ipStore = v.ipStore /\ w.fatal = v.fatal
    /\ w.all = v.all /\ w.alive = v.alive /\ w.nextOpcode = v.nextOpcode
    /\ w.debugEvent = v.debugEvent /\ w.ready = v.ready /\ w.told = v.told

\* ... and two that differ in what nothing here depends on.
Twin(v, w) ==
    Threaded(v, w) /\ w.code = v.code /\ w.events = v.events /\ w.notify = v.notify

LEMMA TwinKeeps ==
    ASSUME NEW v \in VM, NEW w, Twin(v, w)
    PROVE  Same(v, w) /\ \A D : Placed(v, D) => Placed(w, D)
<1>1. Same(v, w)
  BY DEF Twin, Threaded, Same, SameRequests, Position
<1>2. ASSUME NEW D, Placed(v, D)
      PROVE  Placed(w, D)
  BY <1>2 DEF Placed, Twin, Threaded
<1>. QED
  BY <1>1, <1>2

LEMMA SuspendAllKeeps ==
    ASSUME NEW v \in VM, NEW D, Placed(v, D), NEW w, w = suspendAllThreads(v)
    PROVE  /\ Placed(w, D) /\ Same(v, w) /\ w.current = NIL
           /\ w.policy = v.policy /\ w.resumeOK = v.resumeOK
           /\ v.all = <<MainThread>> => w.count[MainThread] = v.count[MainThread] + 1
<1>. DEFINE N == Len(v.all)
            turn(n) == [x \in VM |-> suspendSpecificThread(x, v.all[n])]
            after[n \in 0 .. Len(v.all)] ==
                IF n = 0 THEN v ELSE suspendSpecificThread(after[n - 1], v.all[n])
<1>1. /\ N \in Nat /\ v.all \in Seq(Threads) /\ NIL \notin Threads
      /\ \A n \in 1..N : v.all[n] \in OnQueue(v.all) /\ v.all[n] \in Threads
  BY DebuggerAssumption, SMTT(60) DEF VM, OnQueue
<1>2. \A n \in 1..N, x \in VM : suspendSpecificThread(x, v.all[n]) \in VM
  BY <1>1, SuspendOneFields DEF Stops
<1>3. PICK g : g = [n \in 1..N |-> turn(n)]
  OBVIOUS
<1>4. PICK f \in [0..N -> VM] : f[0] = v /\ \A n \in 1..N : f[n] = g[n][f[n - 1]]
  <2>1. PICK m \in Nat : m = N
    BY <1>1
  <2>2. g \in [1..m -> [VM -> VM]]
    BY <1>2, <1>3, <2>1
  <2>3. \E f \in [0..m -> VM] : f[0] = v /\ \A n \in 1..m : f[n] = g[n][f[n - 1]]
    <3>. HIDE DEF N, turn, after
    <3>. QED
      BY <2>2, VMLoop
  <2>. HIDE DEF N, turn, after
  <2>. QED
    BY <2>1, <2>3
<1>5. f = [n \in 0..N |-> IF n = 0 THEN v ELSE suspendSpecificThread(f[n - 1], v.all[n])]
  <2>1. ASSUME NEW n \in 0..N, n # 0
        PROVE  f[n - 1] \in VM /\ n \in 1..N
    BY <1>1, <2>1
  <2>2. \A n \in 0..N : n # 0 => g[n][f[n - 1]] = suspendSpecificThread(f[n - 1], v.all[n])
    BY <1>3, <2>1
  <2>. HIDE DEF N, turn
  <2>. QED
    BY <1>4, <2>2
<1>6. /\ after[0] = v
      /\ \A n \in 1..N : after[n] = suspendSpecificThread(after[n - 1], v.all[n])
  <2>1. after = [n \in 0..N |-> IF n = 0 THEN v
                                ELSE suspendSpecificThread(after[n - 1], v.all[n])]
    BY <1>5
  <2>2. 0 \in 0..N /\ \A n \in 1..N : n \in 0..N /\ n # 0
    BY <1>1
  <2>. HIDE DEF after, N
  <2>. QED
    BY <2>1, <2>2
<1>7. w = [after[N] EXCEPT !.allSuspended = TRUE]
  BY DEF suspendAllThreads
<1>. HIDE DEF after
<1>. DEFINE Done(n) ==
              /\ after[n] \in VM /\ Placed(after[n], D) /\ Same(v, after[n])
              /\ after[n].current \in {v.current, NIL}
              /\ \A i \in 1..n : after[n].current # v.all[i]
              /\ after[n].policy = v.policy /\ after[n].resumeOK = v.resumeOK
            T == {n \in Nat : n <= N => Done(n)}
<1>8. 0 \in T
  BY <1>6, SameRefl
<1>9. ASSUME NEW n \in Nat, n \in T
      PROVE  n + 1 \in T
  <2>. SUFFICES ASSUME n + 1 <= N PROVE Done(n + 1)
    OBVIOUS
  <2>1. n + 1 \in 1..N /\ n <= N /\ (n + 1) - 1 = n
    BY <1>1
  <2>2. Done(n)
    BY <1>9, <2>1
  <2>3. PICK x, y : x = after[n] /\ y = after[n + 1]
    OBVIOUS
  <2>4. y = suspendSpecificThread(x, v.all[n + 1])
    BY <1>6, <2>1, <2>3
  <2>5. /\ x \in VM /\ Placed(x, D) /\ Same(v, x) /\ x.current \in {v.current, NIL}
        /\ \A i \in 1..n : x.current # v.all[i]
        /\ x.policy = v.policy /\ x.resumeOK = v.resumeOK
    BY <2>2, <2>3
  <2>6. v.all[n + 1] \in OnQueue(x.all) /\ v.all[n + 1] # NIL
    BY <1>1, <2>1, <2>5 DEF Same
  <2>7. /\ Placed(y, D) /\ Same(x, y)
        /\ y.current = IF v.all[n + 1] = x.current THEN NIL ELSE x.current
        /\ y.policy = x.policy /\ y.resumeOK = x.resumeOK
    BY <2>4, <2>5, <2>6, SuspendOneKeeps
  <2>8. Same(v, y) /\ y \in VM
    BY <2>5, <2>7, SameTrans DEF Same
  <2>9. \A i \in 1..(n + 1) : y.current # v.all[i]
    <3>1. \A i \in 1..(n + 1) : i \in 1..n \/ i = n + 1
      OBVIOUS
    <3>2. \A i \in 1..n : v.all[i] # NIL
      BY <1>1, <2>1
    <3>. QED
      BY <2>5, <2>6, <2>7, <3>1, <3>2
  <2>. QED
    BY <2>3, <2>5, <2>7, <2>8, <2>9
<1>10. Done(N)
  <2>. HIDE DEF T
  <2>1. Nat \subseteq T
    BY <1>8, <1>9, NatSetInduction
  <2>. QED
    BY <1>1, <2>1 DEF T
<1>11. PICK x : x = after[N]
  OBVIOUS
<1>12. /\ x \in VM /\ Placed(x, D) /\ Same(v, x) /\ x.current \in {v.current, NIL}
       /\ \A i \in 1..N : x.current # v.all[i]
       /\ x.policy = v.policy /\ x.resumeOK = v.resumeOK
  BY <1>10, <1>11
<1>13. x.current = NIL
  <2>1. SUFFICES ASSUME v.current # NIL, x.current = v.current
                 PROVE  FALSE
    BY <1>12
  <2>2. v.current \in Threads /\ v.state[v.current] = {"ACTIVE"}
    BY <2>1 DEF Placed, VM
  <2>3. v.current \in OnQueue(v.all)
    BY <2>2 DEF Placed, Life
  <2>4. PICK i \in 1..N : v.all[i] = v.current
    BY <1>1, <2>3 DEF OnQueue
  <2>. QED
    BY <1>12, <2>1, <2>4
<1>14. Twin(x, w) /\ w.policy = x.policy /\ w.resumeOK = x.resumeOK
  <2>1. w = [x EXCEPT !.allSuspended = TRUE]
    BY <1>7, <1>11
  <2>2. w \in VM
    BY <1>12, <2>1, ZenonT(60) DEF VM
  <2>. QED
    BY <1>12, <2>1, <2>2, ZenonT(60) DEF VM, Twin, Threaded
<1>15. Placed(w, D) /\ Same(x, w)
  BY <1>12, <1>14, TwinKeeps
<1>16. ASSUME v.all = <<MainThread>>
       PROVE  w.count[MainThread] = v.count[MainThread] + 1
  <2>1. N = 1 /\ v.all[1] = MainThread /\ MainThread \in Threads
    BY <1>16, DebuggerAssumption
  <2>2. x = suspendSpecificThread(v, MainThread)
    BY <1>6, <1>11, <2>1
  <2>3. x.count[MainThread] = v.count[MainThread] + 1
    <3>1. MainThread \in OnQueue(v.all)
      BY <1>1, <2>1
    <3>. HIDE DEF N
    <3>. QED
      BY <2>2, <3>1, SuspendOneKeeps
  <2>. QED
    BY <1>14, <2>3 DEF Twin, Threaded
<1>. QED
  BY <1>12, <1>13, <1>14, <1>15, <1>16, SameTrans DEF Twin, Threaded

----------------------------------------------------------------------------
(* Requests *)

LEMMA LeastNumber ==
    ASSUME NEW S \in SUBSET Nat, S # {}
    PROVE  \E x \in S : \A y \in S : x <= y
<1>1. PICK x \in S : \A y \in S : ~(<<y, x>> \in OpToRel(<, Nat))
  BY NatLessThanWellFounded, WFMin, Zenon
<1>2. ASSUME NEW y \in S, ~(x <= y) PROVE FALSE
  <2>1. <<y, x>> \in OpToRel(<, Nat)
    BY <1>2 DEF OpToRel
  <2>. QED
    BY <1>1, <2>1, Zenon
<1>. QED
  BY <1>2

LEMMA GreatestNumber ==
    ASSUME NEW n \in Nat, NEW S \in SUBSET (1 .. n), S # {}
    PROVE  \E x \in S : \A y \in S : y <= x
<1>. DEFINE T == {n - x : x \in S}
<1>1. T \in SUBSET Nat /\ T # {}
  <2>1. \A x \in S : n - x \in Nat /\ n - x \in T
    OBVIOUS
  <2>. QED
    BY <2>1
<1>2. PICK z \in T : \A y \in T : z <= y
  <2>. HIDE DEF T
  <2>. QED
    BY <1>1, LeastNumber
<1>3. PICK x \in S : z = n - x
  BY <1>2
<1>4. ASSUME NEW y \in S PROVE y <= x
  <2>1. n - y \in T
    OBVIOUS
  <2>. QED
    BY <1>2, <1>3, <2>1
<1>. QED
  BY <1>4

LEMMA ClearedType ==
    ASSUME NEW v \in VM, NEW S
    PROVE  /\ Cleared(v, S) \in Seq(EventRequest) /\ Len(Cleared(v, S)) = Len(v.events)
           /\ DOMAIN Cleared(v, S) = DOMAIN v.events
           /\ \A i \in DOMAIN v.events :
                /\ Cleared(v, S)[i].kind = v.events[i].kind
                /\ Cleared(v, S)[i].policy = v.events[i].policy
                /\ Cleared(v, S)[i].mods = v.events[i].mods
                /\ Cleared(v, S)[i].opcode = v.events[i].opcode
                /\ Cleared(v, S)[i].inUse <=> i \notin S /\ v.events[i].inUse
<1>1. /\ DOMAIN v.events = 1 .. Len(v.events) /\ Len(v.events) \in Nat
      /\ \A i \in 1 .. Len(v.events) : v.events[i] \in EventRequest
  BY RequestsType
<1>2. ASSUME NEW r \in EventRequest, NEW q, q = [r EXCEPT !.active = FALSE, !.inUse = FALSE]
      PROVE  /\ q \in EventRequest
             /\ q.kind = r.kind /\ q.policy = r.policy /\ q.mods = r.mods
             /\ q.opcode = r.opcode /\ ~q.inUse
  BY <1>2 DEF EventRequest
<1>3. PICK E : E = Cleared(v, S)
  OBVIOUS
<1>4. E = [i \in 1 .. Len(v.events) |->
             IF i \in S THEN [v.events[i] EXCEPT !.active = FALSE, !.inUse = FALSE]
             ELSE v.events[i]]
  BY <1>1, <1>3, Zenon DEF Cleared
<1>5. ASSUME NEW i \in 1 .. Len(v.events)
      PROVE  /\ E[i] \in EventRequest
             /\ E[i].kind = v.events[i].kind /\ E[i].policy = v.events[i].policy
             /\ E[i].mods = v.events[i].mods /\ E[i].opcode = v.events[i].opcode
             /\ E[i].inUse <=> i \notin S /\ v.events[i].inUse
  <2>1. CASE i \in S
    <3>1. E[i] = [v.events[i] EXCEPT !.active = FALSE, !.inUse = FALSE]
      BY <1>4, <2>1, Zenon
    <3>2. v.events[i] \in EventRequest
      BY <1>1
    <3>. QED
      BY <1>2, <2>1, <3>1, <3>2, ZenonT(60)
  <2>2. CASE i \notin S
    BY <1>1, <1>4, <2>2, Zenon
  <2>. QED
    BY <2>1, <2>2
<1>6. E \in [1 .. Len(v.events) -> EventRequest]
  BY <1>4, <1>5, Zenon
<1>7. E \in Seq(EventRequest) /\ Len(E) = Len(v.events)
  BY <1>1, <1>6
<1>8. DOMAIN E = 1 .. Len(v.events)
  BY <1>6
<1>. QED
  BY <1>1, <1>3, <1>5, <1>7, <1>8

\* What clearing the requests of S does.
LEMMA ClearFields ==
    ASSUME NEW v \in VM, NEW S \in SUBSET (DOMAIN v.events), NEW w, w = clearEvents(v, S)
    PROVE  /\ Threaded(v, w) /\ w.notify = v.notify /\ w.events = Cleared(v, S)
           /\ w.policy = v.policy /\ w.resumeOK = v.resumeOK
           /\ \A s \in Spots :
                \/ w.code[s] = v.code[s]
                     /\ \A i \in Of(v, S, "BREAKPOINT") : v.events[i].mods[1].spot # s
                \/ \E i \in Of(v, S, "BREAKPOINT") :
                     v.events[i].mods[1].spot = s /\ w.code[s] = v.events[i].opcode
<1>. DEFINE breaks(s) == {i \in Of(v, S, "BREAKPOINT") : v.events[i].mods[1].spot = s}
            last(s) == CHOOSE i \in breaks(s) : \A j \in breaks(s) : j <= i
            stepped == {v.events[i].mods[1].thread : i \in Of(v, S, "STEP")}
<1>1. /\ DOMAIN v.events = 1 .. Len(v.events) /\ Len(v.events) \in Nat
      /\ \A i \in 1 .. Len(v.events) : v.events[i] \in EventRequest
  BY RequestsType
<1>2. Cleared(v, S) \in Seq(EventRequest)
  BY ClearedType
<1>3. PICK C : C = [s \in Spots |->
                      IF breaks(s) = {} THEN v.code[s] ELSE v.events[last(s)].opcode]
  OBVIOUS
<1>4. PICK I : I = v.isStepping \ stepped
  OBVIOUS
<1>5. ASSUME NEW s \in Spots, breaks(s) # {}
      PROVE  last(s) \in breaks(s)
  <2>1. breaks(s) \in SUBSET (1 .. Len(v.events))
    BY <1>1 DEF Of
  <2>2. \E i \in breaks(s) : \A j \in breaks(s) : j <= i
    <3>. HIDE DEF breaks
    <3>. QED
      BY <1>1, <1>5, <2>1, GreatestNumber
  <2>. HIDE DEF breaks
  <2>. QED
    BY <2>2
<1>6. C \in [Spots -> Opcode]
  <2>1. \A s \in Spots : breaks(s) # {} => v.events[last(s)] \in EventRequest
    <3>1. \A s \in Spots : breaks(s) \subseteq 1 .. Len(v.events)
      BY <1>1 DEF Of
    <3>. HIDE DEF breaks, last
    <3>. QED
      BY <1>1, <1>5, <3>1
  <2>2. \A s \in Spots : v.code[s] \in Opcode
    BY DEF VM
  <2>. HIDE DEF breaks, last
  <2>. QED
    BY <1>3, <2>1, <2>2 DEF EventRequest
<1>7. I \in SUBSET Threads
  <2>. HIDE DEF stepped
  <2>. QED
    BY <1>4 DEF VM
<1>8. PICK E : E = Cleared(v, S)
  BY SMTT(60)
<1>9. w = [v EXCEPT !.events = E, !.code = C, !.isStepping = I]
  BY <1>3, <1>4, <1>8, Zenon DEF clearEvents
<1>10. w \in VM
  BY <1>2, <1>6, <1>7, <1>8, <1>9, ZenonT(60) DEF VM
<1>11. /\ Threaded(v, w) /\ w.notify = v.notify /\ w.events = E /\ w.code = C
       /\ w.policy = v.policy /\ w.resumeOK = v.resumeOK
  BY <1>9, <1>10, ZenonT(60) DEF VM, Threaded
<1>12. ASSUME NEW s \in Spots
       PROVE  \/ C[s] = v.code[s]
                   /\ \A i \in Of(v, S, "BREAKPOINT") : v.events[i].mods[1].spot # s
              \/ \E i \in Of(v, S, "BREAKPOINT") :
                   v.events[i].mods[1].spot = s /\ C[s] = v.events[i].opcode
  <2>1. CASE breaks(s) = {}
    BY <1>3, <2>1, SMTT(60)
  <2>2. CASE breaks(s) # {}
    <3>1. last(s) \in breaks(s)
      BY <1>5, <2>2, ZenonT(60)
    <3>2. PICK l \in breaks(s) : l = last(s)
      BY <3>1, ZenonT(60)
    <3>3. C[s] = v.events[l].opcode
      BY <1>3, <2>2, <3>2, Zenon
    <3>. QED
      BY <3>2, <3>3, ZenonT(60)
  <2>. QED
    BY <2>1, <2>2, SMTT(60)
<1>. QED
  BY <1>8, <1>11, <1>12

LEMMA ThreadedKeeps ==
    ASSUME NEW v \in VM, NEW w, Threaded(v, w), w.notify = v.notify, w.code = v.code,
           SameRequests(v.events, w.events)
    PROVE  Same(v, w) /\ \A D : Placed(v, D) => Placed(w, D)
<1>1. Same(v, w)
  BY DEF Threaded, Same, Position
<1>2. ASSUME NEW D, Placed(v, D)
      PROVE  Placed(w, D)
  BY <1>2 DEF Placed, Threaded
<1>. QED
  BY <1>1, <1>2

\* Clearing requests that are no breakpoints.
LEMMA ClearOthers ==
    ASSUME NEW v \in VM, NEW S \in SUBSET (DOMAIN v.events), NEW w, w = clearEvents(v, S),
           \A i \in S : v.events[i].kind # "BREAKPOINT"
    PROVE  /\ Threaded(v, w) /\ w.notify = v.notify /\ w.code = v.code
           /\ SameRequests(v.events, w.events)
           /\ w.policy = v.policy /\ w.resumeOK = v.resumeOK
<1>1. /\ Threaded(v, w) /\ w.notify = v.notify /\ w.events = Cleared(v, S)
      /\ w.policy = v.policy /\ w.resumeOK = v.resumeOK
      /\ \A s \in Spots :
           \/ w.code[s] = v.code[s]
                /\ \A i \in Of(v, S, "BREAKPOINT") : v.events[i].mods[1].spot # s
           \/ \E i \in Of(v, S, "BREAKPOINT") :
                v.events[i].mods[1].spot = s /\ w.code[s] = v.events[i].opcode
  BY ClearFields
<1>2. Of(v, S, "BREAKPOINT") = {}
  BY DEF Of
<1>3. w.code = v.code
  <2>1. w.code \in [Spots -> Opcode] /\ v.code \in [Spots -> Opcode]
    BY <1>1 DEF Threaded, VM
  <2>2. \A s \in Spots : w.code[s] = v.code[s]
    BY <1>1, <1>2
  <2>. QED
    BY <2>1, <2>2
<1>4. SameRequests(v.events, w.events)
  <2>1. w.events = Cleared(v, S) /\ DOMAIN v.events = 1 .. Len(v.events)
    BY <1>1, RequestsType
  <2>2. \A i \in DOMAIN v.events : v.events[i].kind = "BREAKPOINT" => i \notin S
    OBVIOUS
  <2>3. \A i \in 1 .. Len(v.events) :
          v.events[i].kind = "BREAKPOINT" => v.events[i].inUse \in BOOLEAN
    BY RequestsType DEF EventRequest
  <2>4. \A i \in 1 .. Len(v.events) : Cleared(v, S)[i].inUse \in BOOLEAN
    <3>1. PICK E : E = Cleared(v, S)
      OBVIOUS
    <3>2. E \in Seq(EventRequest) /\ Len(E) = Len(v.events)
      BY <3>1, ClearedType
    <3>3. \A i \in 1 .. Len(v.events) : E[i] \in EventRequest
      BY <3>2
    <3>4. \A r \in EventRequest : r.inUse \in BOOLEAN
      BY DEF EventRequest
    <3>. QED
      BY <3>1, <3>3, <3>4
  <2>. QED
    BY <2>1, <2>2, <2>3, <2>4, ClearedType DEF SameRequests
<1>. QED
  BY <1>1, <1>3, <1>4

LEMMA CountedType ==
    ASSUME NEW v \in VM, NEW e
    PROVE  /\ Counted(v, e) \in Seq(EventRequest)
           /\ SameRequests(v.events, Counted(v, e))
<1>1. /\ DOMAIN v.events = 1 .. Len(v.events) /\ Len(v.events) \in Nat
      /\ \A i \in 1 .. Len(v.events) : v.events[i] \in EventRequest
  BY RequestsType
<1>2. ASSUME NEW r \in EventRequest, NEW q, q = [r EXCEPT !.count = @ - 1]
      PROVE  /\ q \in EventRequest
             /\ q.kind = r.kind /\ q.policy = r.policy /\ q.mods = r.mods
             /\ q.opcode = r.opcode /\ q.inUse = r.inUse
  BY <1>2 DEF EventRequest
<1>3. PICK E : E = Counted(v, e)
  OBVIOUS
<1>4. E = [i \in 1 .. Len(v.events) |->
             IF v.events[i].active /\ v.events[i].kind = e.kind /\ v.events[i].countActive
             THEN [v.events[i] EXCEPT !.count = @ - 1] ELSE v.events[i]]
  BY <1>1, <1>3 DEF Counted
<1>5. \A i \in 1 .. Len(v.events) :
        /\ E[i] \in EventRequest
        /\ E[i].kind = v.events[i].kind /\ E[i].policy = v.events[i].policy
        /\ E[i].mods = v.events[i].mods
        /\ E[i].opcode = v.events[i].opcode /\ E[i].inUse = v.events[i].inUse
  BY <1>1, <1>2, <1>4
<1>6. E \in [1 .. Len(v.events) -> EventRequest]
  BY <1>1, <1>4, <1>5
<1>7. E \in Seq(EventRequest) /\ Len(E) = Len(v.events)
  BY <1>1, <1>6
<1>. QED
  BY <1>3, <1>5, <1>7 DEF SameRequests

\* Requests that are no breakpoints count down.
LEMMA CheckCountKeeps ==
    ASSUME NEW v \in VM, NEW S \in SUBSET (DOMAIN v.events), NEW w, w = checkEventCount(v, S),
           \A i \in S : v.events[i].kind # "BREAKPOINT"
    PROVE  /\ Threaded(v, w) /\ w.notify = v.notify /\ w.code = v.code
           /\ SameRequests(v.events, w.events)
           /\ w.policy = v.policy /\ w.resumeOK = v.resumeOK
<1>. DEFINE out == {i \in S : v.events[i].countActive /\ v.events[i].count = 0}
<1>1. /\ DOMAIN v.events = 1 .. Len(v.events) /\ Len(v.events) \in Nat
      /\ \A i \in 1 .. Len(v.events) : v.events[i] \in EventRequest
  BY RequestsType
<1>2. ASSUME NEW r \in EventRequest, NEW q, q = [r EXCEPT !.countActive = FALSE]
      PROVE  /\ q \in EventRequest
             /\ q.kind = r.kind /\ q.policy = r.policy /\ q.mods = r.mods
             /\ q.opcode = r.opcode /\ q.inUse = r.inUse
  BY <1>2 DEF EventRequest
<1>3. PICK E : E = [i \in 1 .. Len(v.events) |->
                      IF i \in out THEN [v.events[i] EXCEPT !.countActive = FALSE]
                      ELSE v.events[i]]
  OBVIOUS
<1>4. \A i \in 1 .. Len(v.events) :
        /\ E[i] \in EventRequest
        /\ E[i].kind = v.events[i].kind /\ E[i].policy = v.events[i].policy
        /\ E[i].mods = v.events[i].mods
        /\ E[i].opcode = v.events[i].opcode /\ E[i].inUse = v.events[i].inUse
  <2>. HIDE DEF out
  <2>. QED
    BY <1>1, <1>2, <1>3
<1>5. E \in [1 .. Len(v.events) -> EventRequest]
  <2>. HIDE DEF out
  <2>. QED
    BY <1>1, <1>3, <1>4
<1>6. E \in Seq(EventRequest) /\ Len(E) = Len(v.events) /\ DOMAIN E = DOMAIN v.events
  BY <1>1, <1>5
<1>7. SameRequests(v.events, E)
  BY <1>4, <1>6 DEF SameRequests
<1>8. PICK x : x = [v EXCEPT !.events = E]
  OBVIOUS
<1>9. x \in VM
  BY <1>6, <1>8 DEF VM
<1>10. /\ Threaded(v, x) /\ x.notify = v.notify /\ x.code = v.code /\ x.events = E
       /\ x.policy = v.policy /\ x.resumeOK = v.resumeOK
  BY <1>8, <1>9, ZenonT(60) DEF VM, Threaded
<1>11. PICK o : o = out
  OBVIOUS
<1>12. w = clearEvents(x, o)
  BY <1>1, <1>3, <1>8, <1>11 DEF checkEventCount
<1>13. o \in SUBSET (DOMAIN x.events) /\ \A i \in o : x.events[i].kind # "BREAKPOINT"
  BY <1>1, <1>4, <1>6, <1>10, <1>11
<1>14. /\ Threaded(x, w) /\ w.notify = x.notify /\ w.code = x.code
       /\ SameRequests(x.events, w.events)
       /\ w.policy = x.policy /\ w.resumeOK = x.resumeOK
  BY <1>9, <1>12, <1>13, ClearOthers
<1>15. SameRequests(v.events, w.events)
  BY <1>7, <1>10, <1>14 DEF SameRequests
<1>. QED
  BY <1>10, <1>14, <1>15 DEF Threaded

\* Reporting an event: threads of the program may be suspended, but nothing else happens
\* to it.
LEMMA SetEventKeeps ==
    ASSUME NEW v \in VM, NEW D, Placed(v, D), NEW e \in EventType, e.kind # "BREAKPOINT",
           e.thread \in OnQueue(v.all), NEW w, w = setEvent(v, e)
    PROVE  /\ Placed(w, D) /\ Same(v, w) /\ w.current \in {v.current, NIL}
           /\ w.resumeOK = v.resumeOK
           /\ (\A i \in findSatisfyingEvent(v, e) : v.events[i].policy = "NONE")
                => w.policy = "NONE" /\ w.current = v.current
<1>. DEFINE policies == {v.events[i].policy : i \in findSatisfyingEvent(v, e)}
<1>1. CASE e.kind \notin v.notify
  <2>1. w = [v EXCEPT !.policy = "NONE"]
    BY <1>1 DEF setEvent
  <2>2. w \in VM
    BY <2>1, ZenonT(60) DEF VM, Policies
  <2>3. Twin(v, w) /\ w.resumeOK = v.resumeOK /\ w.policy = "NONE"
    BY <2>1, <2>2 DEF VM, Twin, Threaded
  <2>. QED
    BY <2>3, TwinKeeps DEF Twin, Threaded
<1>2. CASE e.kind \in v.notify
  <2>1. PICK found : found = findSatisfyingEvent(v, e)
    OBVIOUS
  <2>2. PICK policy : policy = Strongest(policies)
    OBVIOUS
  <2>3. policy \in Policies
    BY <2>2 DEF Strongest, Policies
  <2>4. PICK E : E = Counted(v, e)
    OBVIOUS
  <2>5. E \in Seq(EventRequest) /\ SameRequests(v.events, E)
    BY <2>4, CountedType
  <2>6. PICK x : x = [v EXCEPT !.events = E, !.policy = policy]
    OBVIOUS
  <2>7. x \in VM
    BY <2>3, <2>5, <2>6 DEF VM
  <2>8. /\ Threaded(v, x) /\ x.notify = v.notify /\ x.code = v.code
        /\ x.events = E /\ x.policy = policy /\ x.resumeOK = v.resumeOK
    BY <2>6, <2>7, ZenonT(60) DEF VM, Threaded
  <2>9. PICK y : y = checkEventCount(x, found)
    OBVIOUS
  <2>10. w = handleSuspendPolicy(y, policy, e.thread)
    BY <1>2, <2>1, <2>2, <2>4, <2>6, <2>9 DEF setEvent
  <2>11. /\ found \in SUBSET (DOMAIN v.events)
         /\ \A i \in found : v.events[i].kind = e.kind
    BY <2>1 DEF findSatisfyingEvent
  <2>12. /\ found \in SUBSET (DOMAIN x.events)
         /\ \A i \in found : x.events[i].kind # "BREAKPOINT"
    <3>1. DOMAIN v.events = 1 .. Len(v.events) /\ DOMAIN x.events = 1 .. Len(v.events)
      BY <2>5, <2>7, <2>8, RequestsType DEF SameRequests
    <3>. QED
      BY <2>5, <2>8, <2>11, <3>1 DEF SameRequests
  <2>13. /\ Threaded(x, y) /\ y.notify = x.notify /\ y.code = x.code
         /\ SameRequests(x.events, y.events)
         /\ y.policy = x.policy /\ y.resumeOK = x.resumeOK
    BY <2>7, <2>9, <2>12, CheckCountKeeps
  <2>14. /\ Threaded(v, y) /\ y.notify = v.notify /\ y.code = v.code
         /\ SameRequests(v.events, y.events)
    BY <2>5, <2>8, <2>13 DEF Threaded, SameRequests
  <2>15. Same(v, y) /\ Placed(y, D)
    BY <2>14, ThreadedKeeps
  <2>16. y \in VM /\ e.thread \in OnQueue(y.all) /\ y.current = v.current
    BY <2>14 DEF Threaded
  <2>17. policy = "NONE" => w = y
    BY <2>10 DEF handleSuspendPolicy
  <2>18. /\ Placed(w, D) /\ Same(y, w) /\ w.current \in {v.current, NIL}
         /\ w.resumeOK = v.resumeOK /\ w.policy = policy
    <3>1. CASE policy = "NONE"
      BY <2>8, <2>13, <2>15, <2>16, <2>17, <3>1, SameRefl
    <3>2. CASE policy = "EVENT_THREAD"
      <4>1. w = suspendSpecificThread(y, e.thread)
        BY <2>10, <3>2 DEF handleSuspendPolicy
      <4>2. /\ Placed(w, D) /\ Same(y, w)
            /\ w.current = IF e.thread = y.current THEN NIL ELSE y.current
            /\ w.policy = y.policy /\ w.resumeOK = y.resumeOK
        BY <2>15, <2>16, <4>1, SuspendOneKeeps
      <4>. QED
        BY <2>8, <2>13, <2>16, <4>2
    <3>3. CASE policy = "ALL"
      <4>1. w = suspendAllThreads(y)
        BY <2>10, <3>3 DEF handleSuspendPolicy
      <4>2. /\ Placed(w, D) /\ Same(y, w) /\ w.current = NIL
            /\ w.policy = y.policy /\ w.resumeOK = y.resumeOK
        BY <2>15, <2>16, <4>1, SuspendAllKeeps
      <4>. QED
        BY <2>8, <2>13, <4>2
    <3>. QED
      BY <2>3, <3>1, <3>2, <3>3 DEF Policies
  <2>19. (\A i \in found : v.events[i].policy = "NONE") => policy = "NONE"
    BY <2>1, <2>2 DEF Strongest
  <2>20. Same(v, w)
    BY <2>15, <2>18, SameTrans
  <2>. QED
    BY <2>1, <2>16, <2>17, <2>18, <2>19, <2>20
<1>. QED
  BY <1>1, <1>2

LEMMA EventIsTyped ==
    ASSUME NEW kind \in EventKinds, NEW t \in Threads
    PROVE  Event(kind, t) \in EventType /\ Event(kind, t).kind = kind
             /\ Event(kind, t).thread = t
  BY DEF Event, EventType

LEMMA LoopStays ==
    ASSUME NEW S, NEW N \in Nat, NEW f, f[0] \in S,
           \A n \in 1..N : f[n - 1] \in S => f[n] \in S
    PROVE  f[N] \in S
<1>. DEFINE T == {n \in Nat : n <= N => f[n] \in S}
<1>1. 0 \in T
  OBVIOUS
<1>2. ASSUME NEW n \in Nat, n \in T PROVE n + 1 \in T
  <2>. SUFFICES ASSUME n + 1 <= N PROVE f[n + 1] \in S
    OBVIOUS
  <2>1. n + 1 \in 1..N /\ (n + 1) - 1 = n /\ n <= N
    OBVIOUS
  <2>. QED
    BY <1>2, <2>1
<1>3. Nat \subseteq T
  <2>. HIDE DEF T
  <2>. QED
    BY <1>1, <1>2, NatSetInduction
<1>. QED
  BY <1>3

LEMMA SendEventKeeps ==
    ASSUME NEW v \in VM, NEW D, Placed(v, D), NEW e \in EventType,
           e.kind \in {"START", "PREPARE"}, e.thread \in OnQueue(v.all),
           NEW w, w = sendEvent(v, e)
    PROVE  /\ Placed(w, D) /\ Same(v, w) /\ w.current \in {v.current, NIL}
           /\ w.resumeOK = v.resumeOK
<1>1. PICK f : f = Event(e.kind, e.thread)
  OBVIOUS
<1>2. f \in EventType /\ f.kind = e.kind /\ f.thread = e.thread
  BY <1>1, EventIsTyped DEF EventType
<1>3. w = setEvent(v, f)
  <2>1. CASE e.kind = "START"
    BY <1>1, <2>1 DEF sendEvent, setEvent_ThreadStart
  <2>2. CASE e.kind = "PREPARE"
    BY <1>1, <2>2 DEF sendEvent, setEvent_ClassPrepare
  <2>. QED
    BY <2>1, <2>2
<1>4. f.kind # "BREAKPOINT"
  BY <1>2, SMTT(60)
<1>. QED
  BY <1>2, <1>3, <1>4, SetEventKeeps

\* Sending the events that were kept for a thread.
LEMMA CheckEventKeeps ==
    ASSUME NEW v \in VM, NEW D, Placed(v, D), NEW t \in Threads,
           \A i \in DOMAIN v.debugEvent[t] :
             /\ v.debugEvent[t][i].kind \in {"START", "PREPARE"}
             /\ v.debugEvent[t][i].thread \in OnQueue(v.all),
           NEW w, w = checkDebugEvent(v, t)
    PROVE  \E x : /\ Placed(x, D) /\ Same(v, x) /\ x.current \in {v.current, NIL}
                  /\ x.resumeOK = v.resumeOK
                  /\ w = [x EXCEPT !.debugEvent[t] = <<>>]
<1>. DEFINE N == Len(v.debugEvent[t])
            sent[n \in 0 .. Len(v.debugEvent[t])] ==
                IF n = 0 THEN v ELSE sendEvent(sent[n - 1], v.debugEvent[t][n])
            S == {x \in VM : /\ Placed(x, D) /\ Same(v, x) /\ x.current \in {v.current, NIL}
                             /\ x.resumeOK = v.resumeOK}
<1>1. /\ N \in Nat
      /\ \A n \in 1..N : /\ v.debugEvent[t][n] \in EventType
                         /\ v.debugEvent[t][n].kind \in {"START", "PREPARE"}
                         /\ v.debugEvent[t][n].thread \in OnQueue(v.all)
  <2>1. v.debugEvent[t] \in Seq(EventType)
    BY DEF VM
  <2>. QED
    BY <2>1
<1>2. ASSUME NEW n \in 1..N, NEW x \in S
      PROVE  sendEvent(x, v.debugEvent[t][n]) \in S
  <2>1. PICK y, e : y = sendEvent(x, e) /\ e = v.debugEvent[t][n]
    OBVIOUS
  <2>2. e \in EventType /\ e.kind \in {"START", "PREPARE"} /\ e.thread \in OnQueue(x.all)
    BY <1>1, <2>1 DEF Same
  <2>3. /\ Placed(y, D) /\ Same(x, y) /\ y.current \in {x.current, NIL}
        /\ y.resumeOK = x.resumeOK
    BY <2>1, <2>2, SendEventKeeps
  <2>4. Same(v, y) /\ y \in VM
    BY <2>3, SameTrans DEF Same
  <2>5. y \in S
    BY <2>3, <2>4
  <2>. QED
    BY <2>1, <2>5
<1>3. PICK m \in Nat : m = N
  BY <1>1
<1>4. PICK g : g = [n \in 1..m |-> [x \in S |-> sendEvent(x, v.debugEvent[t][n])]]
  OBVIOUS
<1>5. g \in [1..m -> [S -> S]]
  <2>. HIDE DEF S, N, sent
  <2>. QED
    BY <1>2, <1>3, <1>4
<1>6. v \in S
  BY SameRefl
<1>7. PICK f \in [0..m -> S] : f[0] = v /\ \A n \in 1..m : f[n] = g[n][f[n - 1]]
  <2>. HIDE DEF S, N, sent
  <2>. QED
    BY <1>5, <1>6, LoopExists
<1>8. f = [n \in 0..N |-> IF n = 0 THEN v ELSE sendEvent(f[n - 1], v.debugEvent[t][n])]
  <2>1. \A n \in 0..m : n # 0 => f[n - 1] \in S /\ n \in 1..m
    <3>. HIDE DEF S, N, sent
    <3>. QED
      BY <1>7
  <2>2. \A n \in 0..m : n # 0 => g[n][f[n - 1]] = sendEvent(f[n - 1], v.debugEvent[t][n])
    <3>. HIDE DEF S, N, sent
    <3>. QED
      BY <1>4, <2>1
  <2>. HIDE DEF S, N, sent
  <2>. QED
    BY <1>3, <1>7, <2>1, <2>2
<1>9. /\ sent[0] = v
      /\ \A n \in 1..N : sent[n] = sendEvent(sent[n - 1], v.debugEvent[t][n])
  <2>1. sent = [n \in 0..N |-> IF n = 0 THEN v
                               ELSE sendEvent(sent[n - 1], v.debugEvent[t][n])]
    BY <1>8
  <2>2. 0 \in 0..N /\ \A n \in 1..N : n \in 0..N /\ n # 0
    BY <1>1
  <2>. HIDE DEF sent, N
  <2>. QED
    BY <2>1, <2>2
<1>10. sent[m] \in S
  <2>1. \A n \in 1..m : sent[n - 1] \in S => sent[n] \in S
    <3>. HIDE DEF S, N, sent
    <3>. QED
      BY <1>2, <1>3, <1>9
  <2>2. sent[0] \in S
    BY <1>6, <1>9
  <2>. HIDE DEF S, N, sent
  <2>. QED
    BY <2>1, <2>2, LoopStays
<1>11. w = [sent[N] EXCEPT !.debugEvent[t] = <<>>]
  BY DEF checkDebugEvent
<1>. QED
  BY <1>3, <1>10, <1>11, Zenon

----------------------------------------------------------------------------
(* Resuming threads *)

\* All but the queue and what the debugger and the scheduler note of each thread.
Standing(v, w) ==
    /\ w \in VM
    /\ w.current = v.current /\ w.ip = v.ip /\ w.ipStore = v.ipStore /\ w.all = v.all
    /\ w.alive = v.alive /\ w.nextOpcode = v.nextOpcode /\ w.debugEvent = v.debugEvent
    /\ w.ready = v.ready /\ w.told = v.told /\ w.code = v.code /\ w.events = v.events
    /\ w.notify = v.notify /\ w.timeToReschedule = v.timeToReschedule
    /\ w.resumeOK = v.resumeOK

LEMMA ResumeThreadFields ==
    ASSUME NEW v \in VM, NEW t \in Threads, NEW w, w = resumeThread(v, t)
    PROVE  /\ Standing(v, w) /\ w.count = v.count
           /\ {"SUSPENDED", "DBG_SUSPENDED"} \subseteq v.state[t] =>
                /\ w.state = [v.state EXCEPT ![t] = @ \ {"SUSPENDED"}]
                /\ w.runnable = v.runnable /\ w.fatal = v.fatal
           /\ "SUSPENDED" \in v.state[t] /\ "DBG_SUSPENDED" \notin v.state[t]
                /\ t # v.current =>
                /\ w.state = [v.state EXCEPT ![t] = {"ACTIVE"}]
                /\ w.runnable = AddThreadToQueue(v.runnable, t) /\ w.fatal = v.fatal
<1>1. v.state \in [Threads -> SUBSET Flag] /\ v.runnable \in Seq(Threads)
  BY DEF VM
<1>2. CASE "SUSPENDED" \notin v.state[t]
  <2>1. w = [v EXCEPT !.fatal = "resuming a thread that is not suspended"]
    BY <1>2, Zenon DEF resumeThread
  <2>2. w \in VM
    BY <2>1, ZenonT(60) DEF VM, FatalErrors
  <2>3. Standing(v, w) /\ w.count = v.count
    BY <2>1, <2>2, Zenon DEF VM, Standing
  <2>. QED
    BY <1>2, <2>3
<1>3. CASE {"SUSPENDED", "DBG_SUSPENDED"} \subseteq v.state[t]
  <2>1. PICK s : s = [v.state EXCEPT ![t] = @ \ {"SUSPENDED"}]
    OBVIOUS
  <2>2. w = [v EXCEPT !.state = s]
    BY <1>3, <2>1 DEF resumeThread, VM
  <2>3. s \in [Threads -> SUBSET Flag]
    BY <1>1, <2>1
  <2>4. w \in VM
    BY <2>2, <2>3, ZenonT(60) DEF VM
  <2>5. /\ Standing(v, w) /\ w.count = v.count /\ w.state = s
        /\ w.runnable = v.runnable /\ w.fatal = v.fatal
    BY <2>2, <2>4 DEF VM, Standing
  <2>. QED
    BY <1>3, <2>1, <2>5
<1>4. CASE "SUSPENDED" \in v.state[t] /\ "DBG_SUSPENDED" \notin v.state[t]
  <2>1. PICK s : s = [v.state EXCEPT ![t] = {"ACTIVE"}]
    OBVIOUS
  <2>2. s \in [Threads -> SUBSET Flag]
    BY <1>1, <2>1 DEF Flag
  <2>3. PICK a : a = [v EXCEPT !.state = s]
    OBVIOUS
  <2>4. a \in VM
    BY <2>2, <2>3 DEF VM
  <2>5. /\ Standing(v, a) /\ a.count = v.count /\ a.state = s
        /\ a.runnable = v.runnable /\ a.fatal = v.fatal
    BY <2>3, <2>4, ZenonT(60) DEF VM, Standing
  <2>6. a = [v EXCEPT !.state[t] = {"ACTIVE"}]
    BY <2>1, <2>3 DEF VM
  <2>7. CASE t = v.current
    <3>1. w = [a EXCEPT !.fatal = "resuming the current thread"]
      BY <1>4, <2>6, <2>7, Zenon DEF resumeThread
    <3>2. w \in VM
      BY <2>4, <3>1, Zenon DEF VM, FatalErrors
    <3>3. Standing(a, w) /\ w.count = a.count
      BY <2>4, <3>1, <3>2, Zenon DEF VM, Standing
    <3>. QED
      BY <1>4, <2>5, <2>7, <3>3 DEF Standing
  <2>8. CASE t # v.current
    <3>1. PICK q : q = AddThreadToQueue(v.runnable, t)
      OBVIOUS
    <3>2. q \in Seq(Threads)
      BY <1>1, <3>1, AddType
    <3>3. w = [a EXCEPT !.runnable = q]
      BY <1>4, <2>5, <2>6, <2>8, <3>1, Zenon DEF resumeThread
    <3>4. w \in VM
      BY <2>4, <3>2, <3>3, ZenonT(60) DEF VM
    <3>5. /\ Standing(a, w) /\ w.count = a.count /\ w.state = a.state
          /\ w.runnable = q /\ w.fatal = a.fatal
      BY <2>4, <3>3, <3>4 DEF VM, Standing
    <3>. QED
      BY <1>4, <2>1, <2>5, <3>1, <3>5 DEF Standing
  <2>. QED
    BY <2>7, <2>8
<1>. QED
  BY <1>2, <1>3, <1>4

LEMMA ResumeOneFields ==
    ASSUME NEW v \in VM, NEW t \in Threads, NEW w, w = resumeSpecificThread(v, t)
    PROVE  /\ Standing(v, w)
           /\ v.count[t] > 1 =>
                /\ w.count = [v.count EXCEPT ![t] = @ - 1] /\ w.state = v.state
                /\ w.runnable = v.runnable /\ w.fatal = v.fatal
           /\ v.count[t] <= 1 /\ v.state[t] \cap {"SUSPENDED", "JUST_BORN"} # {} =>
                /\ w.count = [v.count EXCEPT ![t] = 0]
                /\ w.state = [v.state EXCEPT ![t] = @ \ {"DBG_SUSPENDED"}]
                /\ w.runnable = v.runnable /\ w.fatal = v.fatal
           /\ v.count[t] <= 1 /\ v.state[t] \cap {"SUSPENDED", "JUST_BORN"} = {}
                /\ t # v.current =>
                /\ w.count = [v.count EXCEPT ![t] = 0]
                /\ w.state = [v.state EXCEPT ![t] = {"ACTIVE"}]
                /\ w.runnable = AddThreadToQueue(v.runnable, t) /\ w.fatal = v.fatal
<1>1. v.state \in [Threads -> SUBSET Flag] /\ v.count \in [Threads -> Nat]
  BY DEF VM
<1>2. CASE v.count[t] > 1
  <2>1. PICK n : n = [v.count EXCEPT ![t] = @ - 1]
    OBVIOUS
  <2>2. n \in [Threads -> Nat]
    BY <1>1, <1>2, <2>1
  <2>3. w = [v EXCEPT !.count = n]
    BY <1>2, <2>1 DEF resumeSpecificThread, VM
  <2>4. w \in VM
    BY <2>2, <2>3, ZenonT(60) DEF VM
  <2>5. /\ Standing(v, w) /\ w.count = n /\ w.state = v.state
        /\ w.runnable = v.runnable /\ w.fatal = v.fatal
    BY <2>3, <2>4 DEF VM, Standing
  <2>6. ~(v.count[t] <= 1)
    BY <1>1, <1>2
  <2>. QED
    BY <1>2, <2>1, <2>5, <2>6
<1>3. CASE ~(v.count[t] > 1)
  <2>1. PICK n : n = [v.count EXCEPT ![t] = 0]
    OBVIOUS
  <2>2. PICK s : s = [v.state EXCEPT ![t] = @ \ {"DBG_SUSPENDED"}]
    OBVIOUS
  <2>3. n \in [Threads -> Nat] /\ s \in [Threads -> SUBSET Flag]
    BY <1>1, <2>1, <2>2
  <2>4. PICK x : x = [v EXCEPT !.count = n]
    OBVIOUS
  <2>5. x \in VM
    BY <2>3, <2>4 DEF VM
  <2>6. /\ Standing(v, x) /\ x.count = n /\ x.state = v.state
        /\ x.runnable = v.runnable /\ x.fatal = v.fatal
    BY <2>4, <2>5, ZenonT(60) DEF VM, Standing
  <2>7. PICK f : f = [x EXCEPT !.state = s]
    OBVIOUS
  <2>8. f \in VM
    BY <2>3, <2>5, <2>7 DEF VM
  <2>9. /\ Standing(x, f) /\ f.count = n /\ f.state = s
        /\ f.runnable = x.runnable /\ f.fatal = x.fatal
    BY <2>5, <2>6, <2>7, <2>8, ZenonT(60) DEF VM, Standing
  <2>10. f = [v EXCEPT !.count[t] = 0, !.state[t] = @ \ {"DBG_SUSPENDED"}]
    BY <2>1, <2>2, <2>4, <2>6, <2>7 DEF VM
  <2>11. w = IF f.state[t] \cap {"SUSPENDED", "JUST_BORN"} # {} THEN f
             ELSE resumeThread([f EXCEPT !.state[t] = @ \cup {"SUSPENDED"}], t)
    BY <1>3, <2>10 DEF resumeSpecificThread
  <2>12. f.state[t] = v.state[t] \ {"DBG_SUSPENDED"}
    BY <1>1, <2>2, <2>9
  <2>13. Standing(v, f) /\ f.runnable = v.runnable /\ f.fatal = v.fatal
    BY <2>6, <2>9 DEF Standing
  <2>14. CASE v.state[t] \cap {"SUSPENDED", "JUST_BORN"} # {}
    <3>1. w = f
      BY <2>11, <2>12, <2>14
    <3>. QED
      BY <1>3, <2>1, <2>2, <2>9, <2>13, <2>14, <3>1
  <2>15. CASE v.state[t] \cap {"SUSPENDED", "JUST_BORN"} = {}
    <3>1. PICK a : a = [s EXCEPT ![t] = @ \cup {"SUSPENDED"}]
      OBVIOUS
    <3>2. a \in [Threads -> SUBSET Flag]
      BY <2>3, <3>1 DEF Flag
    <3>3. PICK y : y = [f EXCEPT !.state = a]
      OBVIOUS
    <3>4. y \in VM
      BY <2>8, <3>2, <3>3 DEF VM
    <3>5. /\ Standing(f, y) /\ y.count = n /\ y.state = a
          /\ y.runnable = f.runnable /\ y.fatal = f.fatal
      BY <2>8, <2>9, <3>3, <3>4, ZenonT(60) DEF VM, Standing
    <3>6. y = [f EXCEPT !.state[t] = @ \cup {"SUSPENDED"}]
      BY <2>9, <3>1, <3>3 DEF VM
    <3>7. w = resumeThread(y, t)
      BY <2>11, <2>12, <2>15, <3>6
    <3>8. "SUSPENDED" \in y.state[t] /\ "DBG_SUSPENDED" \notin y.state[t]
      BY <2>3, <2>9, <2>12, <3>1, <3>5
    <3>9. /\ Standing(y, w) /\ w.count = y.count
          /\ {"SUSPENDED", "DBG_SUSPENDED"} \subseteq y.state[t] =>
                /\ w.state = [y.state EXCEPT ![t] = @ \ {"SUSPENDED"}]
                /\ w.runnable = y.runnable /\ w.fatal = y.fatal
          /\ "SUSPENDED" \in y.state[t] /\ "DBG_SUSPENDED" \notin y.state[t]
               /\ t # y.current =>
                /\ w.state = [y.state EXCEPT ![t] = {"ACTIVE"}]
                /\ w.runnable = AddThreadToQueue(y.runnable, t) /\ w.fatal = y.fatal
      BY <3>4, <3>7, ResumeThreadFields
    <3>10. [y.state EXCEPT ![t] = {"ACTIVE"}] = [v.state EXCEPT ![t] = {"ACTIVE"}]
      BY <1>1, <2>2, <3>1, <3>5
    <3>11. Standing(v, w) /\ y.current = v.current
      BY <2>13, <3>5, <3>9 DEF Standing
    <3>. QED
      BY <1>3, <2>1, <2>13, <2>15, <3>5, <3>8, <3>9, <3>10, <3>11
  <2>. QED
    BY <2>14, <2>15
<1>. QED
  BY <1>2, <1>3

\* A step that changes one thread's flags, count and place on the queue.
LEMMA OneThread ==
    ASSUME NEW v \in VM, Placed(v, {}), NEW t \in Threads, NEW w \in VM,
           w.fatal = v.fatal, w.current = v.current, t # v.current, w.all = v.all,
           \A u \in Threads \ {t} : w.state[u] = v.state[u] /\ w.count[u] = v.count[u],
           Life(w.state[t]) \in Lives, w.state[t] # {"DBG_SUSPENDED"},
           Life(w.state[t]) = {} <=> Life(v.state[t]) = {},
           "DEAD" \in w.state[t] <=> "DEAD" \in v.state[t],
           "DBG_SUSPENDED" \in w.state[t] <=> w.count[t] > 0 /\ "DEAD" \notin w.state[t],
           NoDuplicates(w.runnable),
           \A u \in Threads \ {t} : u \in OnQueue(w.runnable) <=> u \in OnQueue(v.runnable),
           t \in OnQueue(w.runnable) <=> w.state[t] = {"ACTIVE"}
    PROVE  Placed(w, {})
<1>1. w.current # NIL => w.state[w.current] = {"ACTIVE"}
  <2>1. w.current # NIL => w.current \in Threads \ {t}
    BY DEF VM
  <2>. QED
    BY <2>1 DEF Placed
<1>2. ASSUME NEW u \in Threads
      PROVE  /\ Life(w.state[u]) \in Lives /\ w.state[u] # {"DBG_SUSPENDED"}
             /\ u \in OnQueue(w.runnable) <=> w.state[u] = {"ACTIVE"} /\ u # w.current
             /\ u \in OnQueue(w.all)
                  <=> Life(w.state[u]) # {} /\ ("DEAD" \in w.state[u] => u \in {})
             /\ u \notin {} =>
                  ("DBG_SUSPENDED" \in w.state[u]
                     <=> w.count[u] > 0 /\ "DEAD" \notin w.state[u])
  <2>1. /\ Life(v.state[u]) \in Lives /\ v.state[u] # {"DBG_SUSPENDED"}
        /\ u \in OnQueue(v.runnable) <=> v.state[u] = {"ACTIVE"} /\ u # v.current
        /\ u \in OnQueue(v.all)
             <=> Life(v.state[u]) # {} /\ ("DEAD" \in v.state[u] => u \in {})
        /\ u \notin {} =>
             ("DBG_SUSPENDED" \in v.state[u]
                <=> v.count[u] > 0 /\ "DEAD" \notin v.state[u])
    BY DEF Placed
  <2>2. CASE u = t
    BY <2>1, <2>2
  <2>3. CASE u # t
    BY <2>1, <2>3
  <2>. QED
    BY <2>2, <2>3
<1>3. w.fatal = "no" /\ NoDuplicates(w.all)
  BY DEF Placed
<1>. QED
  BY <1>1, <1>2, <1>3 DEF Placed

\* Resuming a thread that does not run.
LEMMA ResumeOneKeeps ==
    ASSUME NEW v \in VM, Placed(v, {}), NEW t \in OnQueue(v.all), v.state[t] # {"ACTIVE"},
           NEW w, w = resumeSpecificThread(v, t)
    PROVE  /\ Placed(w, {}) /\ Same(v, w) /\ Standing(v, w)
           /\ \A u \in Threads \ {t} : w.state[u] = v.state[u] /\ w.count[u] = v.count[u]
           /\ \A u \in Threads \ {t} : u \in OnQueue(v.runnable) => u \in OnQueue(w.runnable)
           /\ w.count[t] <= v.count[t]
           /\ v.count[t] <= 1 /\ v.state[t] \cap {"SUSPENDED", "JUST_BORN"} = {}
                => t \in OnQueue(w.runnable)
<1>1. t \in Threads /\ NIL \notin Threads
  BY PlacedQueues, DebuggerAssumption
<1>2. /\ v.state \in [Threads -> SUBSET Flag] /\ v.count \in [Threads -> Nat]
      /\ v.runnable \in Seq(Threads)
  BY DEF VM
<1>3. /\ Life(v.state[t]) \in Lives /\ Life(v.state[t]) # {} /\ "DEAD" \notin v.state[t]
      /\ "DBG_SUSPENDED" \in v.state[t] <=> v.count[t] > 0
      /\ t \notin OnQueue(v.runnable) /\ NoDuplicates(v.runnable) /\ t # v.current
  BY <1>1 DEF Placed
<1>4. /\ Standing(v, w)
      /\ v.count[t] > 1 =>
           /\ w.count = [v.count EXCEPT ![t] = @ - 1] /\ w.state = v.state
           /\ w.runnable = v.runnable /\ w.fatal = v.fatal
      /\ v.count[t] <= 1 /\ v.state[t] \cap {"SUSPENDED", "JUST_BORN"} # {} =>
           /\ w.count = [v.count EXCEPT ![t] = 0]
           /\ w.state = [v.state EXCEPT ![t] = @ \ {"DBG_SUSPENDED"}]
           /\ w.runnable = v.runnable /\ w.fatal = v.fatal
      /\ v.count[t] <= 1 /\ v.state[t] \cap {"SUSPENDED", "JUST_BORN"} = {}
           /\ t # v.current =>
           /\ w.count = [v.count EXCEPT ![t] = 0]
           /\ w.state = [v.state EXCEPT ![t] = {"ACTIVE"}]
           /\ w.runnable = AddThreadToQueue(v.runnable, t) /\ w.fatal = v.fatal
  BY <1>1, ResumeOneFields
<1>5. /\ \A u \in Threads \ {t} : w.state[u] = v.state[u] /\ w.count[u] = v.count[u]
      /\ Life(w.state[t]) = Life(v.state[t]) /\ w.state[t] # {"DBG_SUSPENDED"}
      /\ "DEAD" \notin w.state[t] /\ w.fatal = v.fatal
      /\ "DBG_SUSPENDED" \in w.state[t] <=> w.count[t] > 0
      /\ NoDuplicates(w.runnable)
      /\ \A u \in Threads \ {t} : u \in OnQueue(w.runnable) <=> u \in OnQueue(v.runnable)
      /\ t \in OnQueue(w.runnable) <=> w.state[t] = {"ACTIVE"}
      /\ w.count[t] <= v.count[t]
      /\ v.count[t] <= 1 /\ v.state[t] \cap {"SUSPENDED", "JUST_BORN"} = {}
           => t \in OnQueue(w.runnable)
  <2>1. CASE v.count[t] > 1
    <3>1. /\ w.count = [v.count EXCEPT ![t] = @ - 1] /\ w.state = v.state
          /\ w.runnable = v.runnable /\ w.fatal = v.fatal
      BY <1>4, <2>1
    <3>2. v.count[t] \in Nat /\ w.count[t] = v.count[t] - 1
      BY <1>1, <1>2, <3>1
    <3>3. \A u \in Threads \ {t} : w.state[u] = v.state[u] /\ w.count[u] = v.count[u]
      BY <1>2, <3>1
    <3>4. v.state[t] # {"DBG_SUSPENDED"}
      BY <1>3 DEF Life
    <3>5. ~(v.count[t] <= 1) /\ w.count[t] <= v.count[t] /\ w.count[t] > 0
      BY <2>1, <3>2
    <3>6. v.count[t] > 0 /\ "DBG_SUSPENDED" \in w.state[t] /\ w.state[t] = v.state[t]
      BY <1>3, <2>1, <3>1, <3>2
    <3>7. /\ t \notin OnQueue(w.runnable) /\ w.state[t] # {"ACTIVE"}
          /\ NoDuplicates(w.runnable)
      BY <1>3, <3>1, <3>6
    <3>. QED
      BY <1>3, <3>1, <3>3, <3>4, <3>5, <3>6, <3>7
  <2>2. CASE v.count[t] <= 1 /\ v.state[t] \cap {"SUSPENDED", "JUST_BORN"} # {}
    <3>1. /\ w.count = [v.count EXCEPT ![t] = 0]
          /\ w.state = [v.state EXCEPT ![t] = @ \ {"DBG_SUSPENDED"}]
          /\ w.runnable = v.runnable /\ w.fatal = v.fatal
      BY <1>4, <2>2
    <3>2. /\ w.count[t] = 0 /\ w.state[t] = v.state[t] \ {"DBG_SUSPENDED"}
          /\ v.count[t] \in Nat
      BY <1>1, <1>2, <3>1
    <3>3. \A u \in Threads \ {t} : w.state[u] = v.state[u] /\ w.count[u] = v.count[u]
      BY <1>2, <3>1
    <3>4. w.state[t] # {"ACTIVE"} /\ w.state[t] # {"DBG_SUSPENDED"}
      BY <2>2, <3>2
    <3>5. Life(w.state[t]) = Life(v.state[t]) /\ "DEAD" \notin w.state[t]
      BY <1>3, <3>2 DEF Life
    <3>6. "DBG_SUSPENDED" \notin w.state[t] /\ ~(w.count[t] > 0) /\ w.count[t] <= v.count[t]
      BY <3>2
    <3>. QED
      BY <1>3, <2>2, <3>1, <3>3, <3>4, <3>5, <3>6
  <2>3. CASE v.count[t] <= 1 /\ v.state[t] \cap {"SUSPENDED", "JUST_BORN"} = {}
    <3>1. /\ w.count = [v.count EXCEPT ![t] = 0]
          /\ w.state = [v.state EXCEPT ![t] = {"ACTIVE"}]
          /\ w.runnable = AddThreadToQueue(v.runnable, t) /\ w.fatal = v.fatal
      BY <1>3, <1>4, <2>3
    <3>2. w.count[t] = 0 /\ w.state[t] = {"ACTIVE"} /\ v.count[t] \in Nat
      BY <1>1, <1>2, <3>1
    <3>3. \A u \in Threads \ {t} : w.state[u] = v.state[u] /\ w.count[u] = v.count[u]
      BY <1>2, <3>1
    <3>4. Life(v.state[t]) = {"ACTIVE"} /\ Life(w.state[t]) = {"ACTIVE"}
      BY <1>3, <2>3, <3>2 DEF Life, Lives
    <3>5. /\ OnQueue(w.runnable) = OnQueue(v.runnable) \cup {t}
          /\ NoDuplicates(w.runnable)
      BY <1>1, <1>2, <1>3, <3>1, AddedQueue
    <3>6. ~(w.count[t] > 0) /\ w.count[t] <= v.count[t]
      BY <3>2
    <3>. QED
      BY <3>1, <3>2, <3>3, <3>4, <3>5, <3>6
  <2>4. v.count[t] > 1 \/ v.count[t] <= 1
    BY <1>1, <1>2
  <2>. QED
    BY <2>1, <2>2, <2>3, <2>4
<1>6. Placed(w, {})
  <2>1. w \in VM /\ w.current = v.current /\ w.all = v.all
    BY <1>4 DEF Standing
  <2>. QED
    BY <1>1, <1>3, <1>5, <2>1, OneThread, SMTT(60)
<1>7. Same(v, w)
  <2>1. \A u \in Threads : Life(w.state[u]) = Life(v.state[u])
    BY <1>5
  <2>. QED
    BY <1>4, <2>1 DEF Standing, Same, SameRequests, Position
<1>. QED
  BY <1>4, <1>5, <1>6, <1>7

\* VirtualMachine_Resume() when no thread runs.
LEMMA ResumeAllKeeps ==
    ASSUME NEW v \in VM, Placed(v, {}), \A t \in OnQueue(v.all) : v.state[t] # {"ACTIVE"},
           NEW w, w = VirtualMachine_Resume(v)
    PROVE  /\ Placed(w, {}) /\ Same(v, w) /\ v.current = NIL /\ w.current = NIL
           /\ w.resumeOK = TRUE
           /\ \A t \in Threads : w.count[t] <= v.count[t]
           /\ \A t \in OnQueue(v.all) :
                v.count[t] <= 1 /\ v.state[t] \cap {"SUSPENDED", "JUST_BORN"} = {}
                  => t \in OnQueue(w.runnable)
<1>. DEFINE N == Len(v.all)
            turn(n) == [x \in VM |-> resumeSpecificThread(x, v.all[n])]
            after[n \in 0 .. Len(v.all)] ==
                IF n = 0 THEN [v EXCEPT !.current = NIL]
                ELSE resumeSpecificThread(after[n - 1], v.all[n])
<1>1. /\ N \in Nat /\ v.all \in Seq(Threads) /\ NIL \notin Threads
      /\ \A n \in 1..N : v.all[n] \in OnQueue(v.all) /\ v.all[n] \in Threads
      /\ NoDuplicates(v.all) /\ DOMAIN v.all = 1..N
  BY DebuggerAssumption DEF VM, OnQueue, Placed
<1>2. v.current = NIL
  <2>1. SUFFICES ASSUME v.current # NIL PROVE FALSE
    OBVIOUS
  <2>2. v.current \in Threads /\ v.state[v.current] = {"ACTIVE"}
    BY <2>1 DEF Placed, VM
  <2>3. v.current \in OnQueue(v.all)
    BY <2>2 DEF Placed, Life
  <2>. QED
    BY <2>2, <2>3
<1>3. [v EXCEPT !.current = NIL] = v
  BY <1>2 DEF VM
<1>4. \A n \in 1..N, x \in VM : resumeSpecificThread(x, v.all[n]) \in VM
  BY <1>1, ResumeOneFields DEF Standing
<1>5. PICK m \in Nat : m = N
  BY <1>1
<1>6. PICK g : g = [n \in 1..m |-> turn(n)]
  OBVIOUS
<1>7. PICK f \in [0..m -> VM] : f[0] = v /\ \A n \in 1..m : f[n] = g[n][f[n - 1]]
  <2>2. g \in [1..m -> [VM -> VM]]
    BY <1>4, <1>5, <1>6
  <2>. HIDE DEF N, turn, after
  <2>. QED
    BY <2>2, VMLoop
<1>8. f = [n \in 0..N |-> IF n = 0 THEN [v EXCEPT !.current = NIL]
                          ELSE resumeSpecificThread(f[n - 1], v.all[n])]
  <2>1. ASSUME NEW n \in 0..m, n # 0
        PROVE  f[n - 1] \in VM /\ n \in 1..m
    BY <2>1
  <2>2. \A n \in 0..m : n # 0 => g[n][f[n - 1]] = resumeSpecificThread(f[n - 1], v.all[n])
    BY <1>6, <2>1
  <2>. HIDE DEF N, turn
  <2>. QED
    BY <1>3, <1>5, <1>7, <2>1, <2>2
<1>9. /\ after[0] = v
      /\ \A n \in 1..N : after[n] = resumeSpecificThread(after[n - 1], v.all[n])
  <2>1. after = [n \in 0..N |-> IF n = 0 THEN [v EXCEPT !.current = NIL]
                                ELSE resumeSpecificThread(after[n - 1], v.all[n])]
    BY <1>8
  <2>2. 0 \in 0..N /\ \A n \in 1..N : n \in 0..N /\ n # 0
    BY <1>1
  <2>. HIDE DEF after, N
  <2>. QED
    BY <1>3, <2>1, <2>2
<1>10. w = [after[N] EXCEPT !.allSuspended = FALSE, !.resumeOK = TRUE]
  BY DEF VirtualMachine_Resume
<1>. HIDE DEF after
<1>. DEFINE Done(n) ==
              /\ after[n] \in VM /\ Placed(after[n], {}) /\ Same(v, after[n])
              /\ after[n].current = NIL
              /\ \A i \in (n + 1)..N : /\ after[n].state[v.all[i]] = v.state[v.all[i]]
                                       /\ after[n].count[v.all[i]] = v.count[v.all[i]]
              /\ \A t \in Threads : after[n].count[t] <= v.count[t]
              /\ \A i \in 1..n :
                   v.count[v.all[i]] <= 1 /\ v.state[v.all[i]] \cap {"SUSPENDED", "JUST_BORN"} = {}
                     => v.all[i] \in OnQueue(after[n].runnable)
            T == {n \in Nat : n <= N => Done(n)}
<1>. HIDE DEF Done
<1>11. 0 \in T
  <2>1. \A t \in Threads : v.count[t] <= v.count[t]
    BY DEF VM
  <2>. QED
    BY <1>2, <1>9, <2>1, SameRefl DEF Done
<1>12. ASSUME NEW n \in Nat, n \in T
       PROVE  n + 1 \in T
  <2>. SUFFICES ASSUME n + 1 <= N PROVE Done(n + 1)
    OBVIOUS
  <2>1. n + 1 \in 1..N /\ n <= N /\ (n + 1) - 1 = n /\ n + 1 \in (n + 1)..N
    BY <1>1
  <2>2. Done(n)
    BY <1>12, <2>1
  <2>3. PICK x, y, t : x = after[n] /\ y = after[n + 1] /\ t = v.all[n + 1]
    OBVIOUS
  <2>4. y = resumeSpecificThread(x, t)
    BY <1>9, <2>1, <2>3
  <2>5. /\ x \in VM /\ Placed(x, {}) /\ Same(v, x) /\ x.current = NIL
        /\ \A i \in (n + 1)..N : /\ x.state[v.all[i]] = v.state[v.all[i]]
                                 /\ x.count[v.all[i]] = v.count[v.all[i]]
        /\ \A u \in Threads : x.count[u] <= v.count[u]
        /\ \A i \in 1..n :
             v.count[v.all[i]] <= 1 /\ v.state[v.all[i]] \cap {"SUSPENDED", "JUST_BORN"} = {}
               => v.all[i] \in OnQueue(x.runnable)
    BY <2>2, <2>3 DEF Done
  <2>6. t \in OnQueue(x.all) /\ t \in Threads /\ x.state[t] # {"ACTIVE"}
        /\ x.state[t] = v.state[t] /\ x.count[t] = v.count[t]
    BY <1>1, <2>1, <2>3, <2>5 DEF Same
  <2>7. /\ Placed(y, {}) /\ Same(x, y) /\ Standing(x, y)
        /\ \A u \in Threads \ {t} : y.state[u] = x.state[u] /\ y.count[u] = x.count[u]
        /\ \A u \in Threads \ {t} : u \in OnQueue(x.runnable) => u \in OnQueue(y.runnable)
        /\ y.count[t] <= x.count[t]
        /\ x.count[t] <= 1 /\ x.state[t] \cap {"SUSPENDED", "JUST_BORN"} = {}
             => t \in OnQueue(y.runnable)
    BY <2>4, <2>5, <2>6, ResumeOneKeeps
  <2>8. Same(v, y) /\ y \in VM /\ y.current = NIL
    BY <2>5, <2>7, SameTrans DEF Same, Standing
  <2>9. \A i \in 1..N : v.all[i] = t => i = n + 1
    BY <1>1, <2>1, <2>3 DEF NoDuplicates
  <2>10. \A i \in (n + 1 + 1)..N : /\ y.state[v.all[i]] = v.state[v.all[i]]
                                   /\ y.count[v.all[i]] = v.count[v.all[i]]
    <3>1. \A i \in (n + 1 + 1)..N : i \in (n + 1)..N /\ i \in 1..N /\ i # n + 1
      BY <1>1
    <3>. QED
      BY <1>1, <2>5, <2>7, <2>9, <3>1
  <2>11. ASSUME NEW u \in Threads PROVE y.count[u] <= v.count[u]
    BY <2>5, <2>6, <2>7
  <2>12. ASSUME NEW i \in 1..(n + 1),
                v.count[v.all[i]] <= 1,
                v.state[v.all[i]] \cap {"SUSPENDED", "JUST_BORN"} = {}
         PROVE  v.all[i] \in OnQueue(y.runnable)
    <3>1. CASE i = n + 1
      BY <2>3, <2>6, <2>7, <2>12, <3>1
    <3>2. CASE i # n + 1
      <4>1. i \in 1..n /\ i \in 1..N
        BY <1>1, <2>1, <3>2
      <4>2. v.all[i] \in Threads \ {t}
        BY <1>1, <2>9, <3>2, <4>1
      <4>. QED
        BY <2>5, <2>7, <2>12, <4>1, <4>2
    <3>. QED
      BY <3>1, <3>2
  <2>. QED
    BY <2>3, <2>7, <2>8, <2>10, <2>11, <2>12 DEF Done
<1>13. Done(N)
  <2>. HIDE DEF T
  <2>1. Nat \subseteq T
    BY <1>11, <1>12, NatSetInduction
  <2>. QED
    BY <1>1, <2>1 DEF T
<1>14. PICK x : x = after[N]
  OBVIOUS
<1>15. /\ x \in VM /\ Placed(x, {}) /\ Same(v, x) /\ x.current = NIL
       /\ \A t \in Threads : x.count[t] <= v.count[t]
       /\ \A i \in 1..N :
            v.count[v.all[i]] <= 1 /\ v.state[v.all[i]] \cap {"SUSPENDED", "JUST_BORN"} = {}
              => v.all[i] \in OnQueue(x.runnable)
  BY <1>13, <1>14 DEF Done
<1>16. Twin(x, w) /\ w.resumeOK = TRUE
  <2>1. w = [x EXCEPT !.allSuspended = FALSE, !.resumeOK = TRUE]
    BY <1>10, <1>14
  <2>2. w \in VM
    BY <1>15, <2>1, ZenonT(60) DEF VM
  <2>. QED
    BY <1>15, <2>1, <2>2, ZenonT(60) DEF VM, Twin, Threaded
<1>17. Placed(w, {}) /\ Same(x, w)
  BY <1>15, <1>16, TwinKeeps
<1>18. Same(v, w)
  BY <1>15, <1>17, SameTrans
<1>19. \A t \in OnQueue(v.all) : \E i \in 1..N : v.all[i] = t
  BY <1>1 DEF OnQueue
<1>. QED
  BY <1>2, <1>15, <1>16, <1>17, <1>18, <1>19 DEF Twin, Threaded

----------------------------------------------------------------------------
(* What stands when a step leaves the program alone *)

LEMMA SameInstalled ==
    ASSUME NEW p \in Seq(EventRequest), NEW q \in Seq(EventRequest), SameRequests(p, q)
    PROVE  /\ DOMAIN q = DOMAIN p
           /\ \A i \in DOMAIN p : Installed(q[i]) <=> Installed(p[i])
           /\ \A i \in DOMAIN p :
                /\ q[i].kind = p[i].kind /\ q[i].policy = p[i].policy /\ q[i].mods = p[i].mods
                /\ q[i].opcode = p[i].opcode
  BY DEF SameRequests, Installed

LEMMA BreaksStand ==
    ASSUME NEW v \in VM, NEW w \in VM, SameRequests(v.events, w.events), w.code = v.code,
           BreaksInv(v)
    PROVE  BreaksInv(w)
<1>1. /\ DOMAIN w.events = DOMAIN v.events
      /\ \A i \in DOMAIN v.events : Installed(w.events[i]) <=> Installed(v.events[i])
      /\ \A i \in DOMAIN v.events :
           /\ w.events[i].kind = v.events[i].kind /\ w.events[i].policy = v.events[i].policy
           /\ w.events[i].mods = v.events[i].mods
           /\ w.events[i].opcode = v.events[i].opcode
  <2>1. v.events \in Seq(EventRequest) /\ w.events \in Seq(EventRequest)
    BY DEF VM
  <2>. QED
    BY <2>1, SameInstalled
<1>. QED
  BY <1>1 DEF BreaksInv

LEMMA SaneStands ==
    ASSUME NEW v, NEW w, NEW a, NEW p, Sane(v, a, p), Same(v, w), Placed(w, {})
    PROVE  Sane(w, a, p)
<1>1. v \in VM /\ w \in VM
  BY DEF Sane, Same
<1>2. CodeInv(w)
  <2>1. BreaksInv(w)
    BY <1>1, BreaksStand DEF Sane, CodeInv, Same
  <2>. QED
    BY <2>1 DEF Sane, CodeInv, Same
<1>3. \A t \in Threads, f \in {"ACTIVE", "SUSPENDED", "DEAD"} :
        f \in w.state[t] <=> f \in v.state[t]
  <2>1. \A t \in Threads, f \in {"ACTIVE", "SUSPENDED", "DEAD"} :
          /\ f \in w.state[t] <=> f \in Life(w.state[t])
          /\ f \in v.state[t] <=> f \in Life(v.state[t])
    BY DEF Life
  <2>. QED
    BY <2>1 DEF Same
<1>4. {t \in Threads : "ACTIVE" \in w.state[t]} = {t \in Threads : "ACTIVE" \in v.state[t]}
  BY <1>3
<1>. QED
  BY <1>1, <1>2, <1>3, <1>4 DEF Sane, Same

\* The values that a step ends with: what was of use within it is forgotten.
Settled(w) == [w EXCEPT !.told = {}, !.policy = "NONE", !.resumeOK = FALSE]

LEMMA SettledFields ==
    ASSUME NEW w \in VM, NEW x, x = Settled(w)
    PROVE  /\ x \in VM /\ x.told = {} /\ ~x.resumeOK
           /\ x.current = w.current /\ x.runnable = w.runnable /\ x.state = w.state
           /\ x.count = w.count /\ x.ip = w.ip /\ x.ipStore = w.ipStore /\ x.fatal = w.fatal
           /\ x.all = w.all /\ x.alive = w.alive /\ x.nextOpcode = w.nextOpcode
           /\ x.debugEvent = w.debugEvent /\ x.ready = w.ready
           /\ x.code = w.code /\ x.events = w.events /\ x.notify = w.notify
           /\ x.timeToReschedule = w.timeToReschedule
<1>1. x \in VM
  BY DEF VM, Settled, Policies
<1>. QED
  BY <1>1, ZenonT(60) DEF VM, Settled

LEMMA SettledSane ==
    ASSUME NEW w, NEW a, NEW p, Sane(w, a, p), NEW x, x = Settled(w)
    PROVE  Sane(x, a, p)
<1>1. w \in VM
  BY DEF Sane
<1>2. /\ x \in VM
      /\ x.current = w.current /\ x.runnable = w.runnable /\ x.state = w.state
      /\ x.count = w.count /\ x.ip = w.ip /\ x.ipStore = w.ipStore /\ x.fatal = w.fatal
      /\ x.all = w.all /\ x.alive = w.alive /\ x.ready = w.ready
      /\ x.code = w.code /\ x.events = w.events /\ x.notify = w.notify
  BY <1>1, SettledFields
<1>3. Placed(x, {})
  BY <1>2 DEF Sane, Placed
<1>4. CodeInv(x)
  BY <1>2 DEF Sane, CodeInv, BreaksInv
<1>. QED
  BY <1>2, <1>3, <1>4 DEF Sane, Position

\* What a thread that does not move has still to do with a breakpoint.
LEMMA HitStands ==
    ASSUME hit \in [Threads -> {"no", "due", "told"}], NEW w \in VM, w.told = {},
           place' = place, Becomes(w, {}), NEW alert,
           \A t \in Threads : alert /\ "DEAD" \notin w.state[t] =>
                /\ hit[t] = "due" => w.nextOpcode[t] # "op"
                /\ hit[t] = "told" => w.nextOpcode[t] = "op"
                /\ w.nextOpcode[t] = "BREAKPOINT" => w.code[place[t]] = "BREAKPOINT"
    PROVE  /\ hit' \in [Threads -> {"no", "due", "told"}]
           /\ HitInv(vm', place', hit', alert)
<1>1. vm' = Settled(w) /\ hit' = Hit(w, {})
  BY DEF Becomes, Settled
<1>2. /\ vm'.state = w.state /\ vm'.code = w.code /\ vm'.nextOpcode = w.nextOpcode
  BY <1>1, SettledFields
<1>3. ASSUME NEW t \in Threads
      PROVE  hit'[t] = IF w.code[place[t]] = "BREAKPOINT" /\ "DEAD" \notin w.state[t]
                       THEN hit[t] ELSE "no"
  BY <1>1 DEF Hit
<1>4. hit' \in [Threads -> {"no", "due", "told"}]
  <2>1. hit' = [t \in Threads |-> hit'[t]]
    BY <1>1 DEF Hit
  <2>2. \A t \in Threads : hit'[t] \in {"no", "due", "told"}
    BY <1>3
  <2>. QED
    BY <2>1, <2>2
<1>5. HitInv(vm', place', hit', alert)
  BY <1>2, <1>3 DEF HitInv
<1>. QED
  BY <1>4, <1>5

\* The data after a step in which no thread moves and nothing happens to the program.
LEMMA SameStep ==
    ASSUME Data, NEW w, Same(vm, w), Placed(w, {}), place' = place, asleep' = asleep,
           Becomes(w, {}), w.ready /\ at' # "exit" => at # "exit"
    PROVE  Data'
<1>1. vm \in VM /\ w \in VM
  BY DEF Data, Sane, Same
<1>2. Sane(w, asleep, place)
  BY SaneStands DEF Data
<1>3. vm' = Settled(w)
  BY DEF Becomes, Settled
<1>4. Sane(vm', asleep', place')
  BY <1>2, <1>3, SettledSane
<1>5. ~vm'.resumeOK /\ vm'.told = {} /\ vm'.ready = w.ready
  BY <1>1, <1>3, SettledFields
<1>6. /\ hit' \in [Threads -> {"no", "due", "told"}]
      /\ HitInv(vm', place', hit', Alert')
  <2>1. hit \in [Threads -> {"no", "due", "told"}] /\ w.told = {}
    BY DEF Data, Same
  <2>2. Alert' => Alert
    BY <1>5 DEF Alert, Same
  <2>3. \A t \in Threads : "DEAD" \notin w.state[t] => "DEAD" \notin vm.state[t]
    BY DEF Same, Life
  <2>4. \A t \in Threads : Alert' /\ "DEAD" \notin w.state[t] =>
                /\ hit[t] = "due" => w.nextOpcode[t] # "op"
                /\ hit[t] = "told" => w.nextOpcode[t] = "op"
                /\ w.nextOpcode[t] = "BREAKPOINT" => w.code[place[t]] = "BREAKPOINT"
    BY <2>2, <2>3 DEF Data, HitInv, Same
  <2>. QED
    BY <1>1, <2>1, <2>4, HitStands
<1>7. asleep' \subseteq Threads /\ place' \in [Threads -> Spots]
  BY DEF Data
<1>. QED
  BY <1>4, <1>5, <1>6, <1>7 DEF Data

----------------------------------------------------------------------------
(* Switching threads *)

\* The first thread of the queue becomes the current one.
LEMMA FirstRuns ==
    ASSUME NEW v \in VM, Placed(v, {}), v.current = NIL, v.runnable # <<>>,
           NEW w \in VM, w.current = Head(v.runnable), w.runnable = Tail(v.runnable),
           w.ip = v.ipStore[Head(v.runnable)], w.ipStore = v.ipStore,
           w.state = v.state, w.count = v.count, w.all = v.all, w.fatal = v.fatal,
           w.alive = v.alive, w.code = v.code, w.nextOpcode = v.nextOpcode,
           w.debugEvent = v.debugEvent, w.events = v.events, w.notify = v.notify,
           w.ready = v.ready, w.told = v.told
    PROVE  Placed(w, {}) /\ Same(v, w) /\ w.current # NIL
<1>. DEFINE h == Head(v.runnable)
<1>1. NIL \notin Threads /\ v.runnable \in Seq(Threads) /\ NoDuplicates(v.runnable)
  BY DebuggerAssumption DEF VM, Placed
<1>2. h \in Threads /\ h \in OnQueue(v.runnable)
  BY <1>1, QueueMember
<1>3. /\ OnQueue(w.runnable) = OnQueue(v.runnable) \ {h} /\ NoDuplicates(w.runnable)
  BY <1>1, TailQueue
<1>. HIDE DEF h
<1>4. w.current = h
  BY DEF h
<1>5. w.state[h] = {"ACTIVE"}
  BY <1>2 DEF Placed
<1>6. Placed(w, {})
  <2>1. ASSUME NEW u \in Threads
        PROVE  /\ Life(w.state[u]) \in Lives /\ w.state[u] # {"DBG_SUSPENDED"}
               /\ u \in OnQueue(w.runnable) <=> w.state[u] = {"ACTIVE"} /\ u # w.current
               /\ u \in OnQueue(w.all)
                    <=> Life(w.state[u]) # {} /\ ("DEAD" \in w.state[u] => u \in {})
               /\ u \notin {} =>
                    ("DBG_SUSPENDED" \in w.state[u]
                       <=> w.count[u] > 0 /\ "DEAD" \notin w.state[u])
    <3>1. /\ Life(v.state[u]) \in Lives /\ v.state[u] # {"DBG_SUSPENDED"}
          /\ u \in OnQueue(v.runnable) <=> v.state[u] = {"ACTIVE"} /\ u # v.current
          /\ u \in OnQueue(v.all)
               <=> Life(v.state[u]) # {} /\ ("DEAD" \in v.state[u] => u \in {})
          /\ u \notin {} =>
               ("DBG_SUSPENDED" \in v.state[u]
                  <=> v.count[u] > 0 /\ "DEAD" \notin v.state[u])
      BY DEF Placed
    <3>2. u # v.current
      BY <1>1
    <3>. QED
      BY <1>3, <1>4, <3>1, <3>2
  <2>2. w.fatal = "no" /\ NoDuplicates(w.all)
    BY DEF Placed
  <2>. QED
    BY <1>3, <1>4, <1>5, <2>1, <2>2 DEF Placed
<1>7. \A t \in Threads : Position(w, t) = Position(v, t)
  <2>1. w.ip = v.ipStore[h]
    BY DEF h
  <2>. QED
    BY <1>1, <1>4, <2>1 DEF Position
<1>8. Same(v, w)
  BY <1>7 DEF Same, SameRequests
<1>. QED
  BY <1>1, <1>2, <1>4, <1>6, <1>8

\* The current thread joins the queue, as the first half of switching.
LEMMA CurrentQueues ==
    ASSUME NEW v \in VM, Placed(v, {}), v.current # NIL,
           NEW w \in VM, w.current = NIL, w.runnable = AddThreadToQueue(v.runnable, v.current),
           w.ipStore = [v.ipStore EXCEPT ![v.current] = v.ip],
           w.state = v.state, w.count = v.count, w.all = v.all, w.fatal = v.fatal,
           w.alive = v.alive, w.code = v.code, w.nextOpcode = v.nextOpcode,
           w.debugEvent = v.debugEvent, w.events = v.events, w.notify = v.notify,
           w.ready = v.ready, w.told = v.told
    PROVE  Placed(w, {}) /\ Same(v, w) /\ w.runnable = Append(v.runnable, v.current)
<1>. DEFINE c == v.current
<1>1. /\ NIL \notin Threads /\ c \in Threads /\ v.runnable \in Seq(Threads)
      /\ NoDuplicates(v.runnable) /\ v.ipStore \in [Threads -> Spots]
  BY DebuggerAssumption DEF VM, Placed
<1>2. c \notin OnQueue(v.runnable) /\ v.state[c] = {"ACTIVE"}
  BY <1>1 DEF Placed
<1>3. /\ w.runnable = Append(v.runnable, c)
      /\ OnQueue(w.runnable) = OnQueue(v.runnable) \cup {c} /\ NoDuplicates(w.runnable)
  BY <1>1, <1>2, AddedQueue
<1>4. Placed(w, {})
  <2>1. ASSUME NEW u \in Threads
        PROVE  /\ Life(w.state[u]) \in Lives /\ w.state[u] # {"DBG_SUSPENDED"}
               /\ u \in OnQueue(w.runnable) <=> w.state[u] = {"ACTIVE"} /\ u # w.current
               /\ u \in OnQueue(w.all)
                    <=> Life(w.state[u]) # {} /\ ("DEAD" \in w.state[u] => u \in {})
               /\ u \notin {} =>
                    ("DBG_SUSPENDED" \in w.state[u]
                       <=> w.count[u] > 0 /\ "DEAD" \notin w.state[u])
    <3>1. /\ Life(v.state[u]) \in Lives /\ v.state[u] # {"DBG_SUSPENDED"}
          /\ u \in OnQueue(v.runnable) <=> v.state[u] = {"ACTIVE"} /\ u # c
          /\ u \in OnQueue(v.all)
               <=> Life(v.state[u]) # {} /\ ("DEAD" \in v.state[u] => u \in {})
          /\ u \notin {} =>
               ("DBG_SUSPENDED" \in v.state[u]
                  <=> v.count[u] > 0 /\ "DEAD" \notin v.state[u])
      BY DEF Placed
    <3>2. u # w.current
      BY <1>1
    <3>. QED
      BY <1>2, <1>3, <3>1, <3>2
  <2>2. w.fatal = "no" /\ NoDuplicates(w.all) /\ w.current = NIL
    BY DEF Placed
  <2>. QED
    BY <1>3, <2>1, <2>2 DEF Placed
<1>5. \A t \in Threads : Position(w, t) = Position(v, t)
  BY <1>1 DEF Position
<1>6. Same(v, w)
  BY <1>5 DEF Same, SameRequests
<1>. QED
  BY <1>3, <1>4, <1>6

LEMMA AppendedQueue ==
    ASSUME NEW S, NEW q \in Seq(S), q # <<>>, NEW c \in S
    PROVE  Head(Append(q, c)) = Head(q) /\ Tail(Append(q, c)) = Append(Tail(q), c)
<1>1. /\ Append(q, c) \in Seq(S) /\ Append(q, c) # <<>> /\ Len(q) \in Nat \ {0}
      /\ Len(Append(q, c)) = Len(q) + 1
      /\ \A i \in 1..Len(q) : Append(q, c)[i] = q[i]
      /\ Append(q, c)[Len(q) + 1] = c
  OBVIOUS
<1>2. /\ Head(q) = q[1] /\ Head(Append(q, c)) = Append(q, c)[1]
      /\ Tail(q) \in Seq(S) /\ Len(Tail(q)) = Len(q) - 1
      /\ \A i \in 1..Len(Tail(q)) : Tail(q)[i] = q[i + 1]
      /\ Tail(Append(q, c)) \in Seq(S) /\ Len(Tail(Append(q, c))) = Len(q)
      /\ \A i \in 1..Len(q) : Tail(Append(q, c))[i] = Append(q, c)[i + 1]
  BY <1>1, HeadTailProperties
<1>3. Head(Append(q, c)) = Head(q)
  BY <1>1, <1>2
<1>4. PICK a, b : a = Tail(Append(q, c)) /\ b = Append(Tail(q), c)
  BY Zenon
<1>5. /\ b \in Seq(S) /\ Len(b) = Len(q)
      /\ \A i \in 1..(Len(q) - 1) : b[i] = q[i + 1]
      /\ b[Len(q)] = c
  BY <1>1, <1>2, <1>4
<1>6. \A i \in 1..Len(q) : a[i] = b[i]
  <2>1. \A i \in 1..Len(q) : i = Len(q) \/ i \in 1..(Len(q) - 1)
    BY <1>1
  <2>2. \A i \in 1..(Len(q) - 1) : i \in 1..Len(q) /\ i + 1 \in 1..Len(q)
    BY <1>1
  <2>. QED
    BY <1>1, <1>2, <1>4, <1>5, <2>1, <2>2, Zenon
<1>7. a = b
  <2>1. a \in Seq(S) /\ b \in Seq(S) /\ Len(a) = Len(q) /\ Len(b) = Len(q)
    BY <1>2, <1>4, <1>5
  <2>. QED
    BY <1>6, <2>1, SeqEqual
<1>. QED
  BY <1>3, <1>4, <1>7

LEMMA SwitchKeeps ==
    ASSUME NEW v \in VM, Placed(v, {}), NEW w, w = SwitchThread(v)
    PROVE  Placed(w, {}) /\ Same(v, w)
<1>1. v.runnable \in Seq(Threads) /\ v.ipStore \in [Threads -> Spots]
  BY DEF VM
<1>2. v.current # NIL => v.state[v.current] = {"ACTIVE"} /\ v.current \in Threads
  BY DEF Placed, VM
<1>3. CASE v.current # NIL /\ v.runnable # <<>>
  <2>1. PICK c, s : c = v.current /\ s = [v.ipStore EXCEPT ![v.current] = v.ip]
    OBVIOUS
  <2>2. PICK q : q = AddThreadToQueue(v.runnable, c)
    OBVIOUS
  <2>3. q \in Seq(Threads) /\ s \in [Threads -> Spots] /\ c \in Threads
    BY <1>1, <1>2, <1>3, <2>1, <2>2, AddType DEF VM
  <2>4. PICK x : x = [v EXCEPT !.current = NIL, !.runnable = q, !.ipStore = s]
    OBVIOUS
  <2>5. x \in VM
    BY <2>3, <2>4 DEF VM
  <2>6. /\ x.current = NIL /\ x.runnable = q /\ x.ipStore = s
        /\ x.state = v.state /\ x.count = v.count /\ x.all = v.all /\ x.fatal = v.fatal
        /\ x.alive = v.alive /\ x.code = v.code /\ x.nextOpcode = v.nextOpcode
        /\ x.debugEvent = v.debugEvent /\ x.events = v.events /\ x.notify = v.notify
        /\ x.ready = v.ready /\ x.told = v.told
    BY <2>4, <2>5 DEF VM
  <2>7. Placed(x, {}) /\ Same(v, x) /\ q = Append(v.runnable, c)
    BY <1>3, <2>1, <2>2, <2>5, <2>6, CurrentQueues, ZenonT(60)
  <2>8. PICK h, r, n : h = Head(v.runnable) /\ r = Tail(v.runnable) /\ n = AddThreadToQueue(r, c)
    OBVIOUS
  <2>9. h \in Threads /\ r \in Seq(Threads) /\ n \in Seq(Threads) /\ s[h] \in Spots
    BY <1>1, <1>3, <2>3, <2>8, HeadTailProperties, AddType
  <2>10. h = Head(q) /\ n = Tail(q)
    <3>1. c \notin OnQueue(v.runnable)
      BY <2>1, <2>3 DEF Placed
    <3>2. OnQueue(r) \subseteq OnQueue(v.runnable)
      BY <1>1, <1>3, <2>8, TailQueue DEF Placed
    <3>3. n = Append(r, c)
      BY <2>3, <2>8, <2>9, <3>1, <3>2, AddedQueue
    <3>. QED
      BY <1>1, <1>3, <2>3, <2>7, <2>8, <3>3, AppendedQueue
  <2>11. PICK y : y = [v EXCEPT !.ipStore = s, !.current = h, !.runnable = n,
                                !.timeToReschedule = FALSE]
    OBVIOUS
  <2>12. y \in VM
    BY <2>3, <2>9, <2>11 DEF VM
  <2>13. /\ y.current = h /\ y.runnable = n /\ y.ipStore = s
         /\ y.state = v.state /\ y.count = v.count /\ y.all = v.all /\ y.fatal = v.fatal
         /\ y.alive = v.alive /\ y.code = v.code /\ y.nextOpcode = v.nextOpcode
         /\ y.debugEvent = v.debugEvent /\ y.events = v.events /\ y.notify = v.notify
         /\ y.ready = v.ready /\ y.told = v.told
    BY <2>11, <2>12 DEF VM
  <2>14. w = [y EXCEPT !.ip = s[h]]
    <3>1. w = LET stored == storeExecutionEnvironment(v, v.current)
                  next == [removeFirstRunnableThread(stored) EXCEPT
                             !.runnable = AddThreadToQueue(@, v.current),
                             !.timeToReschedule = FALSE]
              IN loadExecutionEnvironment(next, next.current)
      BY <1>2, <1>3, Zenon DEF SwitchThread
    <3>2. PICK a : a = [v EXCEPT !.ipStore = s]
      OBVIOUS
    <3>3. a = storeExecutionEnvironment(v, v.current)
      BY <2>1, <3>2 DEF storeExecutionEnvironment, VM
    <3>4. a \in VM /\ a.runnable = v.runnable
      BY <2>3, <3>2 DEF VM
    <3>5. PICK b : b = [a EXCEPT !.current = h, !.runnable = r]
      OBVIOUS
    <3>6. b = removeFirstRunnableThread(a) /\ b.runnable = r
      BY <2>8, <3>4, <3>5 DEF removeFirstRunnableThread, VM
    <3>7. [b EXCEPT !.runnable = AddThreadToQueue(@, v.current), !.timeToReschedule = FALSE] = y
      BY <2>1, <2>8, <2>11, <3>2, <3>5, <3>6 DEF VM
    <3>8. w = loadExecutionEnvironment(y, y.current)
      BY <3>1, <3>3, <3>6, <3>7
    <3>. QED
      BY <2>13, <3>8 DEF loadExecutionEnvironment
  <2>15. w \in VM
    BY <2>9, <2>12, <2>14 DEF VM
  <2>16. /\ w.ip = s[h] /\ w.current = h /\ w.runnable = n /\ w.ipStore = s
         /\ w.state = y.state /\ w.count = y.count /\ w.all = y.all /\ w.fatal = y.fatal
         /\ w.alive = y.alive /\ w.code = y.code /\ w.nextOpcode = y.nextOpcode
         /\ w.debugEvent = y.debugEvent /\ w.events = y.events /\ w.notify = y.notify
         /\ w.ready = y.ready /\ w.told = y.told
    BY <2>12, <2>13, <2>14, <2>15 DEF VM
  <2>17. q # <<>>
    BY <1>1, <2>3, <2>7
  <2>18. /\ x.runnable # <<>> /\ w.current = Head(x.runnable) /\ w.runnable = Tail(x.runnable)
         /\ w.ip = x.ipStore[Head(x.runnable)] /\ w.ipStore = x.ipStore
         /\ w.state = x.state /\ w.count = x.count /\ w.all = x.all /\ w.fatal = x.fatal
         /\ w.alive = x.alive /\ w.code = x.code /\ w.nextOpcode = x.nextOpcode
         /\ w.debugEvent = x.debugEvent /\ w.events = x.events /\ w.notify = x.notify
         /\ w.ready = x.ready /\ w.told = x.told
    BY <2>6, <2>10, <2>13, <2>16, <2>17
  <2>19. Placed(w, {}) /\ Same(x, w)
    BY <2>5, <2>6, <2>7, <2>15, <2>18, FirstRuns
  <2>. QED
    BY <2>7, <2>19, SameTrans
<1>4. CASE v.current = NIL /\ v.runnable # <<>>
  <2>1. PICK h, r : h = Head(v.runnable) /\ r = Tail(v.runnable)
    OBVIOUS
  <2>2. h \in Threads /\ r \in Seq(Threads) /\ v.ipStore[h] \in Spots
    BY <1>1, <1>4, <2>1, HeadTailProperties
  <2>3. PICK y : y = [v EXCEPT !.current = h, !.runnable = r, !.timeToReschedule = FALSE]
    OBVIOUS
  <2>4. y \in VM
    BY <2>2, <2>3 DEF VM
  <2>5. /\ y.current = h /\ y.runnable = r /\ y.ipStore = v.ipStore
        /\ y.state = v.state /\ y.count = v.count /\ y.all = v.all /\ y.fatal = v.fatal
        /\ y.alive = v.alive /\ y.code = v.code /\ y.nextOpcode = v.nextOpcode
        /\ y.debugEvent = v.debugEvent /\ y.events = v.events /\ y.notify = v.notify
        /\ y.ready = v.ready /\ y.told = v.told
    BY <2>3, <2>4 DEF VM
  <2>6. w = [y EXCEPT !.ip = v.ipStore[h]]
    <3>1. w = LET next == [removeFirstRunnableThread(v) EXCEPT !.timeToReschedule = FALSE]
              IN loadExecutionEnvironment(next, next.current)
      BY <1>4 DEF SwitchThread
    <3>2. [removeFirstRunnableThread(v) EXCEPT !.timeToReschedule = FALSE] = y
      BY <2>1, <2>3 DEF removeFirstRunnableThread, VM
    <3>3. w = loadExecutionEnvironment(y, y.current)
      BY <3>1, <3>2
    <3>. QED
      BY <2>5, <3>3 DEF loadExecutionEnvironment
  <2>7. w \in VM
    BY <2>2, <2>4, <2>6 DEF VM
  <2>8. /\ w.ip = v.ipStore[h] /\ w.current = h /\ w.runnable = r /\ w.ipStore = y.ipStore
        /\ w.state = y.state /\ w.count = y.count /\ w.all = y.all /\ w.fatal = y.fatal
        /\ w.alive = y.alive /\ w.code = y.code /\ w.nextOpcode = y.nextOpcode
        /\ w.debugEvent = y.debugEvent /\ w.events = y.events /\ w.notify = y.notify
        /\ w.ready = y.ready /\ w.told = y.told
    BY <2>4, <2>5, <2>6, <2>7 DEF VM
  <2>. QED
    BY <1>4, <2>1, <2>5, <2>7, <2>8, FirstRuns
<1>5. CASE v.runnable = <<>>
  <2>1. PICK b \in BOOLEAN : w = [v EXCEPT !.timeToReschedule = b]
    <3>1. w = [v EXCEPT !.timeToReschedule = FALSE] \/ w = v
      BY <1>2, <1>5, Zenon DEF SwitchThread
    <3>2. v.timeToReschedule \in BOOLEAN /\ v = [v EXCEPT !.timeToReschedule = v.timeToReschedule]
      BY DEF VM
    <3>. QED
      BY <3>1, <3>2
  <2>2. w \in VM
    BY <2>1, ZenonT(60) DEF VM
  <2>3. Twin(v, w)
    BY <2>1, <2>2 DEF VM, Twin, Threaded
  <2>. QED
    BY <2>3, TwinKeeps
<1>. QED
  BY <1>3, <1>4, <1>5

LEMMA StartedKeeps ==
    ASSUME NEW v \in VM, Placed(v, {}), v.current # NIL \/ v.runnable # <<>>,
           NEW w, w = Started(v)
    PROVE  Placed(w, {}) /\ Same(v, w) /\ w.current # NIL
<1>1. v.runnable \in Seq(Threads) /\ v.ipStore \in [Threads -> Spots]
  BY DEF VM
<1>2. CASE v.current # NIL
  <2>1. w = v
    BY <1>2 DEF Started
  <2>. QED
    BY <1>2, <2>1, SameRefl
<1>3. CASE v.current = NIL
  <2>1. PICK h, r : h = Head(v.runnable) /\ r = Tail(v.runnable)
    OBVIOUS
  <2>2. h \in Threads /\ r \in Seq(Threads) /\ v.ipStore[h] \in Spots
    BY <1>1, <1>3, <2>1, HeadTailProperties
  <2>3. PICK y : y = [v EXCEPT !.current = h, !.runnable = r]
    OBVIOUS
  <2>4. y \in VM
    BY <2>2, <2>3 DEF VM
  <2>5. /\ y.current = h /\ y.runnable = r /\ y.ipStore = v.ipStore
        /\ y.state = v.state /\ y.count = v.count /\ y.all = v.all /\ y.fatal = v.fatal
        /\ y.alive = v.alive /\ y.code = v.code /\ y.nextOpcode = v.nextOpcode
        /\ y.debugEvent = v.debugEvent /\ y.events = v.events /\ y.notify = v.notify
        /\ y.ready = v.ready /\ y.told = v.told
    BY <2>3, <2>4 DEF VM
  <2>6. w = [y EXCEPT !.ip = v.ipStore[h]]
    <3>1. w = LET first == removeFirstRunnableThread(v)
              IN loadExecutionEnvironment(first, first.current)
      BY <1>3 DEF Started
    <3>2. removeFirstRunnableThread(v) = y
      BY <2>1, <2>3 DEF removeFirstRunnableThread, VM
    <3>3. w = loadExecutionEnvironment(y, y.current)
      BY <3>1, <3>2
    <3>. QED
      BY <2>5, <3>3 DEF loadExecutionEnvironment
  <2>7. w \in VM
    BY <2>2, <2>4, <2>6 DEF VM
  <2>8. /\ w.ip = v.ipStore[h] /\ w.current = h /\ w.runnable = r /\ w.ipStore = y.ipStore
        /\ w.state = y.state /\ w.count = y.count /\ w.all = y.all /\ w.fatal = y.fatal
        /\ w.alive = y.alive /\ w.code = y.code /\ w.nextOpcode = y.nextOpcode
        /\ w.debugEvent = y.debugEvent /\ w.events = y.events /\ w.notify = y.notify
        /\ w.ready = y.ready /\ w.told = y.told
    BY <2>4, <2>5, <2>6, <2>7 DEF VM
  <2>. QED
    BY <1>3, <2>1, <2>5, <2>7, <2>8, FirstRuns
<1>. QED
  BY <1>2, <1>3

----------------------------------------------------------------------------
(* Commands *)

LEMMA PreparesKeep ==
    ASSUME NEW v \in VM, Placed(v, {}), v.current # NIL, NEW w, w = sendAllClassPrepares(v)
    PROVE  Placed(w, {}) /\ Same(v, w)
<1>1. PICK t, e : t = v.current /\ e = Event("PREPARE", t)
  OBVIOUS
<1>2. t \in Threads /\ t \in OnQueue(v.all)
  BY <1>1 DEF Placed, VM, Life
<1>3. e \in EventType /\ e.kind # "BREAKPOINT" /\ e.thread = t
  BY <1>1, <1>2, EventIsTyped DEF EventKinds
<1>4. w = setEvent(v, e)
  BY <1>1 DEF sendAllClassPrepares, setEvent_ClassPrepare
<1>. QED
  BY <1>2, <1>3, <1>4, SetEventKeeps

\* What a thread that does not move needs, when vm becomes v.
Halts(v, alert) ==
    \A t \in Threads : alert /\ "DEAD" \notin v.state[t] =>
        /\ hit[t] = "due" => v.nextOpcode[t] # "op"
        /\ hit[t] = "told" => v.nextOpcode[t] = "op"
        /\ v.nextOpcode[t] = "BREAKPOINT" => v.code[place[t]] = "BREAKPOINT"

LEMMA HaltsStands ==
    ASSUME NEW v, NEW alert, Halts(v, alert), NEW w, Same(v, w)
    PROVE  Halts(w, alert)
<1>1. \A t \in Threads : "DEAD" \notin w.state[t] => "DEAD" \notin v.state[t]
  BY DEF Same, Life
<1>. QED
  BY <1>1 DEF Halts, Same

LEMMA DataHalts ==
    ASSUME Data, NEW w, Same(vm, w), NEW alert, alert => Alert
    PROVE  Halts(w, alert)
<1>1. Halts(vm, alert)
  BY DEF Data, HitInv, Halts
<1>. QED
  BY <1>1, HaltsStands

\* The data after any step in which no thread moves.
LEMMA Settle ==
    ASSUME Data, NEW w, Sane(w, asleep', place), w.told = {}, Halts(w, w.ready /\ at' # "exit"),
           place' = place, asleep' \subseteq Threads, Becomes(w, {})
    PROVE  Data'
<1>1. w \in VM /\ hit \in [Threads -> {"no", "due", "told"}]
  BY DEF Sane, Data
<1>2. vm' = Settled(w)
  BY DEF Becomes, Settled
<1>3. Sane(vm', asleep', place')
  BY <1>2, SettledSane
<1>4. ~vm'.resumeOK /\ vm'.told = {} /\ vm'.ready = w.ready
  BY <1>1, <1>2, SettledFields
<1>5. PICK alert : alert = Alert'
  OBVIOUS
<1>6. alert <=> w.ready /\ at' # "exit"
  BY <1>4, <1>5 DEF Alert
<1>7. /\ hit' \in [Threads -> {"no", "due", "told"}]
      /\ HitInv(vm', place', hit', alert)
  <2>1. \A t \in Threads : alert /\ "DEAD" \notin w.state[t] =>
                /\ hit[t] = "due" => w.nextOpcode[t] # "op"
                /\ hit[t] = "told" => w.nextOpcode[t] = "op"
                /\ w.nextOpcode[t] = "BREAKPOINT" => w.code[place[t]] = "BREAKPOINT"
    BY <1>6 DEF Halts
  <2>. QED
    BY <1>1, <2>1, HitStands
<1>8. place' \in [Threads -> Spots]
  BY DEF Data
<1>. QED
  BY <1>3, <1>4, <1>5, <1>7, <1>8 DEF Data

LEMMA Quiet ==
    ASSUME ControlInv, Listening
    PROVE  \A t \in Threads : vm.debugEvent[t] = <<>>
  BY DEF ControlInv, EventsSent, Listening

LEMMA AfterCommandKeeps ==
    ASSUME IInv, Listening, GoesOn, UNCHANGED <<asleep, place>>,
           NEW v, AfterCommand(v), Sane(v, asleep, place), v.told = {},
           v.debugEvent = vm.debugEvent, Halts(v, v.ready /\ at # "exit"),
           \A i \in DOMAIN waits : waits[i].what = "start" => BeforeStart(v),
           waits # <<>> /\ v.resumeOK /\ Head(waits).what = "start" => v.runnable # <<>>
    PROVE  IInv'
<1>1. /\ Data /\ ControlInv /\ v \in VM /\ Placed(v, {}) /\ asleep' \subseteq Threads
      /\ waits \in Seq(WaitType)
  BY DEF IInv, Sane, Data, ControlInv
<1>2. at' # "boot" /\ at' \notin {"fetch", "next"} /\ (at' # "exit" => at # "exit")
  BY <1>1 DEF ControlInv, Listening, GoesOn
<1>3. Halts(v, v.ready /\ at' # "exit")
  BY <1>2 DEF Halts
<1>4. ASSUME NEW w, Becomes(w, {}), Same(v, w), Placed(w, {})
      PROVE  /\ Data' /\ EventsSent(vm)'
             /\ (BeforeStart(w) => BeforeStart(vm'))
  <2>1. Sane(w, asleep', place)
    BY <1>4, SaneStands
  <2>2. Halts(w, w.ready /\ at' # "exit")
    BY <1>3, <1>4, HaltsStands DEF Same
  <2>3. w.told = {} /\ w \in VM
    BY <1>4 DEF Same
  <2>4. Data'
    BY <1>1, <1>4, <2>1, <2>2, <2>3, Settle
  <2>5. vm' = Settled(w)
    BY <1>4 DEF Becomes, Settled
  <2>6. /\ vm'.debugEvent = w.debugEvent /\ vm'.current = w.current
        /\ vm'.count = w.count /\ vm'.state = w.state
    BY <2>3, <2>5, SettledFields
  <2>7. \A t \in Threads : vm'.debugEvent[t] = <<>>
    BY <1>1, <1>4, <2>6, Quiet DEF Same
  <2>. QED
    BY <2>4, <2>6, <2>7 DEF EventsSent, BeforeStart
<1>5. CASE waits = <<>> \/ ~v.resumeOK
  <2>1. Becomes(v, {}) /\ waits' = waits
    BY <1>5 DEF AfterCommand
  <2>2. Data' /\ EventsSent(vm)' /\ (BeforeStart(v) => BeforeStart(vm'))
    BY <1>1, <1>4, <2>1, SameRefl
  <2>3. ControlInv'
    BY <1>1, <1>2, <2>1, <2>2 DEF ControlInv
  <2>. QED
    BY <2>2, <2>3 DEF IInv
<1>6. CASE waits # <<>> /\ v.resumeOK
  <2>1. PICK h, w : h = Head(waits) /\ w = Continue(v, h)
    OBVIOUS
  <2>2. Becomes(w, {}) /\ waits' = Tail(waits)
    BY <1>6, <2>1 DEF AfterCommand
  <2>3. /\ h \in WaitType /\ h = waits[1] /\ Len(waits) \in Nat \ {0}
        /\ Tail(waits) \in Seq(WaitType) /\ Len(Tail(waits)) = Len(waits) - 1
        /\ \A i \in 1 .. Len(Tail(waits)) : Tail(waits)[i] = waits[i + 1]
    BY <1>1, <1>6, <2>1, HeadTailProperties
  <2>4. /\ Same(v, w) /\ Placed(w, {})
        /\ h.what # "start" => w.current = v.current /\ w.count = v.count /\ w.state = v.state
    <3>1. CASE h.what = "start"
      <4>1. PICK x : x = Started(v)
        OBVIOUS
      <4>2. v.runnable # <<>>
        BY <1>6, <2>1, <3>1
      <4>3. Placed(x, {}) /\ Same(v, x) /\ x.current # NIL /\ x \in VM
        BY <1>1, <4>1, <4>2, StartedKeeps DEF Same
      <4>4. w = sendAllClassPrepares(x)
        BY <2>1, <3>1, <4>1 DEF Continue
      <4>5. Placed(w, {}) /\ Same(x, w)
        BY <4>3, <4>4, PreparesKeep
      <4>. QED
        BY <3>1, <4>3, <4>5, SameTrans
    <3>2. CASE h.what = "caught"
      <4>1. w = v
        BY <2>1, <3>2 DEF Continue
      <4>. QED
        BY <1>1, <4>1, SameRefl
    <3>3. CASE h.what = "step"
      <4>1. PICK I : I = v.isStepping \cup {h.thread}
        OBVIOUS
      <4>2. I \in SUBSET Threads
        BY <1>1, <2>3, <4>1 DEF VM, WaitType
      <4>3. w = [v EXCEPT !.isStepping = I]
        BY <2>1, <3>3, <4>1 DEF Continue, StepRequested
      <4>4. w \in VM
        BY <1>1, <4>2, <4>3 DEF VM
      <4>5. Twin(v, w)
        BY <1>1, <4>3, <4>4, ZenonT(60) DEF VM, Twin, Threaded
      <4>. QED
        BY <1>1, <4>5, TwinKeeps DEF Twin, Threaded
    <3>. QED
      BY <2>3, <3>1, <3>2, <3>3 DEF WaitType
  <2>5. Data' /\ EventsSent(vm)' /\ (BeforeStart(w) => BeforeStart(vm'))
    BY <1>4, <2>2, <2>4
  <2>6. ASSUME NEW i \in DOMAIN waits', waits'[i].what = "start"
        PROVE  i = Len(waits') /\ BeforeStart(vm')
    <3>1. i \in 1 .. Len(Tail(waits)) /\ i + 1 \in DOMAIN waits /\ waits[i + 1].what = "start"
      BY <1>1, <2>2, <2>3, <2>6
    <3>2. i + 1 = Len(waits) /\ BeforeStart(v)
      BY <1>1, <3>1 DEF ControlInv
    <3>3. h.what # "start"
      <4>1. 1 \in DOMAIN waits /\ 1 # i + 1 /\ i \in Nat
        BY <1>1, <2>3, <3>1
      <4>. QED
        BY <1>1, <2>3, <3>2, <4>1 DEF ControlInv
    <3>4. BeforeStart(w)
      BY <2>4, <3>2, <3>3 DEF BeforeStart
    <3>. QED
      BY <2>2, <2>3, <2>5, <3>1, <3>2, <3>4
  <2>7. ControlInv'
    BY <1>2, <2>2, <2>3, <2>5, <2>6 DEF ControlInv
  <2>. QED
    BY <2>5, <2>7 DEF IInv
<1>. QED
  BY <1>5, <1>6

\* A command that leaves the program alone.
LEMMA SameCommand ==
    ASSUME IInv, Listening, GoesOn, UNCHANGED <<asleep, place>>,
           NEW v, AfterCommand(v), Same(vm, v), Placed(v, {}),
           \A i \in DOMAIN waits : waits[i].what = "start" => BeforeStart(v),
           waits # <<>> /\ v.resumeOK /\ Head(waits).what = "start" => v.runnable # <<>>
    PROVE  IInv'
<1>1. Data /\ Sane(vm, asleep, place) /\ vm.told = {}
  BY DEF IInv, Data
<1>2. Sane(v, asleep, place)
  BY <1>1, SaneStands
<1>3. v.told = {} /\ v.debugEvent = vm.debugEvent /\ v.ready = vm.ready
  BY <1>1 DEF Same
<1>4. Halts(v, v.ready /\ at # "exit")
  BY <1>1, <1>3, DataHalts DEF Alert
<1>. QED
  BY <1>2, <1>3, <1>4, AfterCommandKeeps

LEMMA CommandFacts ==
    ASSUME IInv
    PROVE  /\ vm \in VM /\ Placed(vm, {}) /\ ~vm.resumeOK
           /\ \A t \in Threads : "SUSPENDED" \in vm.state[t] <=> t \in asleep
           /\ waits \in Seq(WaitType)
           /\ \A i \in DOMAIN waits :
                waits[i].what = "start" => i = Len(waits) /\ BeforeStart(vm)
           /\ waits # <<>> => 1 \in DOMAIN waits /\ Head(waits) = waits[1]
<1>1. waits \in Seq(WaitType)
  BY DEF IInv, ControlInv
<1>2. waits # <<>> => 1 \in DOMAIN waits /\ Head(waits) = waits[1]
  BY <1>1
<1>. QED
  BY <1>1, <1>2 DEF IInv, Data, Sane, ControlInv

LEMMA SuspendAllCommand ==
    ASSUME IInv, MaySuspend({}), SuspendAll
    PROVE  IInv'
<1>1. PICK v : v = suspendAllThreads(vm)
  OBVIOUS
<1>2. /\ Listening /\ GoesOn /\ UNCHANGED <<asleep, place>> /\ AfterCommand(v)
      /\ \A i \in DOMAIN waits : waits[i].what # "start"
  BY <1>1 DEF SuspendAll, Command, MaySuspend
<1>3. Same(vm, v) /\ Placed(v, {})
  BY <1>1, CommandFacts, SuspendAllKeeps
<1>4. waits # <<>> => Head(waits).what # "start"
  BY <1>2, CommandFacts
<1>. QED
  BY <1>2, <1>3, <1>4, SameCommand

LEMMA SuspendOneCommand ==
    ASSUME IInv, MaySuspend({}), NEW t \in Threads, SuspendOne(t)
    PROVE  IInv'
<1>1. PICK v : v = ThreadReference_Suspend(vm, t)
  OBVIOUS
<1>2. /\ Listening /\ GoesOn /\ UNCHANGED <<asleep, place>> /\ AfterCommand(v)
      /\ \A i \in DOMAIN waits : waits[i].what # "start"
  BY <1>1 DEF SuspendOne, Command, MaySuspend
<1>3. Same(vm, v) /\ Placed(v, {})
  <2>1. CASE t \in OnQueue(vm.all)
    <3>1. v = suspendSpecificThread(vm, t)
      BY <1>1, <2>1 DEF ThreadReference_Suspend, isValidThread, Valid
    <3>. QED
      BY <2>1, <3>1, CommandFacts, SuspendOneKeeps
  <2>2. CASE t \notin OnQueue(vm.all)
    <3>1. v = vm
      BY <1>1, <2>2 DEF ThreadReference_Suspend, isValidThread, Valid
    <3>. QED
      BY <3>1, CommandFacts, SameRefl
  <2>. QED
    BY <2>1, <2>2
<1>4. waits # <<>> => Head(waits).what # "start"
  BY <1>2, CommandFacts
<1>. QED
  BY <1>2, <1>3, <1>4, SameCommand

\* What is the case before the program starts stays so when threads are resumed.
LEMMA BeforeStartStands ==
    ASSUME NEW v \in VM, BeforeStart(v), NEW w, Same(v, w), Placed(w, {}), w.current = NIL,
           w.count[MainThread] <= v.count[MainThread]
    PROVE  BeforeStart(w)
<1>1. v.count \in [Threads -> Nat] /\ w.count \in [Threads -> Nat] /\ MainThread \in Threads
  BY DebuggerAssumption DEF VM, Same
<1>2. w.count[MainThread] <= 1
  BY <1>1 DEF BeforeStart
<1>3. ASSUME NEW t \in Threads \ {MainThread}
      PROVE  w.state[t] = {}
  <2>1. Life(w.state[t]) = {} /\ w.state[t] # {"DBG_SUSPENDED"}
    BY DEF BeforeStart, Same, Life, Placed
  <2>. QED
    BY <2>1 DEF Life
<1>. QED
  BY <1>1, <1>2, <1>3 DEF BeforeStart, Same

\* All threads resumed: if the program has not started, the main thread can go on.
LEMMA ResumedAll ==
    ASSUME IInv, \A t \in OnQueue(vm.all) : vm.state[t] # {"ACTIVE"},
           NEW v, v = VirtualMachine_Resume(vm)
    PROVE  /\ Placed(v, {}) /\ Same(vm, v)
           /\ BeforeStart(vm) => BeforeStart(v) /\ v.runnable # <<>>
<1>3. /\ Placed(v, {}) /\ Same(vm, v) /\ vm.current = NIL /\ v.current = NIL
      /\ \A t \in Threads : v.count[t] <= vm.count[t]
      /\ \A t \in OnQueue(vm.all) :
           vm.count[t] <= 1 /\ vm.state[t] \cap {"SUSPENDED", "JUST_BORN"} = {}
             => t \in OnQueue(v.runnable)
  BY CommandFacts, ResumeAllKeeps
<1>4. BeforeStart(vm) => BeforeStart(v) /\ v.runnable # <<>>
  <2>1. SUFFICES ASSUME BeforeStart(vm) PROVE BeforeStart(v) /\ v.runnable # <<>>
    OBVIOUS
  <2>2. MainThread \in Threads
    BY DebuggerAssumption
  <2>3. BeforeStart(v)
    BY <1>3, <2>1, <2>2, CommandFacts, BeforeStartStands
  <2>4. MainThread \in OnQueue(vm.all)
    <3>1. Placed(vm, {}) /\ Life(vm.state[MainThread]) = {"ACTIVE"}
      BY <2>1, CommandFacts DEF BeforeStart
    <3>2. "DEAD" \notin vm.state[MainThread]
      BY <3>1 DEF Life
    <3>. QED
      BY <2>2, <3>1, <3>2 DEF Placed
  <2>5. /\ vm.count[MainThread] <= 1
        /\ vm.state[MainThread] \cap {"SUSPENDED", "JUST_BORN"} = {}
    BY <2>1 DEF BeforeStart, Life
  <2>6. MainThread \in OnQueue(v.runnable)
    BY <1>3, <2>4, <2>5
  <2>. QED
    BY <2>3, <2>6, EmptyQueue
<1>. QED
  BY <1>3, <1>4

LEMMA ResumeAllCommand ==
    ASSUME IInv, MayResumeAll(vm, {}), ResumeAll
    PROVE  IInv'
<1>1. PICK v : v = VirtualMachine_Resume(vm)
  OBVIOUS
<1>2. /\ Listening /\ GoesOn /\ UNCHANGED <<asleep, place>> /\ AfterCommand(v)
      /\ \A t \in OnQueue(vm.all) : vm.state[t] # {"ACTIVE"}
  BY <1>1 DEF ResumeAll, Command, MayResumeAll, Valid, Running
<1>3. /\ Placed(v, {}) /\ Same(vm, v)
      /\ BeforeStart(vm) => BeforeStart(v) /\ v.runnable # <<>>
  BY <1>1, <1>2, ResumedAll
<1>. QED
  BY <1>2, <1>3, CommandFacts, SameCommand

LEMMA ResumeOneCommand ==
    ASSUME IInv, NEW t \in Threads, MayResume(vm, t, {}), ResumeOne(t)
    PROVE  IInv'
<1>1. PICK x : x = IF t \in OnQueue(vm.all) THEN resumeSpecificThread(vm, t) ELSE vm
  OBVIOUS
<1>2. PICK v : v = [x EXCEPT !.allSuspended = FALSE, !.resumeOK = TRUE]
  OBVIOUS
<1>3. v = ThreadReference_Resume(vm, t)
  BY <1>1, <1>2 DEF ThreadReference_Resume, isValidThread, Valid
<1>4. /\ Listening /\ GoesOn /\ UNCHANGED <<asleep, place>> /\ AfterCommand(v)
      /\ vm.state[t] # {}
  BY <1>3 DEF ResumeOne, Command, Known
<1>5. vm.state[t] # {"ACTIVE"}
  BY DEF MayResume, Running
<1>6. /\ x \in VM /\ Placed(x, {}) /\ Same(vm, x) /\ x.current = vm.current
      /\ BeforeStart(vm) => BeforeStart(x) /\ x.runnable # <<>>
  <2>1. CASE t \in OnQueue(vm.all)
    <3>1. /\ Placed(x, {}) /\ Same(vm, x) /\ Standing(vm, x)
          /\ \A u \in Threads \ {t} : x.state[u] = vm.state[u] /\ x.count[u] = vm.count[u]
          /\ x.count[t] <= vm.count[t]
          /\ vm.count[t] <= 1 /\ vm.state[t] \cap {"SUSPENDED", "JUST_BORN"} = {}
               => t \in OnQueue(x.runnable)
      BY <1>1, <1>5, <2>1, CommandFacts, ResumeOneKeeps
    <3>2. ASSUME BeforeStart(vm)
          PROVE  BeforeStart(x) /\ x.runnable # <<>>
      <4>1. t = MainThread
        BY <1>4, <3>2 DEF BeforeStart
      <4>2. BeforeStart(x)
        BY <3>1, <3>2, <4>1, CommandFacts, BeforeStartStands DEF BeforeStart, Standing
      <4>3. /\ vm.count[MainThread] <= 1
            /\ vm.state[MainThread] \cap {"SUSPENDED", "JUST_BORN"} = {}
        BY <3>2 DEF BeforeStart, Life
      <4>. QED
        BY <3>1, <4>1, <4>2, <4>3, EmptyQueue
    <3>. QED
      BY <3>1, <3>2 DEF Standing
  <2>2. CASE t \notin OnQueue(vm.all)
    <3>1. x = vm
      BY <1>1, <2>2
    <3>2. ~BeforeStart(vm)
      BY <1>4, <2>2, CommandFacts DEF BeforeStart, Placed, Life
    <3>. QED
      BY <3>1, <3>2, CommandFacts, SameRefl
  <2>. QED
    BY <2>1, <2>2
<1>7. Twin(x, v)
  <2>1. v \in VM
    BY <1>2, <1>6 DEF VM
  <2>. QED
    BY <1>2, <1>6, <2>1, ZenonT(60) DEF VM, Twin, Threaded
<1>8. Placed(v, {}) /\ Same(vm, v)
  BY <1>6, <1>7, TwinKeeps, SameTrans
<1>9. BeforeStart(vm) => BeforeStart(v) /\ v.runnable # <<>>
  BY <1>6, <1>7 DEF BeforeStart, Twin, Threaded
<1>. QED
  BY <1>4, <1>8, <1>9, CommandFacts, SameCommand

LEMMA FramesCommand ==
    ASSUME IInv, Frames
    PROVE  IInv'
<1>1. PICK v : v = ThreadReference_Frames(vm)
  OBVIOUS
<1>2. Listening /\ GoesOn /\ UNCHANGED <<asleep, place>> /\ AfterCommand(v)
  BY <1>1 DEF Frames, Command
<1>3. /\ Same(vm, v) /\ Placed(v, {}) /\ v.resumeOK = vm.resumeOK
      /\ BeforeStart(vm) => BeforeStart(v)
  <2>1. CASE vm.current = NIL
    <3>1. v = vm
      BY <1>1, <2>1 DEF ThreadReference_Frames
    <3>. QED
      BY <3>1, CommandFacts, SameRefl
  <2>2. CASE vm.current # NIL
    <3>1. PICK c, s : c = vm.current /\ s = [vm.ipStore EXCEPT ![vm.current] = vm.ip]
      OBVIOUS
    <3>2. v = [vm EXCEPT !.ipStore = s]
      BY <1>1, <2>2, <3>1, CommandFacts
         DEF ThreadReference_Frames, storeExecutionEnvironment, VM
    <3>3. s \in [Threads -> Spots] /\ c \in Threads
      BY <2>2, <3>1, CommandFacts DEF VM
    <3>4. v \in VM
      BY <3>2, <3>3, CommandFacts DEF VM
    <3>5. /\ v.current = vm.current /\ v.runnable = vm.runnable /\ v.state = vm.state
          /\ v.count = vm.count /\ v.ip = vm.ip /\ v.ipStore = s /\ v.fatal = vm.fatal
          /\ v.all = vm.all /\ v.alive = vm.alive /\ v.nextOpcode = vm.nextOpcode
          /\ v.debugEvent = vm.debugEvent /\ v.ready = vm.ready /\ v.told = vm.told
          /\ v.code = vm.code /\ v.events = vm.events /\ v.notify = vm.notify
          /\ v.resumeOK = vm.resumeOK
      BY <3>2, <3>4, CommandFacts DEF VM
    <3>6. vm.ipStore \in [Threads -> Spots]
      BY CommandFacts DEF VM
    <3>7. \A t \in Threads : Position(v, t) = Position(vm, t)
      BY <3>1, <3>5, <3>6 DEF Position
    <3>8. Same(vm, v)
      BY <3>4, <3>5, <3>7 DEF Same, SameRequests
    <3>9. Placed(v, {})
      <4>1. Placed(vm, {})
        BY CommandFacts
      <4>. QED
        BY <3>5, <4>1 DEF Placed
    <3>. QED
      BY <3>5, <3>8, <3>9 DEF BeforeStart
  <2>. QED
    BY <2>1, <2>2
<1>. QED
  BY <1>2, <1>3, CommandFacts, SameCommand

LEMMA SteppingInfoCommand ==
    ASSUME IInv, SteppingInfo
    PROVE  IInv'
<1>1. PICK v : v = [vm EXCEPT !.resumeOK = TRUE]
  OBVIOUS
<1>2. /\ Listening /\ GoesOn /\ UNCHANGED <<asleep, place>> /\ AfterCommand(v)
      /\ waits # <<>> /\ Head(waits).what = "step"
  BY <1>1 DEF SteppingInfo, GoesOn
<1>3. v \in VM
  BY <1>1, CommandFacts DEF VM
<1>4. Twin(vm, v)
  BY <1>1, <1>3, CommandFacts DEF VM, Twin, Threaded
<1>5. /\ Same(vm, v) /\ Placed(v, {})
      /\ BeforeStart(vm) => BeforeStart(v)
  BY <1>4, CommandFacts, TwinKeeps DEF BeforeStart, Twin, Threaded
<1>. QED
  BY <1>2, <1>5, CommandFacts, SameCommand

----------------------------------------------------------------------------
(* Commands that change the code *)

LEMMA SaneThreaded ==
    ASSUME NEW v, NEW w, NEW a, NEW p, Sane(v, a, p), Threaded(v, w), CodeInv(w)
    PROVE  Sane(w, a, p)
<1>1. Placed(w, {})
  BY DEF Sane, Threaded, Placed
<1>. QED
  BY <1>1 DEF Sane, Threaded, Position

\* Requests are cleared, and with a breakpoint that is not in use the one in its place.
LEMMA ClearKeeps ==
    ASSUME NEW v \in VM, BreaksInv(v), NEW S \in SUBSET (DOMAIN v.events),
           NEW w, w = clearEvents(v, S),
           \A i \in S, j \in DOMAIN v.events \ S :
              /\ v.events[i].kind = "BREAKPOINT" /\ v.events[i].mods # <<>>
              /\ Installed(v.events[j])
              => v.events[i].mods[1].spot # v.events[j].mods[1].spot
    PROVE  /\ Threaded(v, w) /\ w.notify = v.notify /\ w.resumeOK = v.resumeOK
           /\ BreaksInv(w)
           /\ \A s \in Spots : w.code[s] = "BREAKPOINT" =>
                /\ v.code[s] = "BREAKPOINT"
                /\ \E j \in DOMAIN v.events \ S :
                     Installed(v.events[j]) /\ v.events[j].mods[1].spot = s
           /\ \A j \in DOMAIN v.events \ S :
                Installed(v.events[j]) => w.code[v.events[j].mods[1].spot] = "BREAKPOINT"
<1>1. /\ Threaded(v, w) /\ w.notify = v.notify /\ w.events = Cleared(v, S)
      /\ w.resumeOK = v.resumeOK
      /\ \A s \in Spots :
           \/ w.code[s] = v.code[s]
                /\ \A i \in Of(v, S, "BREAKPOINT") : v.events[i].mods[1].spot # s
           \/ \E i \in Of(v, S, "BREAKPOINT") :
                v.events[i].mods[1].spot = s /\ w.code[s] = v.events[i].opcode
  BY ClearFields
<1>2. /\ DOMAIN v.events = 1 .. Len(v.events) /\ Len(v.events) \in Nat
      /\ \A i \in 1 .. Len(v.events) : v.events[i] \in EventRequest
  BY RequestsType
<1>3. PICK E : E = Cleared(v, S)
  OBVIOUS
<1>4. /\ DOMAIN E = DOMAIN v.events
      /\ \A i \in DOMAIN v.events :
           /\ E[i].kind = v.events[i].kind /\ E[i].policy = v.events[i].policy
           /\ E[i].mods = v.events[i].mods /\ E[i].opcode = v.events[i].opcode
           /\ E[i].inUse <=> i \notin S /\ v.events[i].inUse
  BY <1>3, ClearedType
<1>5. w.events = E
  BY <1>1, <1>3
<1>6. /\ w.events = E /\ DOMAIN E = DOMAIN v.events
      /\ \A i \in DOMAIN v.events :
           /\ E[i].kind = v.events[i].kind /\ E[i].policy = v.events[i].policy
           /\ E[i].mods = v.events[i].mods /\ E[i].opcode = v.events[i].opcode
           /\ Installed(E[i]) <=> i \notin S /\ Installed(v.events[i])
  BY <1>4, <1>5 DEF Installed
<1>7. \A i \in Of(v, S, "BREAKPOINT") :
        /\ i \in S /\ v.events[i].kind = "BREAKPOINT" /\ v.events[i].mods # <<>>
        /\ v.events[i].opcode = "op"
  BY DEF Of, BreaksInv
<1>8. \A i \in DOMAIN v.events : Installed(v.events[i]) =>
        /\ v.events[i].mods # <<>> /\ v.events[i].kind = "BREAKPOINT"
        /\ v.events[i].mods[1].spot \in Spots
        /\ v.code[v.events[i].mods[1].spot] = "BREAKPOINT"
  BY SMTT(60) DEF BreaksInv, Installed
<1>9. \A j \in DOMAIN v.events \ S :
         Installed(v.events[j]) => w.code[v.events[j].mods[1].spot] = "BREAKPOINT"
  <2>1. SUFFICES ASSUME NEW j \in DOMAIN v.events \ S, Installed(v.events[j])
                 PROVE  w.code[v.events[j].mods[1].spot] = "BREAKPOINT"
    OBVIOUS
  <2>2. PICK s \in Spots : s = v.events[j].mods[1].spot
    BY <1>8, <2>1
  <2>3. \A i \in Of(v, S, "BREAKPOINT") : v.events[i].mods[1].spot # s
    BY <1>7, <2>1, <2>2
  <2>4. w.code[s] = v.code[s]
    BY <1>1, <2>3
  <2>. QED
    BY <1>8, <2>1, <2>2, <2>4
<1>10. ASSUME NEW s \in Spots, w.code[s] = "BREAKPOINT"
       PROVE  /\ v.code[s] = "BREAKPOINT"
              /\ \E j \in DOMAIN v.events \ S :
                   Installed(v.events[j]) /\ v.events[j].mods[1].spot = s
  <2>1. /\ w.code[s] = v.code[s]
        /\ \A i \in Of(v, S, "BREAKPOINT") : v.events[i].mods[1].spot # s
    BY <1>1, <1>7, <1>10
  <2>2. PICK j \in DOMAIN v.events : Installed(v.events[j]) /\ v.events[j].mods[1].spot = s
    BY <1>10, <2>1 DEF BreaksInv
  <2>3. j \notin S
    BY <1>8, <2>1, <2>2 DEF Of
  <2>. QED
    BY <1>10, <2>1, <2>2, <2>3
<1>11. \A s \in Spots : w.code[s] # "none"
  BY <1>1, <1>7 DEF BreaksInv
<1>12. BreaksInv(w)
  <2>1. ASSUME NEW i \in DOMAIN v.events
        PROVE  /\ E[i].kind = "BREAKPOINT" /\ E[i].mods # <<>> => E[i].opcode = "op"
               /\ Installed(E[i]) => /\ E[i].mods # <<>> /\ E[i].mods[1].spot \in Spots
                                     /\ w.code[E[i].mods[1].spot] = "BREAKPOINT"
               /\ E[i].kind = "EXCEPTION" /\ E[i].policy # "NONE" =>
                    E[i].mods # <<>> /\ \A j \in DOMAIN E[i].mods :
                                  E[i].mods[j].kind = "ExceptionOnly" /\ ~E[i].mods[j].uncaught
    <3>1. /\ v.events[i].kind = "BREAKPOINT" /\ v.events[i].mods # <<>>
                => v.events[i].opcode = "op"
          /\ v.events[i].kind = "EXCEPTION" /\ v.events[i].policy # "NONE" =>
               v.events[i].mods # <<>> /\ \A j \in DOMAIN v.events[i].mods :
                     v.events[i].mods[j].kind = "ExceptionOnly" /\ ~v.events[i].mods[j].uncaught
      BY DEF BreaksInv
    <3>. QED
      BY <1>6, <1>8, <1>9, <3>1
  <2>2. \A i, j \in DOMAIN v.events :
          Installed(E[i]) /\ Installed(E[j]) /\ E[i].mods[1].spot = E[j].mods[1].spot => i = j
    BY <1>6 DEF BreaksInv
  <2>3. \A s \in Spots : w.code[s] = "BREAKPOINT" =>
              \E i \in DOMAIN v.events : Installed(E[i]) /\ E[i].mods[1].spot = s
    BY <1>6, <1>10
  <2>. QED
    BY <1>6, <1>11, <2>1, <2>2, <2>3 DEF BreaksInv
<1>. QED
  BY <1>1, <1>9, <1>10, <1>12

\* Requests are cleared: no breakpoint that a thread has fetched, and none of another request.
LEMMA ClearsCommand ==
    ASSUME IInv, Listening, GoesOn, UNCHANGED <<asleep, place>>,
           NEW S \in SUBSET (DOMAIN vm.events), NEW v, v = clearEvents(vm, S), AfterCommand(v),
           \A i \in S, j \in DOMAIN vm.events \ S :
              /\ vm.events[i].kind = "BREAKPOINT" /\ vm.events[i].mods # <<>>
              /\ Installed(vm.events[j])
              => vm.events[i].mods[1].spot # vm.events[j].mods[1].spot,
           (\E i \in S : Installed(vm.events[i]))
              => \A t \in Threads : vm.nextOpcode[t] # "BREAKPOINT"
    PROVE  IInv'
<1>1. vm \in VM /\ ~vm.resumeOK /\ Placed(vm, {})
  BY CommandFacts
<1>2. /\ Sane(vm, asleep, place) /\ BreaksInv(vm) /\ vm.told = {}
      /\ HitInv(vm, place, hit, Alert) /\ place \in [Threads -> Spots]
  BY DEF IInv, Data, Sane, CodeInv
<1>3. /\ Threaded(vm, v) /\ v.notify = vm.notify /\ v.resumeOK = vm.resumeOK
      /\ BreaksInv(v)
      /\ \A s \in Spots : v.code[s] = "BREAKPOINT" =>
           /\ vm.code[s] = "BREAKPOINT"
           /\ \E j \in DOMAIN vm.events \ S :
                Installed(vm.events[j]) /\ vm.events[j].mods[1].spot = s
      /\ \A j \in DOMAIN vm.events \ S :
           Installed(vm.events[j]) => v.code[vm.events[j].mods[1].spot] = "BREAKPOINT"
  BY <1>1, <1>2, ClearKeeps
<1>4. CodeInv(v)
  BY <1>2, <1>3 DEF Sane, CodeInv, Threaded
<1>5. Sane(v, asleep, place)
  BY <1>2, <1>3, <1>4, SaneThreaded
<1>6. v.told = {} /\ v.debugEvent = vm.debugEvent /\ (BeforeStart(vm) => BeforeStart(v))
  BY <1>2, <1>3 DEF Threaded, BeforeStart
<1>7. ASSUME NEW t \in Threads, vm.nextOpcode[t] = "BREAKPOINT",
             vm.code[place[t]] = "BREAKPOINT"
      PROVE  v.code[place[t]] = "BREAKPOINT"
  <2>1. \A i \in S : ~Installed(vm.events[i])
    BY <1>7
  <2>2. PICK j \in DOMAIN vm.events :
          Installed(vm.events[j]) /\ vm.events[j].mods[1].spot = place[t]
    BY <1>2, <1>7 DEF BreaksInv
  <2>. QED
    BY <1>3, <2>1, <2>2
<1>8. Halts(v, v.ready /\ at # "exit")
  <2>1. v.ready = vm.ready /\ v.state = vm.state /\ v.nextOpcode = vm.nextOpcode
    BY <1>3 DEF Threaded
  <2>. QED
    BY <1>2, <1>7, <2>1 DEF Halts, HitInv, Alert
<1>9. \A i \in DOMAIN waits : waits[i].what = "start" => BeforeStart(v)
  BY <1>6, CommandFacts
<1>. QED
  BY <1>1, <1>3, <1>5, <1>6, <1>8, <1>9, AfterCommandKeeps

LEMMA ClearCommand ==
    ASSUME IInv, NEW i \in DOMAIN vm.events, MayClear(vm, i, {}), Clear(i)
    PROVE  IInv'
<1>1. PICK S, v : S = {i} /\ v = clearEvents(vm, S)
  OBVIOUS
<1>2. /\ Listening /\ GoesOn /\ UNCHANGED <<asleep, place>> /\ AfterCommand(v)
      /\ vm.events[i].inUse
      /\ vm.events[i].kind = "BREAKPOINT" =>
           \A t \in Threads : vm.nextOpcode[t] # "BREAKPOINT"
  BY <1>1 DEF Clear, Command, MayClear, clearEvent
<1>3. BreaksInv(vm)
  BY DEF IInv, Data, Sane, CodeInv
<1>4. ASSUME NEW k \in S, NEW j \in DOMAIN vm.events \ S,
             vm.events[k].kind = "BREAKPOINT" /\ vm.events[k].mods # <<>>
               /\ Installed(vm.events[j])
      PROVE  vm.events[k].mods[1].spot # vm.events[j].mods[1].spot
  <2>1. k = i /\ j # i /\ Installed(vm.events[i])
    BY <1>1, <1>2, <1>4 DEF Installed
  <2>. QED
    BY <1>3, <1>4, <2>1 DEF BreaksInv
<1>5. (\E k \in S : Installed(vm.events[k]))
         => \A t \in Threads : vm.nextOpcode[t] # "BREAKPOINT"
  BY <1>1, <1>2 DEF Installed
<1>6. S \in SUBSET (DOMAIN vm.events)
  BY <1>1
<1>. QED
  BY <1>1, <1>2, <1>4, <1>5, <1>6, ClearsCommand

LEMMA ClearAllCommand ==
    ASSUME IInv, \A i \in DOMAIN vm.events : vm.events[i].inUse => MayClear(vm, i, {}),
           ClearAllBreakpoints
    PROVE  IInv'
<1>1. PICK S, v : /\ S = {i \in DOMAIN vm.events : vm.events[i].kind = "BREAKPOINT"}
                  /\ v = clearEvents(vm, S)
  OBVIOUS
<1>2. /\ Listening /\ GoesOn /\ UNCHANGED <<asleep, place>> /\ AfterCommand(v)
      /\ \A i \in DOMAIN vm.events : vm.events[i].inUse =>
           (vm.events[i].kind = "BREAKPOINT" =>
              \A t \in Threads : vm.nextOpcode[t] # "BREAKPOINT")
  BY <1>1 DEF ClearAllBreakpoints, Command, MayClear, clearAllBreakpoints
<1>3. \A j \in DOMAIN vm.events \ S : ~Installed(vm.events[j])
  BY <1>1 DEF Installed
<1>4. (\E k \in S : Installed(vm.events[k]))
         => \A t \in Threads : vm.nextOpcode[t] # "BREAKPOINT"
  BY <1>1, <1>2 DEF Installed
<1>5. S \in SUBSET (DOMAIN vm.events)
  BY <1>1
<1>. QED
  BY <1>1, <1>2, <1>3, <1>4, <1>5, ClearsCommand

LEMMA OneReplaced ==
    ASSUME NEW T, NEW p \in Seq(T), NEW i \in DOMAIN p, NEW x \in T, NEW q, q = [p EXCEPT ![i] = x]
    PROVE  /\ q \in Seq(T) /\ DOMAIN q = DOMAIN p /\ q[i] = x
           /\ \A j \in DOMAIN p \ {i} : q[j] = p[j]
  OBVIOUS

\* A breakpoint more is in the code, or none.
LEMMA CreateFields ==
    ASSUME NEW v \in VM, BreaksInv(v), NEW r \in Requests,
           r.kind = "BREAKPOINT" => v.code[r.mods[1].spot] # "BREAKPOINT",
           NEW i, i = createVmEvent(v), NEW w, w = EventRequest_Set(v, r)
    PROVE  /\ Threaded(v, w) /\ w.notify = v.notify \cup {r.kind} /\ w.resumeOK = v.resumeOK
           /\ i \in Nat \ {0} /\ DOMAIN w.events = DOMAIN v.events \cup {i}
           /\ i \in DOMAIN v.events => ~v.events[i].inUse
           /\ \A j \in DOMAIN v.events \ {i} : w.events[j] = v.events[j]
           /\ w.events[i].kind = r.kind /\ w.events[i].policy = r.policy
           /\ w.events[i].mods = r.mods \/ w.events[i].mods = <<>>
           /\ r.kind # "STEP" => w.events[i].mods = r.mods
           /\ r.kind = "BREAKPOINT" =>
                /\ w.events[i].inUse /\ w.events[i].opcode = "op"
                /\ w.code = [v.code EXCEPT ![r.mods[1].spot] = "BREAKPOINT"]
           /\ r.kind # "BREAKPOINT" => w.code = v.code
<1>. DEFINE N == Len(v.events)
            R == Request(r)
            spot == r.mods[1].spot
<1>1. /\ DOMAIN v.events = 1 .. N /\ N \in Nat /\ v.events \in Seq(EventRequest)
      /\ \A j \in 1 .. N : v.events[j] \in EventRequest
  BY RequestsType DEF VM
<1>2. /\ r \in RequestType
      /\ r.kind = "BREAKPOINT" => r.mods # <<>> /\ spot \in Spots
  BY DebuggerAssumption
<1>3. i \in 1 .. N + 1 /\ (i <= N => ~v.events[i].inUse)
  <2>. DEFINE unused == {j \in DOMAIN v.events : ~v.events[j].inUse}
  <2>1. CASE unused = {}
    BY <1>1, <2>1 DEF createVmEvent
  <2>2. CASE unused # {}
    <3>1. unused \in SUBSET Nat
      BY <1>1
    <3>2. \E x \in unused : \A y \in unused : x <= y
      <4>. HIDE DEF unused
      <4>. QED
        BY <2>2, <3>1, LeastNumber
    <3>3. i = CHOOSE x \in unused : \A y \in unused : x <= y
      BY <2>2 DEF createVmEvent
    <3>4. i \in unused
      <4>. HIDE DEF unused
      <4>. QED
        BY <3>2, <3>3
    <3>. QED
      BY <1>1, <3>4
  <2>. QED
    BY <2>1, <2>2
<1>4. R \in EventRequest /\ R.kind = r.kind /\ R.policy = r.policy /\ R.mods = r.mods /\ R.inUse
  BY <1>2 DEF Request, RequestType, EventRequest, Opcode
<1>5. PICK new : new = IF i > N THEN Append(v.events, R) ELSE [v.events EXCEPT ![i] = R]
  OBVIOUS
<1>6. /\ new \in Seq(EventRequest) /\ DOMAIN new = DOMAIN v.events \cup {i}
      /\ new[i] = R /\ \A j \in DOMAIN v.events \ {i} : new[j] = v.events[j]
  <2>. HIDE DEF R
  <2>1. CASE i > N
    <3>1. i = N + 1
      BY <1>1, <1>3, <2>1
    <3>. QED
      BY <1>1, <1>4, <1>5, <2>1, <3>1
  <2>2. CASE i <= N
    BY <1>1, <1>3, <1>4, <1>5, <2>2
  <2>. QED
    BY <1>1, <1>3, <2>1, <2>2
<1>7. PICK set : set = [v EXCEPT !.events = new]
  OBVIOUS
<1>8. set \in VM /\ set.events = new /\ set.code = v.code /\ Threaded(v, set)
      /\ set.notify = v.notify /\ set.resumeOK = v.resumeOK
  <2>1. set \in VM
    BY <1>6, <1>7 DEF VM
  <2>. QED
    BY <1>7, <2>1, ZenonT(60) DEF VM, Threaded
<1>9. PICK refused : refused = [set EXCEPT !.events[i].inUse = FALSE, !.events[i].mods = <<>>]
  OBVIOUS
<1>10. PICK c : c = createEvent(v, r)
  OBVIOUS
<1>11. c = CASE r.kind = "BREAKPOINT" ->
              IF v.code[r.mods[1].spot] = "BREAKPOINT" /\ findBreakEvent(v, r.mods[1].spot) = 0
              THEN refused ELSE installBreakpoint(set, i)
         [] r.kind = "STEP" /\ "DEAD" \in v.state[r.mods[1].thread] -> refused
         [] OTHER -> set
  BY <1>5, <1>7, <1>9, <1>10 DEF createEvent
<1>12. /\ c \in VM /\ Threaded(v, c) /\ c.notify = v.notify /\ c.resumeOK = v.resumeOK
       /\ DOMAIN c.events = DOMAIN v.events \cup {i}
       /\ \A j \in DOMAIN v.events \ {i} : c.events[j] = v.events[j]
       /\ c.events[i].kind = r.kind /\ c.events[i].policy = r.policy
       /\ c.events[i].mods = r.mods \/ c.events[i].mods = <<>>
       /\ r.kind # "STEP" => c.events[i].mods = r.mods
       /\ r.kind = "BREAKPOINT" =>
            /\ c.events[i].inUse /\ c.events[i].opcode = "op"
            /\ c.code = [v.code EXCEPT ![r.mods[1].spot] = "BREAKPOINT"]
       /\ r.kind # "BREAKPOINT" => c.code = v.code
  <2>. HIDE DEF R
  <2>1. CASE r.kind = "BREAKPOINT"
    <3>1. c = installBreakpoint(set, i)
      BY <1>11, <2>1
    <3>2. v.code[spot] = "op" /\ v.code \in [Spots -> Opcode]
      BY <1>2, <2>1, SMTT(60) DEF BreaksInv, VM, Opcode
    <3>3. PICK E : E = [new EXCEPT ![i].opcode = "op"]
      OBVIOUS
    <3>4. PICK Q : Q = [R EXCEPT !.opcode = "op"]
      OBVIOUS
    <3>5. Q \in EventRequest /\ Q.kind = r.kind /\ Q.policy = r.policy /\ Q.mods = r.mods
          /\ Q.inUse /\ Q.opcode = "op"
      BY <1>4, <3>4 DEF EventRequest, Opcode
    <3>6. E = [new EXCEPT ![i] = Q]
      BY <1>6, <3>3, <3>4
    <3>7. E \in Seq(EventRequest) /\ DOMAIN E = DOMAIN new /\ E[i] = Q
          /\ \A j \in DOMAIN v.events \ {i} : E[j] = v.events[j]
      <4>1. i \in DOMAIN new
        BY <1>6
      <4>2. DOMAIN v.events \subseteq DOMAIN new
        BY <1>6
      <4>3. /\ E \in Seq(EventRequest) /\ DOMAIN E = DOMAIN new /\ E[i] = Q
            /\ \A j \in DOMAIN new \ {i} : E[j] = new[j]
        BY <1>6, <3>5, <3>6, <4>1, OneReplaced
      <4>. QED
        BY <1>6, <4>2, <4>3
    <3>8. PICK C : C = [v.code EXCEPT ![spot] = "BREAKPOINT"]
      OBVIOUS
    <3>9. C \in [Spots -> Opcode]
      BY <3>2, <3>8 DEF Opcode
    <3>10. set.events[i].mods[1].spot = spot
      BY <1>4, <1>6, <1>8
    <3>11. c = [set EXCEPT !.events[i].opcode = "op", !.code[spot] = "BREAKPOINT"]
      BY <1>8, <3>1, <3>2, <3>10 DEF installBreakpoint
    <3>12. c = [set EXCEPT !.events = E, !.code = C]
      BY <1>8, <3>3, <3>8, <3>11
    <3>13. c \in VM
      BY <1>8, <3>7, <3>9, <3>12 DEF VM
    <3>14. c.events = E /\ c.code = C /\ Threaded(set, c) /\ c.notify = set.notify
           /\ c.resumeOK = set.resumeOK
      BY <1>8, <3>12, <3>13, ZenonT(60) DEF VM, Threaded
    <3>15. Threaded(v, c)
      BY <1>8, <3>14 DEF Threaded
    <3>. QED
      BY <1>6, <1>8, <2>1, <3>5, <3>7, <3>8, <3>13, <3>14, <3>15
  <2>2. CASE r.kind = "STEP" /\ "DEAD" \in v.state[r.mods[1].thread]
    <3>1. c = refused
      BY <1>11, <2>2
    <3>2. PICK Q : Q = [R EXCEPT !.inUse = FALSE, !.mods = <<>>]
      OBVIOUS
    <3>3. Q \in EventRequest /\ Q.kind = r.kind /\ Q.policy = r.policy /\ Q.mods = <<>>
      <4>1. << >> \in Seq(Modifier)
        OBVIOUS
      <4>2. PICK M : M = << >>
        OBVIOUS
      <4>3. Q = [R EXCEPT !.inUse = FALSE, !.mods = M] /\ M \in Seq(Modifier)
        BY <3>2, <4>1, <4>2
      <4>4. Q \in EventRequest /\ Q.kind = r.kind /\ Q.policy = r.policy /\ Q.mods = M
        BY <1>4, <4>3 DEF EventRequest
      <4>. QED
        BY <4>2, <4>4
    <3>4. PICK E : E = [new EXCEPT ![i] = Q]
      OBVIOUS
    <3>5. E \in Seq(EventRequest) /\ DOMAIN E = DOMAIN new /\ E[i] = Q
          /\ \A j \in DOMAIN v.events \ {i} : E[j] = v.events[j]
      <4>1. i \in DOMAIN new
        BY <1>6
      <4>2. DOMAIN v.events \subseteq DOMAIN new
        BY <1>6
      <4>3. /\ E \in Seq(EventRequest) /\ DOMAIN E = DOMAIN new /\ E[i] = Q
            /\ \A j \in DOMAIN new \ {i} : E[j] = new[j]
        BY <1>6, <3>3, <3>4, <4>1, OneReplaced
      <4>. QED
        BY <1>6, <4>2, <4>3
    <3>6. E = [new EXCEPT ![i].inUse = FALSE, ![i].mods = <<>>]
      BY <1>6, <3>2, <3>4
    <3>7. c = [set EXCEPT !.events = E]
      BY <1>8, <1>9, <3>1, <3>6
    <3>8. c \in VM
      BY <1>8, <3>5, <3>7 DEF VM
    <3>9. c.events = E /\ c.code = set.code /\ Threaded(set, c) /\ c.notify = set.notify
          /\ c.resumeOK = set.resumeOK
      BY <1>8, <3>7, <3>8, ZenonT(60) DEF VM, Threaded
    <3>10. Threaded(v, c)
      BY <1>8, <3>9 DEF Threaded
    <3>. QED
      BY <1>6, <1>8, <2>2, <3>3, <3>5, <3>8, <3>9, <3>10
  <2>3. CASE r.kind # "BREAKPOINT" /\ ~(r.kind = "STEP" /\ "DEAD" \in v.state[r.mods[1].thread])
    <3>1. c = set
      BY <1>11, <2>3
    <3>. QED
      BY <1>4, <1>6, <1>8, <2>3, <3>1
  <2>. QED
    BY <2>1, <2>2, <2>3
<1>13. PICK K : K = v.notify \cup {r.kind}
  OBVIOUS
<1>14. K \in SUBSET EventKinds
  BY <1>2, <1>13 DEF VM, RequestType
<1>15. w = [c EXCEPT !.notify = K]
  BY <1>10, <1>12, <1>13 DEF EventRequest_Set
<1>16. w \in VM
  BY <1>12, <1>14, <1>15, ZenonT(60) DEF VM
<1>17. /\ Threaded(c, w) /\ w.notify = K /\ w.resumeOK = c.resumeOK
       /\ w.events = c.events /\ w.code = c.code
  BY <1>12, <1>15, <1>16, ZenonT(60) DEF VM, Threaded
<1>18. Threaded(v, w)
  BY <1>12, <1>17 DEF Threaded
<1>19. i \in Nat \ {0} /\ (i \in DOMAIN v.events => ~v.events[i].inUse)
  BY <1>1, <1>3
<1>. QED
  BY <1>12, <1>13, <1>17, <1>18, <1>19

LEMMA BreaksAdded ==
    ASSUME NEW v \in VM, BreaksInv(v), NEW r \in Requests,
           r.kind = "BREAKPOINT" => v.code[r.mods[1].spot] # "BREAKPOINT",
           r.kind = "EXCEPTION" /\ r.policy # "NONE" =>
             r.mods # <<>> /\ \A j \in DOMAIN r.mods :
                                 r.mods[j].kind = "ExceptionOnly" /\ ~r.mods[j].uncaught,
           NEW w, w = EventRequest_Set(v, r)
    PROVE  /\ BreaksInv(w) /\ Threaded(v, w) /\ w.resumeOK = v.resumeOK
           /\ w.notify = v.notify \cup {r.kind}
           /\ \A s \in Spots : v.code[s] = "BREAKPOINT" => w.code[s] = "BREAKPOINT"
           /\ \A s \in Spots : w.code[s] = "BREAKPOINT" =>
                v.code[s] = "BREAKPOINT" \/ r.kind = "BREAKPOINT"
<1>1. PICK i : i = createVmEvent(v)
  OBVIOUS
<1>2. /\ Threaded(v, w) /\ w.notify = v.notify \cup {r.kind} /\ w.resumeOK = v.resumeOK
      /\ i \in Nat \ {0} /\ DOMAIN w.events = DOMAIN v.events \cup {i}
      /\ i \in DOMAIN v.events => ~v.events[i].inUse
      /\ \A j \in DOMAIN v.events \ {i} : w.events[j] = v.events[j]
      /\ w.events[i].kind = r.kind /\ w.events[i].policy = r.policy
      /\ w.events[i].mods = r.mods \/ w.events[i].mods = <<>>
      /\ r.kind # "STEP" => w.events[i].mods = r.mods
      /\ r.kind = "BREAKPOINT" =>
           /\ w.events[i].inUse /\ w.events[i].opcode = "op"
           /\ w.code = [v.code EXCEPT ![r.mods[1].spot] = "BREAKPOINT"]
      /\ r.kind # "BREAKPOINT" => w.code = v.code
  BY <1>1, CreateFields
<1>3. r.kind = "BREAKPOINT" => r.mods # <<>> /\ r.mods[1].spot \in Spots
  BY DebuggerAssumption
<1>4. v.code \in [Spots -> Opcode]
  BY DEF VM
<1>5. \A s \in Spots :
        /\ w.code[s] = IF r.kind = "BREAKPOINT" /\ s = r.mods[1].spot THEN "BREAKPOINT"
                       ELSE v.code[s]
  BY <1>2, <1>3, <1>4
<1>6. \A j \in DOMAIN v.events : Installed(v.events[j]) =>
        /\ j # i /\ v.events[j].mods # <<>> /\ v.events[j].mods[1].spot \in Spots
        /\ v.code[v.events[j].mods[1].spot] = "BREAKPOINT"
  BY <1>2 DEF BreaksInv, Installed
<1>7. Installed(w.events[i]) <=> r.kind = "BREAKPOINT"
  BY <1>2 DEF Installed
<1>8. ASSUME NEW j \in DOMAIN w.events
      PROVE  /\ w.events[j].kind = "BREAKPOINT" /\ w.events[j].mods # <<>>
                  => w.events[j].opcode = "op"
             /\ Installed(w.events[j]) =>
                  /\ w.events[j].mods # <<>> /\ w.events[j].mods[1].spot \in Spots
                  /\ w.code[w.events[j].mods[1].spot] = "BREAKPOINT"
             /\ w.events[j].kind = "EXCEPTION" /\ w.events[j].policy # "NONE" =>
                  /\ w.events[j].mods # <<>>
                  /\ \A k \in DOMAIN w.events[j].mods :
                        /\ w.events[j].mods[k].kind = "ExceptionOnly"
                        /\ ~w.events[j].mods[k].uncaught
  <2>1. CASE j = i
    BY <1>2, <1>3, <1>5, <1>7, <2>1
  <2>2. CASE j # i
    <3>1. j \in DOMAIN v.events /\ w.events[j] = v.events[j]
      BY <1>2, <2>2
    <3>2. /\ v.events[j].kind = "BREAKPOINT" /\ v.events[j].mods # <<>>
                => v.events[j].opcode = "op"
          /\ v.events[j].kind = "EXCEPTION" /\ v.events[j].policy # "NONE" =>
               /\ v.events[j].mods # <<>>
               /\ \A k \in DOMAIN v.events[j].mods :
                     /\ v.events[j].mods[k].kind = "ExceptionOnly"
                     /\ ~v.events[j].mods[k].uncaught
      BY <3>1 DEF BreaksInv
    <3>. QED
      BY <1>5, <1>6, <3>1, <3>2
  <2>. QED
    BY <2>1, <2>2
<1>9. \A j, k \in DOMAIN v.events :
         Installed(v.events[j]) /\ Installed(v.events[k])
           /\ v.events[j].mods[1].spot = v.events[k].mods[1].spot => j = k
  BY DEF BreaksInv
<1>10. ASSUME NEW j \in DOMAIN w.events, NEW k \in DOMAIN w.events,
              Installed(w.events[j]) /\ Installed(w.events[k])
                /\ w.events[j].mods[1].spot = w.events[k].mods[1].spot
       PROVE  j = k
  <2>1. ASSUME NEW l \in DOMAIN w.events, l # i, Installed(w.events[l]), Installed(w.events[i])
        PROVE  w.events[l].mods[1].spot # w.events[i].mods[1].spot
    <3>1. l \in DOMAIN v.events /\ w.events[l] = v.events[l]
      BY <1>2, <2>1
    <3>2. r.kind = "BREAKPOINT" /\ w.events[i].mods = r.mods
      BY <1>2, <1>7, <2>1
    <3>. QED
      BY <1>6, <2>1, <3>1, <3>2
  <2>2. CASE j = i \/ k = i
    BY <1>10, <2>1, <2>2
  <2>3. CASE j # i /\ k # i
    BY <1>2, <1>9, <1>10, <2>3
  <2>. QED
    BY <2>2, <2>3
<1>11. ASSUME NEW s \in Spots
       PROVE  /\ w.code[s] # "none"
              /\ w.code[s] = "BREAKPOINT" =>
                   \E j \in DOMAIN w.events :
                      Installed(w.events[j]) /\ w.events[j].mods[1].spot = s
  <2>1. CASE r.kind = "BREAKPOINT" /\ s = r.mods[1].spot
    <3>1. Installed(w.events[i]) /\ w.events[i].mods = r.mods /\ i \in DOMAIN w.events
      BY <1>2, <1>7, <2>1
    <3>. QED
      BY <1>5, <2>1, <3>1
  <2>2. CASE ~(r.kind = "BREAKPOINT" /\ s = r.mods[1].spot)
    <3>1. w.code[s] = v.code[s]
      BY <1>5, <2>2
    <3>2. v.code[s] # "none"
      BY DEF BreaksInv
    <3>3. ASSUME v.code[s] = "BREAKPOINT"
          PROVE  \E j \in DOMAIN w.events :
                      Installed(w.events[j]) /\ w.events[j].mods[1].spot = s
      <4>1. PICK j \in DOMAIN v.events : Installed(v.events[j]) /\ v.events[j].mods[1].spot = s
        BY <3>3 DEF BreaksInv
      <4>2. j # i
        BY <1>6, <4>1
      <4>3. j \in DOMAIN w.events /\ w.events[j] = v.events[j]
        BY <1>2, <4>2
      <4>. QED
        BY <4>1, <4>3
    <3>. QED
      BY <3>1, <3>2, <3>3
  <2>. QED
    BY <2>1, <2>2
<1>12. BreaksInv(w)
  BY <1>8, <1>10, <1>11 DEF BreaksInv
<1>. QED
  BY <1>2, <1>5, <1>12

LEMMA SetRequestCommand ==
    ASSUME IInv, NEW r \in Requests, MaySet(vm, r, {}), SetRequest(r)
    PROVE  IInv'
<1>1. PICK v : v = EventRequest_Set(vm, r)
  OBVIOUS
<1>2. PICK W : W = [what |-> "step", thread |-> r.mods[1].thread]
  OBVIOUS
<1>3. /\ Listening /\ GoesOn /\ UNCHANGED <<asleep, place>>
      /\ \/ r.kind = "STEP" /\ Becomes(v, {}) /\ waits' = <<W>> \o waits
         \/ AfterCommand(v)
  BY <1>1, <1>2 DEF SetRequest, Command
<1>4. vm \in VM /\ ~vm.resumeOK /\ Placed(vm, {}) /\ waits \in Seq(WaitType)
      /\ \A i \in DOMAIN waits :
                waits[i].what = "start" => i = Len(waits) /\ BeforeStart(vm)
  BY CommandFacts
<1>5. /\ Data /\ ControlInv /\ Sane(vm, asleep, place) /\ CodeInv(vm) /\ vm.told = {}
      /\ HitInv(vm, place, hit, Alert) /\ place \in [Threads -> Spots]
      /\ asleep \subseteq Threads
  BY DEF IInv, Data, Sane
<1>6. /\ r.kind = "BREAKPOINT" => vm.code[r.mods[1].spot] # "BREAKPOINT"
      /\ r.kind = "EXCEPTION" /\ r.policy # "NONE" =>
             r.mods # <<>> /\ \A j \in DOMAIN r.mods :
                                 r.mods[j].kind = "ExceptionOnly" /\ ~r.mods[j].uncaught
  BY DEF MaySet
<1>7. /\ BreaksInv(v) /\ Threaded(vm, v) /\ v.resumeOK = vm.resumeOK
      /\ v.notify = vm.notify \cup {r.kind}
      /\ \A s \in Spots : vm.code[s] = "BREAKPOINT" => v.code[s] = "BREAKPOINT"
      /\ \A s \in Spots : v.code[s] = "BREAKPOINT" =>
                vm.code[s] = "BREAKPOINT" \/ r.kind = "BREAKPOINT"
  BY <1>1, <1>4, <1>5, <1>6, BreaksAdded DEF CodeInv
<1>8. CodeInv(v)
  BY <1>3, <1>5, <1>7 DEF CodeInv, Threaded, Listening
<1>9. Sane(v, asleep, place)
  BY <1>5, <1>7, <1>8, SaneThreaded
<1>10. v.told = {} /\ v.debugEvent = vm.debugEvent /\ (BeforeStart(vm) => BeforeStart(v))
  BY <1>5, <1>7 DEF Threaded, BeforeStart
<1>11. Halts(v, v.ready /\ at # "exit")
  <2>1. v.ready = vm.ready /\ v.state = vm.state /\ v.nextOpcode = vm.nextOpcode
    BY <1>7 DEF Threaded
  <2>. QED
    BY <1>5, <1>7, <2>1 DEF Halts, HitInv, Alert
<1>12. CASE AfterCommand(v)
  <2>1. \A i \in DOMAIN waits : waits[i].what = "start" => BeforeStart(v)
    BY <1>4, <1>10
  <2>. QED
    BY <1>3, <1>4, <1>7, <1>9, <1>10, <1>11, <1>12, <2>1, AfterCommandKeeps
<1>13. CASE r.kind = "STEP" /\ Becomes(v, {}) /\ waits' = <<W>> \o waits
  <2>1. /\ at' # "boot" /\ at' \notin {"fetch", "next"} /\ (at' # "exit" => at # "exit")
    BY <1>3, <1>5 DEF ControlInv, Listening, GoesOn
  <2>2. Halts(v, v.ready /\ at' # "exit")
    BY <1>11, <2>1 DEF Halts
  <2>3. Data'
    BY <1>3, <1>5, <1>9, <1>10, <1>13, <2>2, Settle
  <2>4. vm' = Settled(v) /\ v \in VM
    BY <1>9, <1>13 DEF Becomes, Settled, Sane
  <2>5. /\ vm'.debugEvent = v.debugEvent /\ vm'.current = v.current
        /\ vm'.count = v.count /\ vm'.state = v.state
    BY <2>4, SettledFields
  <2>6. \A t \in Threads : vm'.debugEvent[t] = <<>>
    BY <1>3, <1>5, <1>10, <2>5, Quiet
  <2>7. EventsSent(vm)'
    BY <2>6 DEF EventsSent
  <2>8. BeforeStart(vm) => BeforeStart(vm')
    BY <1>10, <2>5 DEF BeforeStart
  <2>9. W \in WaitType /\ W.what = "step"
    BY <1>2, <1>13, DebuggerAssumption DEF WaitType
  <2>10. /\ waits' \in Seq(WaitType)
         /\ \A i \in DOMAIN waits' :
              waits'[i].what = "start" => i = Len(waits') /\ BeforeStart(vm')
    <3>1. /\ waits' \in Seq(WaitType) /\ Len(waits') = Len(waits) + 1 /\ waits'[1] = W
          /\ \A i \in 2 .. Len(waits') : waits'[i] = waits[i - 1]
      BY <1>4, <1>13, <2>9
    <3>2. ASSUME NEW i \in DOMAIN waits', waits'[i].what = "start"
          PROVE  i = Len(waits') /\ BeforeStart(vm')
      <4>1. i \in 2 .. Len(waits')
        BY <2>9, <3>1, <3>2
      <4>2. i - 1 \in DOMAIN waits /\ waits[i - 1].what = "start"
        BY <1>4, <3>1, <3>2, <4>1
      <4>3. i - 1 = Len(waits) /\ BeforeStart(vm)
        BY <1>4, <4>2
      <4>. QED
        BY <1>4, <2>8, <3>1, <4>1, <4>3
    <3>. QED
      BY <3>1, <3>2
  <2>11. ControlInv'
    BY <2>1, <2>7, <2>10 DEF ControlInv
  <2>. QED
    BY <2>3, <2>11 DEF IInv
<1>. QED
  BY <1>3, <1>12, <1>13

LEMMA AllCleared ==
    ASSUME NEW v \in VM, BreaksInv(v), NEW w, w = clearAllBreakpoints(v)
    PROVE  /\ Threaded(v, w) /\ w.resumeOK = v.resumeOK
           /\ BreaksInv(w) /\ \A s \in Spots : w.code[s] # "BREAKPOINT"
<1>1. PICK S : S = {i \in DOMAIN v.events : v.events[i].kind = "BREAKPOINT"}
  OBVIOUS
<1>2. w = clearEvents(v, S) /\ S \in SUBSET (DOMAIN v.events)
  BY <1>1 DEF clearAllBreakpoints
<1>3. \A j \in DOMAIN v.events \ S : ~Installed(v.events[j])
  BY <1>1 DEF Installed
<1>4. /\ Threaded(v, w) /\ w.notify = v.notify /\ w.resumeOK = v.resumeOK
      /\ BreaksInv(w)
      /\ \A s \in Spots : w.code[s] = "BREAKPOINT" =>
           /\ v.code[s] = "BREAKPOINT"
           /\ \E j \in DOMAIN v.events \ S :
                Installed(v.events[j]) /\ v.events[j].mods[1].spot = s
      /\ \A j \in DOMAIN v.events \ S :
           Installed(v.events[j]) => w.code[v.events[j].mods[1].spot] = "BREAKPOINT"
  BY <1>2, <1>3, ClearKeeps
<1>. QED
  BY <1>3, <1>4

LEMMA LoseConnectionCommand ==
    ASSUME IInv, MayDisconnect(vm, {}), LoseConnection
    PROVE  IInv'
<1>1. PICK x : x = VirtualMachine_Resume(vm)
  OBVIOUS
<1>2. PICK y : y = [x EXCEPT !.ready = FALSE, !.notify = {}]
  OBVIOUS
<1>3. PICK v : v = clearAllBreakpoints(y)
  OBVIOUS
<1>4. /\ Listening /\ GoesOn /\ UNCHANGED <<asleep, place>> /\ AfterCommand(v)
      /\ \A t \in OnQueue(vm.all) : vm.state[t] # {"ACTIVE"}
  BY <1>1, <1>2, <1>3
     DEF LoseConnection, Command, MayDisconnect, Valid, Running, ConnectionLost
<1>5. /\ Placed(x, {}) /\ Same(vm, x)
      /\ BeforeStart(vm) => BeforeStart(x) /\ x.runnable # <<>>
  BY <1>1, <1>4, ResumedAll
<1>6. Sane(vm, asleep, place) /\ vm.told = {}
  BY DEF IInv, Data
<1>7. Sane(x, asleep, place) /\ x \in VM
  BY <1>5, <1>6, SaneStands DEF Same
<1>8. y \in VM
  BY <1>2, <1>7 DEF VM
<1>9. /\ y.current = x.current /\ y.runnable = x.runnable /\ y.state = x.state
      /\ y.count = x.count /\ y.ip = x.ip /\ y.ipStore = x.ipStore /\ y.fatal = x.fatal
      /\ y.all = x.all /\ y.alive = x.alive /\ y.nextOpcode = x.nextOpcode
      /\ y.debugEvent = x.debugEvent /\ y.told = x.told /\ y.code = x.code
      /\ y.events = x.events /\ ~y.ready
  BY <1>2, <1>7, <1>8 DEF VM
<1>10. BreaksInv(y)
  BY <1>7, <1>9 DEF Sane, CodeInv, BreaksInv
<1>11. Threaded(y, v) /\ BreaksInv(v) /\ \A s \in Spots : v.code[s] # "BREAKPOINT"
  BY <1>3, <1>8, <1>10, AllCleared
<1>12. CodeInv(v)
  BY <1>11 DEF CodeInv
<1>13. /\ v.current = x.current /\ v.runnable = x.runnable /\ v.state = x.state
       /\ v.count = x.count /\ v.ip = x.ip /\ v.ipStore = x.ipStore /\ v.fatal = x.fatal
       /\ v.all = x.all /\ v.alive = x.alive /\ v.debugEvent = x.debugEvent
       /\ v.told = x.told /\ ~v.ready /\ v \in VM
  BY <1>9, <1>11 DEF Threaded
<1>14. Placed(v, {})
  BY <1>5, <1>13 DEF Placed
<1>15. Sane(v, asleep, place)
  BY <1>7, <1>12, <1>13, <1>14 DEF Sane, Position
<1>16. v.told = {} /\ v.debugEvent = vm.debugEvent /\ Halts(v, v.ready /\ at # "exit")
  BY <1>5, <1>6, <1>13 DEF Same, Halts
<1>17. BeforeStart(vm) => BeforeStart(v) /\ v.runnable # <<>>
  BY <1>5, <1>13 DEF BeforeStart
<1>. QED
  BY <1>4, <1>15, <1>16, <1>17, CommandFacts, AfterCommandKeeps

\* The VM exits.
LEMMA ExitKeeps ==
    ASSUME IInv, NEW v \in VM, v.code = vm.code, v.events = vm.events, Threaded(vm, v),
           v.notify = vm.notify \/ vm.ready, \A t \in Threads : vm.debugEvent[t] = <<>>,
           Becomes(KVM_Cleanup(v), {}), at' = "exit", waits' = <<>>,
           UNCHANGED <<asleep, place>>
    PROVE  IInv'
<1>1. PICK w : w = KVM_Cleanup(v)
  OBVIOUS
<1>2. Data /\ Sane(vm, asleep, place) /\ vm.told = {} /\ asleep \subseteq Threads
  BY DEF IInv, Data
<1>3. BreaksInv(v)
  BY <1>2 DEF Sane, CodeInv, BreaksInv
<1>4. Threaded(vm, w) /\ CodeInv(w)
  <2>1. CASE v.ready
    <3>1. w = clearAllBreakpoints(v)
      BY <1>1, <2>1 DEF KVM_Cleanup
    <3>2. Threaded(v, w) /\ BreaksInv(w) /\ \A s \in Spots : w.code[s] # "BREAKPOINT"
      BY <1>3, <3>1, AllCleared
    <3>3. Threaded(vm, w)
      BY <3>2 DEF Threaded
    <3>. QED
      BY <3>2, <3>3 DEF CodeInv
  <2>2. CASE ~v.ready
    <3>1. w = v
      BY <1>1, <2>2 DEF KVM_Cleanup
    <3>2. v.notify = vm.notify
      BY <2>2 DEF Threaded
    <3>3. CodeInv(v)
      BY <1>2, <1>3, <2>2, <3>2 DEF Sane, CodeInv, Threaded
    <3>. QED
      BY <3>1, <3>3
  <2>. QED
    BY <2>1, <2>2
<1>5. Sane(w, asleep, place)
  BY <1>2, <1>4, SaneThreaded
<1>6. w.told = {} /\ Halts(w, w.ready /\ at' # "exit") /\ w \in VM
  BY <1>2, <1>4 DEF Threaded, Halts
<1>7. Becomes(w, {})
  BY <1>1
<1>8. Data'
  BY <1>2, <1>5, <1>6, <1>7, Settle
<1>9. vm'.debugEvent = w.debugEvent
  <2>1. vm' = Settled(w)
    BY <1>7 DEF Becomes, Settled
  <2>. QED
    BY <1>6, <2>1, SettledFields
<1>10. EventsSent(vm)'
  BY <1>4, <1>9 DEF EventsSent, Threaded
<1>11. ControlInv'
  <2>1. waits' \in Seq(WaitType) /\ DOMAIN waits' = {}
    OBVIOUS
  <2>. QED
    BY <1>10, <2>1 DEF ControlInv
<1>. QED
  BY <1>8, <1>11 DEF IInv

LEMMA ExitCommand ==
    ASSUME IInv, Exit
    PROVE  IInv'
<1>1. PICK v : v = [vm EXCEPT !.notify = {}]
  OBVIOUS
<1>2. /\ Becomes(KVM_Cleanup(v), {}) /\ at' = "exit" /\ waits' = <<>>
      /\ UNCHANGED <<asleep, place>> /\ Listening /\ vm.ready
  BY <1>1 DEF Exit, Command, Listening
<1>3. v \in VM
  BY <1>1, CommandFacts DEF VM
<1>4. Threaded(vm, v) /\ v.code = vm.code /\ v.events = vm.events
  BY <1>1, <1>3, CommandFacts DEF VM, Threaded
<1>5. \A t \in Threads : vm.debugEvent[t] = <<>>
  BY <1>2, Quiet DEF IInv
<1>. QED
  BY <1>2, <1>3, <1>4, <1>5, ExitKeeps

LEMMA FinishStep ==
    ASSUME IInv, Finish
    PROVE  IInv'
<1>1. /\ Becomes(KVM_Cleanup(vm), {}) /\ at = "finish" /\ at' = "exit" /\ waits' = <<>>
      /\ UNCHANGED <<asleep, place>>
  BY DEF Finish, Executing
<1>2. vm \in VM /\ Threaded(vm, vm)
  BY CommandFacts DEF Threaded
<1>3. \A t \in Threads : vm.debugEvent[t] = <<>>
  BY <1>1 DEF IInv, ControlInv, EventsSent
<1>. QED
  BY <1>1, <1>2, <1>3, ExitKeeps

----------------------------------------------------------------------------
(* Steps of the VM in which no thread moves *)

\* The current thread has events to be sent when it reschedules.
Kept(w) ==
    \A t \in Threads : w.debugEvent[t] # <<>> =>
        /\ t = w.current /\ w.timeToReschedule /\ w.ready
        /\ \A i \in DOMAIN w.debugEvent[t] :
             /\ w.debugEvent[t][i].kind \in {"START", "PREPARE"}
             /\ w.debugEvent[t][i].thread \in OnQueue(w.all)

\* Where the VM is, after a step that leaves it waiting for nothing.
LEMMA ControlKeeps ==
    ASSUME NEW w \in VM, NEW moved, Becomes(w, moved), waits' = <<>>, at' # "boot",
           at' \in {"fetch", "next"} => w.current # NIL,
           at' = "next" /\ w.ready => w.nextOpcode[w.current] = "none",
           \/ at' = "reschedulePoint" /\ Kept(w)
           \/ \A t \in Threads : w.debugEvent[t] = <<>>
    PROVE  ControlInv'
<1>1. vm' = Settled(w)
  BY DEF Becomes, Settled
<1>2. /\ vm'.current = w.current /\ vm'.all = w.all /\ vm'.nextOpcode = w.nextOpcode
      /\ vm'.debugEvent = w.debugEvent /\ vm'.ready = w.ready
      /\ vm'.timeToReschedule = w.timeToReschedule
  BY <1>1, SettledFields
<1>3. EventsSent(vm)'
  BY <1>2 DEF EventsSent, Kept
<1>4. waits' \in Seq(WaitType) /\ DOMAIN waits' = {}
  OBVIOUS
<1>. QED
  BY <1>2, <1>3, <1>4 DEF ControlInv

LEMMA StartJVMStep ==
    ASSUME IInv, StartJVM
    PROVE  IInv'
<1>1. /\ at = "boot" /\ at' = "reschedulePoint" /\ UNCHANGED <<asleep, place>>
      /\ \/ /\ Becomes(suspendAllThreads(vm), {})
            /\ waits' = <<[what |-> "start", thread |-> MainThread]>>
         \/ Becomes(sendAllClassPrepares(vm), {}) /\ UNCHANGED waits
  BY DEF StartJVM
<1>2. Data /\ vm = Booted /\ waits = <<>> /\ vm \in VM /\ Placed(vm, {})
  BY <1>1, CommandFacts DEF IInv, ControlInv
<1>3. MainThread \in Threads /\ NIL \notin Threads
  BY DebuggerAssumption
<1>4. /\ vm.current = MainThread /\ vm.all = <<MainThread>>
      /\ vm.state = [t \in Threads |-> IF t = MainThread THEN {"ACTIVE"} ELSE {}]
      /\ vm.count = [t \in Threads |-> 0]
      /\ \A t \in Threads : vm.debugEvent[t] = <<>>
  BY <1>2 DEF Booted
<1>5. ASSUME NEW w, Same(vm, w), Placed(w, {}), Becomes(w, {})
      PROVE  Data' /\ \A t \in Threads : w.debugEvent[t] = <<>>
  BY <1>1, <1>2, <1>4, <1>5, SameStep DEF Same
<1>6. CASE /\ Becomes(suspendAllThreads(vm), {})
           /\ waits' = <<[what |-> "start", thread |-> MainThread]>>
  <2>1. PICK w : w = suspendAllThreads(vm)
    OBVIOUS
  <2>2. /\ Placed(w, {}) /\ Same(vm, w) /\ w.current = NIL
        /\ w.count[MainThread] = vm.count[MainThread] + 1
    BY <1>2, <1>4, <2>1, SuspendAllKeeps
  <2>3. Data' /\ \A t \in Threads : w.debugEvent[t] = <<>>
    BY <1>5, <1>6, <2>1, <2>2
  <2>4. vm' = Settled(w) /\ w \in VM
    BY <1>6, <2>1, <2>2 DEF Becomes, Settled, Same
  <2>5. /\ vm'.debugEvent = w.debugEvent /\ vm'.current = w.current
        /\ vm'.count = w.count /\ vm'.state = w.state
    BY <2>4, SettledFields
  <2>6. BeforeStart(vm')
    <3>1. w.count[MainThread] <= 1
      BY <1>3, <1>4, <2>2
    <3>2. \A t \in Threads : Life(w.state[t]) = IF t = MainThread THEN {"ACTIVE"} ELSE {}
      BY <1>4, <2>2 DEF Same, Life
    <3>3. \A t \in Threads \ {MainThread} : w.state[t] = {}
      <4>1. \A t \in Threads : w.state[t] # {"DBG_SUSPENDED"}
        BY <2>2 DEF Placed
      <4>. QED
        BY <3>2, <4>1 DEF Life
    <3>. QED
      BY <1>3, <2>2, <2>5, <3>1, <3>2, <3>3 DEF BeforeStart
  <2>7. EventsSent(vm)'
    BY <2>3, <2>5 DEF EventsSent
  <2>8. PICK W : W = [what |-> "start", thread |-> MainThread]
    OBVIOUS
  <2>9. W \in WaitType
    BY <1>3, <2>8 DEF WaitType
  <2>10. waits' \in Seq(WaitType) /\ DOMAIN waits' = {1} /\ Len(waits') = 1
    BY <1>6, <2>8, <2>9
  <2>11. ControlInv'
    BY <1>1, <2>6, <2>7, <2>10 DEF ControlInv
  <2>. QED
    BY <2>3, <2>11 DEF IInv
<1>7. CASE Becomes(sendAllClassPrepares(vm), {}) /\ UNCHANGED waits
  <2>1. PICK w : w = sendAllClassPrepares(vm)
    OBVIOUS
  <2>2. Placed(w, {}) /\ Same(vm, w)
    BY <1>2, <1>3, <1>4, <2>1, PreparesKeep
  <2>3. Data' /\ \A t \in Threads : w.debugEvent[t] = <<>>
    BY <1>5, <1>7, <2>1, <2>2
  <2>4. w \in VM /\ Becomes(w, {}) /\ waits' = <<>>
    BY <1>2, <1>7, <2>1, <2>2 DEF Same
  <2>5. ControlInv'
    BY <1>1, <2>3, <2>4, ControlKeeps
  <2>. QED
    BY <2>3, <2>5 DEF IInv
<1>. QED
  BY <1>1, <1>6, <1>7

LEMMA NoCommandStep ==
    ASSUME IInv, NoCommand
    PROVE  IInv'
<1>1. /\ waits = <<>> /\ at \in {"events", "commands"} /\ at' \in {"commands", "switch"}
      /\ UNCHANGED <<vm, asleep, place, hit, waits>>
  BY DEF NoCommand, Executing
<1>2. Data'
  BY <1>1 DEF IInv, Data, Alert, Sane
<1>3. \A t \in Threads : vm.debugEvent[t] = <<>>
  BY <1>1 DEF IInv, ControlInv, EventsSent
<1>4. EventsSent(vm)'
  BY <1>1, <1>3 DEF EventsSent
<1>5. waits' \in Seq(WaitType) /\ DOMAIN waits' = {}
  BY <1>1
<1>6. ControlInv'
  BY <1>1, <1>4, <1>5 DEF ControlInv
<1>. QED
  BY <1>2, <1>6 DEF IInv

LEMMA SwitchStep ==
    ASSUME IInv, Switch
    PROVE  IInv'
<1>1. PICK w : w = SwitchThread(vm)
  OBVIOUS
<1>2. /\ waits' = <<>> /\ at = "switch" /\ at' = (IF w.current = NIL THEN "events" ELSE "fetch")
      /\ UNCHANGED <<asleep, place>> /\ Becomes(w, {})
  BY <1>1 DEF Switch, Executing
<1>3. Data /\ Same(vm, w) /\ Placed(w, {}) /\ w \in VM
  BY <1>1, CommandFacts, SwitchKeeps DEF IInv, Same
<1>4. Data'
  BY <1>2, <1>3, SameStep
<1>5. \A t \in Threads : w.debugEvent[t] = <<>>
  BY <1>2, <1>3 DEF IInv, ControlInv, EventsSent, Same
<1>6. ControlInv'
  BY <1>2, <1>3, <1>5, ControlKeeps
<1>. QED
  BY <1>4, <1>6 DEF IInv

\* The events of the current thread are sent, if there are any.
LEMMA CheckCurrentKeeps ==
    ASSUME NEW v \in VM, Placed(v, {}), Kept(v), NEW w, w = CheckCurrent(v)
    PROVE  \E x : /\ Placed(x, {}) /\ Same(v, x) /\ x.current \in {v.current, NIL}
                  /\ w = [x EXCEPT !.debugEvent = [t \in Threads |-> <<>>]]
<1>1. v.debugEvent \in [Threads -> Seq(EventType)] /\ v.current \in Threads \cup {NIL}
  BY DEF VM
<1>2. CASE v.ready /\ v.current # NIL /\ v.debugEvent[v.current] # <<>>
  <2>1. PICK t : t = v.current
    OBVIOUS
  <2>2. t \in Threads /\ w = checkDebugEvent(v, t)
    BY <1>1, <1>2, <2>1 DEF CheckCurrent
  <2>3. \A i \in DOMAIN v.debugEvent[t] :
             /\ v.debugEvent[t][i].kind \in {"START", "PREPARE"}
             /\ v.debugEvent[t][i].thread \in OnQueue(v.all)
    BY <1>2, <2>1, <2>2 DEF Kept
  <2>4. PICK x : /\ Placed(x, {}) /\ Same(v, x) /\ x.current \in {v.current, NIL}
                 /\ w = [x EXCEPT !.debugEvent[t] = <<>>]
    BY <2>2, <2>3, CheckEventKeeps
  <2>5. x.debugEvent = v.debugEvent /\ \A u \in Threads \ {t} : v.debugEvent[u] = <<>>
    BY <2>1, <2>4 DEF Same, Kept
  <2>6. [x.debugEvent EXCEPT ![t] = <<>>] = [u \in Threads |-> <<>>]
    BY <1>1, <2>2, <2>5
  <2>7. w = [x EXCEPT !.debugEvent = [u \in Threads |-> <<>>]]
    BY <2>4, <2>6
  <2>. QED
    BY <2>4, <2>7
<1>3. CASE ~(v.ready /\ v.current # NIL /\ v.debugEvent[v.current] # <<>>)
  <2>1. w = v
    BY <1>3 DEF CheckCurrent
  <2>2. \A t \in Threads : v.debugEvent[t] = <<>>
    <3>1. NIL \notin Threads
      BY DebuggerAssumption
    <3>. QED
      BY <1>3, <3>1 DEF Kept
  <2>3. v.debugEvent = [t \in Threads |-> <<>>]
    BY <1>1, <2>2
  <2>4. w = [v EXCEPT !.debugEvent = [t \in Threads |-> <<>>]]
    BY <2>1, <2>3 DEF VM
  <2>. QED
    BY <2>4, SameRefl
<1>. QED
  BY <1>2, <1>3

\* Two values with the same threads, code and requests.
Alike(v, w) ==
    /\ w \in VM
    /\ w.current = v.current /\ w.runnable = v.runnable /\ w.state = v.state
    /\ w.count = v.count /\ w.ip = v.ip /\ w.ipStore = v.ipStore /\ w.fatal = v.fatal
    /\ w.all = v.all /\ w.alive = v.alive /\ w.ready = v.ready
    /\ w.code = v.code /\ w.events = v.events /\ w.notify = v.notify

LEMMA AlikeKeeps ==
    ASSUME NEW v, NEW w, Alike(v, w)
    PROVE  /\ \A D : Placed(v, D) => Placed(w, D)
           /\ \A a, p : Sane(v, a, p) => Sane(w, a, p)
<1>1. ASSUME NEW D, Placed(v, D) PROVE Placed(w, D)
  BY <1>1, SMTT(60) DEF Placed, Alike
<1>2. ASSUME NEW a, NEW p, Sane(v, a, p) PROVE Sane(w, a, p)
  <2>1. CodeInv(w)
    BY <1>2 DEF Sane, CodeInv, BreaksInv, Alike
  <2>. QED
    BY <1>1, <1>2, <2>1 DEF Sane, Position, Alike
<1>. QED
  BY <1>1, <1>2

LEMMA NoEventsType ==
    [t \in Threads |-> << >>] \in [Threads -> Seq(EventType)]
<1>1. << >> \in Seq(EventType)
  OBVIOUS
<1>. QED
  BY <1>1

LEMMA RescheduleStep ==
    ASSUME IInv, Reschedule
    PROVE  IInv'
<1>1. PICK y : y = CheckCurrent(vm)
  OBVIOUS
<1>2. PICK w : w = [y EXCEPT !.timeToReschedule = FALSE]
  OBVIOUS
<1>3. /\ waits' = <<>> /\ at = "reschedulePoint" /\ at' \in {"finish", "events"}
      /\ UNCHANGED <<asleep, place>> /\ Becomes(w, {})
  BY <1>1, <1>2 DEF Reschedule, Executing
<1>4. Data /\ Kept(vm) /\ vm \in VM /\ Placed(vm, {}) /\ vm.told = {} /\ asleep \subseteq Threads
      /\ Sane(vm, asleep, place)
  BY CommandFacts DEF IInv, ControlInv, EventsSent, Kept, Data
<1>5. PICK x : /\ Placed(x, {}) /\ Same(vm, x)
               /\ y = [x EXCEPT !.debugEvent = [t \in Threads |-> <<>>]]
  BY <1>1, <1>4, CheckCurrentKeeps
<1>6. PICK E : E = [t \in Threads |-> << >>]
  OBVIOUS
<1>7. E \in [Threads -> Seq(EventType)] /\ x \in VM
  BY <1>5, <1>6, NoEventsType DEF Same
<1>8. w = [x EXCEPT !.debugEvent = E, !.timeToReschedule = FALSE]
  BY <1>2, <1>5, <1>6, <1>7 DEF VM
<1>9. w \in VM
  BY <1>7, <1>8 DEF VM
<1>10. Alike(x, w) /\ w.debugEvent = E /\ w.nextOpcode = x.nextOpcode /\ w.told = x.told
  BY <1>7, <1>8, <1>9, ZenonT(60) DEF VM, Alike
<1>11. Sane(w, asleep, place)
  BY <1>4, <1>5, <1>10, SaneStands, AlikeKeeps
<1>12. Halts(w, w.ready /\ at' # "exit")
  <2>1. Halts(x, x.ready /\ at' # "exit")
    BY <1>3, <1>4, <1>5, DataHalts DEF Alert, Same
  <2>. QED
    BY <1>10, <2>1 DEF Alike, Halts
<1>13. w.told = {}
  BY <1>4, <1>5, <1>10 DEF Same
<1>14. Data'
  BY <1>3, <1>4, <1>11, <1>12, <1>13, Settle
<1>15. ControlInv'
  BY <1>3, <1>6, <1>9, <1>10, ControlKeeps
<1>. QED
  BY <1>14, <1>15 DEF IInv

LEMMA WakeUpStep ==
    ASSUME IInv, NEW t \in Threads, WakeUp(t)
    PROVE  IInv'
<1>1. PICK w : w = resumeThread(vm, t)
  OBVIOUS
<1>2. /\ waits' = <<>> /\ at = "events" /\ at' = at /\ t \in asleep /\ asleep' = asleep \ {t}
      /\ place' = place /\ Becomes(w, {})
  BY <1>1 DEF WakeUp, Executing
<1>3. /\ Data /\ vm \in VM /\ Placed(vm, {}) /\ vm.told = {} /\ asleep \subseteq Threads
      /\ Sane(vm, asleep, place) /\ \A u \in Threads : vm.debugEvent[u] = <<>>
  BY <1>2, CommandFacts DEF IInv, ControlInv, EventsSent, Data
<1>4. "SUSPENDED" \in vm.state[t] /\ Life(vm.state[t]) \in Lives /\ t # vm.current
      /\ (t = vm.current => vm.state[t] = {"ACTIVE"})
  <2>1. "SUSPENDED" \in vm.state[t] /\ Life(vm.state[t]) \in Lives
    BY <1>2, <1>3 DEF Sane, Placed
  <2>2. NIL \notin Threads
    BY DebuggerAssumption
  <2>3. t = vm.current => vm.state[t] = {"ACTIVE"}
    BY <1>3, <2>2 DEF Placed
  <2>. QED
    BY <2>1, <2>3
<1>5. Life(vm.state[t]) = {"ACTIVE", "SUSPENDED"}
  BY <1>4 DEF Life, Lives
<1>6. /\ Standing(vm, w) /\ w.count = vm.count
      /\ {"SUSPENDED", "DBG_SUSPENDED"} \subseteq vm.state[t] =>
           /\ w.state = [vm.state EXCEPT ![t] = @ \ {"SUSPENDED"}]
           /\ w.runnable = vm.runnable /\ w.fatal = vm.fatal
      /\ "SUSPENDED" \in vm.state[t] /\ "DBG_SUSPENDED" \notin vm.state[t]
                /\ t # vm.current =>
           /\ w.state = [vm.state EXCEPT ![t] = {"ACTIVE"}]
           /\ w.runnable = AddThreadToQueue(vm.runnable, t) /\ w.fatal = vm.fatal
  BY <1>1, <1>3, ResumeThreadFields
<1>7. w \in VM /\ vm.state \in [Threads -> SUBSET Flag] /\ vm.runnable \in Seq(Threads)
  BY <1>3, <1>6 DEF Standing, VM
<1>8. /\ w.fatal = vm.fatal
      /\ \A u \in Threads \ {t} : w.state[u] = vm.state[u]
      /\ w.state[t] = vm.state[t] \ {"SUSPENDED"}
  <2>1. CASE "DBG_SUSPENDED" \in vm.state[t]
    BY <1>4, <1>6, <1>7, <2>1
  <2>2. CASE "DBG_SUSPENDED" \notin vm.state[t]
    <3>1. vm.state[t] = {"ACTIVE", "SUSPENDED"}
      BY <1>5, <2>2 DEF Life
    <3>. QED
      BY <1>4, <1>6, <1>7, <2>2, <3>1
  <2>. QED
    BY <2>1, <2>2
<1>9. /\ Life(w.state[t]) = {"ACTIVE"} /\ "DEAD" \notin vm.state[t] /\ "DEAD" \notin w.state[t]
      /\ "ACTIVE" \in w.state[t] /\ "ACTIVE" \in vm.state[t]
      /\ "DBG_SUSPENDED" \in w.state[t] <=> "DBG_SUSPENDED" \in vm.state[t]
  BY <1>5, <1>8 DEF Life
<1>10. t \notin OnQueue(vm.runnable) /\ NoDuplicates(vm.runnable)
  BY <1>3, <1>4 DEF Placed
<1>11. /\ NoDuplicates(w.runnable)
       /\ \A u \in Threads \ {t} : u \in OnQueue(w.runnable) <=> u \in OnQueue(vm.runnable)
       /\ t \in OnQueue(w.runnable) <=> w.state[t] = {"ACTIVE"}
  <2>1. CASE "DBG_SUSPENDED" \in vm.state[t]
    <3>1. w.runnable = vm.runnable /\ w.state[t] # {"ACTIVE"}
      BY <1>4, <1>6, <1>9, <2>1
    <3>. QED
      BY <1>10, <3>1
  <2>2. CASE "DBG_SUSPENDED" \notin vm.state[t]
    <3>1. w.runnable = AddThreadToQueue(vm.runnable, t) /\ w.state[t] = {"ACTIVE"}
      BY <1>4, <1>6, <1>7, <2>2
    <3>2. NoDuplicates(w.runnable) /\ OnQueue(w.runnable) = OnQueue(vm.runnable) \cup {t}
      BY <1>7, <1>10, <3>1, AddedQueue
    <3>. QED
      BY <3>1, <3>2
  <2>. QED
    BY <2>1, <2>2
<1>12. Placed(w, {})
  <2>1. "DBG_SUSPENDED" \in w.state[t] <=> w.count[t] > 0 /\ "DEAD" \notin w.state[t]
    BY <1>3, <1>6, <1>9 DEF Placed
  <2>2. /\ w.current = vm.current /\ w.all = vm.all
        /\ \A u \in Threads \ {t} : w.state[u] = vm.state[u] /\ w.count[u] = vm.count[u]
    BY <1>6, <1>8 DEF Standing
  <2>3. /\ Life(w.state[t]) \in Lives /\ w.state[t] # {"DBG_SUSPENDED"}
        /\ Life(w.state[t]) = {} <=> Life(vm.state[t]) = {}
        /\ "DEAD" \in w.state[t] <=> "DEAD" \in vm.state[t]
    BY <1>5, <1>9 DEF Lives
  <2>. QED
    BY <1>3, <1>4, <1>7, <1>8, <1>11, <2>1, <2>2, <2>3, OneThread
<1>13. CodeInv(w)
  BY <1>3, <1>6 DEF Sane, CodeInv, BreaksInv, Standing
<1>14. \A u \in Threads : "SUSPENDED" \in w.state[u] <=> u \in asleep'
  BY <1>2, <1>3, <1>8 DEF Sane
<1>15. /\ \A u \in Threads : "ACTIVE" \in w.state[u] <=> "ACTIVE" \in vm.state[u]
       /\ \A u \in Threads : "DEAD" \in w.state[u] <=> "DEAD" \in vm.state[u]
  BY <1>8, <1>9
<1>16. {u \in Threads : "ACTIVE" \in w.state[u]} = {u \in Threads : "ACTIVE" \in vm.state[u]}
  BY <1>15
<1>17. Sane(w, asleep', place)
  <2>1. \A u \in Threads : "DEAD" \notin w.state[u] => place[u] = Position(w, u)
    BY <1>3, <1>6, <1>15 DEF Sane, Standing, Position
  <2>2. w.alive = Cardinality({u \in Threads : "ACTIVE" \in w.state[u]})
    BY <1>3, <1>6, <1>16 DEF Sane, Standing
  <2>. QED
    BY <1>7, <1>12, <1>13, <1>14, <2>1, <2>2 DEF Sane
<1>18. w.told = {} /\ w.debugEvent = vm.debugEvent
  BY <1>3, <1>6 DEF Standing
<1>19. Halts(w, w.ready /\ at' # "exit")
  BY <1>2, <1>3, <1>6, <1>15 DEF Halts, Data, HitInv, Alert, Standing
<1>20. Data'
  <2>1. asleep' \subseteq Threads
    BY <1>2, <1>3
  <2>. QED
    BY <1>2, <1>3, <1>17, <1>18, <1>19, <2>1, Settle
<1>21. ControlInv'
  BY <1>2, <1>3, <1>7, <1>18, ControlKeeps
<1>. QED
  BY <1>20, <1>21 DEF IInv

----------------------------------------------------------------------------
(* Fetching an instruction *)

LEMMA FetchedFacts ==
    ASSUME IInv, Fetching, vm.current # NIL, NEW f, f = Fetched
    PROVE  /\ Alike(vm, f) /\ f.debugEvent = vm.debugEvent /\ f.told = {}
           /\ f.timeToReschedule = vm.timeToReschedule /\ ~f.resumeOK
           /\ \A t \in Threads : vm.debugEvent[t] = <<>>
           /\ \A t \in Threads \ {vm.current} : f.nextOpcode[t] = vm.nextOpcode[t]
           /\ f.ready => f.nextOpcode[vm.current] = "none"
           /\ Sane(f, asleep, place)
           /\ vm.current \in Threads /\ vm.state[vm.current] = {"ACTIVE"}
           /\ place[vm.current] = vm.ip /\ at # "exit"
<1>1. /\ vm \in VM /\ Sane(vm, asleep, place) /\ ~vm.resumeOK /\ vm.told = {} /\ Placed(vm, {})
      /\ vm.nextOpcode \in [Threads -> Opcode] /\ vm.current \in Threads
  <2>1. vm \in VM /\ Sane(vm, asleep, place) /\ ~vm.resumeOK /\ vm.told = {} /\ Placed(vm, {})
    BY CommandFacts DEF IInv, Data
  <2>. QED
    BY <2>1 DEF VM
<1>2. /\ Executing /\ at \in {"fetch", "next", "reschedulePoint"}
      /\ at = "reschedulePoint" => ~vm.timeToReschedule
  BY DEF Fetching
<1>3. \A t \in Threads : vm.debugEvent[t] = <<>>
  BY <1>2 DEF IInv, ControlInv, EventsSent
<1>4. PICK O : O = IF AtBreakpoint THEN [vm.nextOpcode EXCEPT ![vm.current] = "none"]
                   ELSE vm.nextOpcode
  OBVIOUS
<1>5. O \in [Threads -> Opcode]
  BY <1>1, <1>4 DEF Opcode
<1>6. f = [vm EXCEPT !.nextOpcode = O]
  <2>1. CASE AtBreakpoint
    BY <1>4, <2>1 DEF Fetched
  <2>2. CASE ~AtBreakpoint
    BY <1>1, <1>4, <2>2 DEF Fetched, VM
  <2>. QED
    BY <2>1, <2>2
<1>7. f \in VM
  BY <1>1, <1>5, <1>6, ZenonT(60) DEF VM
<1>8. Alike(vm, f) /\ f.nextOpcode = O /\ f.debugEvent = vm.debugEvent /\ f.told = vm.told
      /\ f.timeToReschedule = vm.timeToReschedule /\ f.resumeOK = vm.resumeOK
  BY <1>1, <1>6, <1>7 DEF VM, Alike
<1>9. \A t \in Threads \ {vm.current} : O[t] = vm.nextOpcode[t]
  BY <1>1, <1>4
<1>10. vm.ready => O[vm.current] = "none"
  <2>1. CASE AtBreakpoint
    BY <1>1, <1>4, <2>1
  <2>2. CASE ~AtBreakpoint
    BY <1>4, <2>2 DEF AtBreakpoint, IInv, ControlInv
  <2>. QED
    BY <2>1, <2>2
<1>11. Sane(f, asleep, place)
  BY <1>1, <1>8, AlikeKeeps
<1>12. vm.state[vm.current] = {"ACTIVE"}
  BY <1>1 DEF Placed
<1>13. place[vm.current] = vm.ip
  BY <1>1, <1>12 DEF Sane, Position
<1>. QED
  BY <1>1, <1>2, <1>3, <1>8, <1>9, <1>10, <1>11, <1>12, <1>13 DEF Alike

\* The instruction, and what it says of the breakpoint it is fetched at.
LEMMA TokenFacts ==
    ASSUME IInv, Fetching, vm.current # NIL
    PROVE  /\ Token \in Opcode /\ Token # "none"
           /\ Token = "BREAKPOINT" => /\ vm.code[vm.ip] = "BREAKPOINT" /\ vm.ready
                                      /\ hit[vm.current] \in {"no", "due"}
           /\ hit[vm.current] = "due" => Token # "op" /\ vm.ready
           /\ hit[vm.current] = "told" => Token = "op"
<1>1. /\ vm.current \in Threads /\ vm.state[vm.current] = {"ACTIVE"}
      /\ place[vm.current] = vm.ip /\ at # "exit"
  BY FetchedFacts
<1>2. /\ vm \in VM /\ CodeInv(vm) /\ HitInv(vm, place, hit, Alert)
  BY CommandFacts DEF IInv, Data, Sane
<1>3. vm.code \in [Spots -> Opcode] /\ vm.nextOpcode \in [Threads -> Opcode] /\ vm.ip \in Spots
  BY <1>2 DEF VM
<1>4. "DEAD" \notin vm.state[vm.current]
  BY <1>1
<1>5. /\ hit[vm.current] \in {"no", "due", "told"}
      /\ hit[vm.current] # "no" => vm.code[vm.ip] = "BREAKPOINT"
      /\ vm.ready =>
           /\ hit[vm.current] = "due" => vm.nextOpcode[vm.current] # "op"
           /\ hit[vm.current] = "told" => vm.nextOpcode[vm.current] = "op"
           /\ vm.nextOpcode[vm.current] = "BREAKPOINT" => vm.code[vm.ip] = "BREAKPOINT"
  BY <1>1, <1>2, <1>4 DEF HitInv, Alert
<1>6. vm.code[vm.ip] # "none" /\ (vm.code[vm.ip] = "BREAKPOINT" => vm.ready)
  BY <1>2, <1>3 DEF CodeInv, BreaksInv
<1>7. Token \in Opcode /\ Token # "none"
  BY <1>1, <1>3, <1>6 DEF Token, AtBreakpoint
<1>8. CASE AtBreakpoint
  BY <1>5, <1>6, <1>7, <1>8 DEF Token, AtBreakpoint
<1>9. CASE ~AtBreakpoint
  <2>1. Token = vm.code[vm.ip]
    BY <1>9 DEF Token
  <2>2. hit[vm.current] # "told"
    <3>1. vm.ready => vm.nextOpcode[vm.current] = "none"
      BY <1>9 DEF AtBreakpoint, IInv, ControlInv
    <3>. QED
      BY <1>5, <1>6, <3>1
  <2>. QED
    BY <1>5, <1>6, <1>7, <2>1, <2>2
<1>. QED
  BY <1>8, <1>9

LEMMA SingleStepKeeps ==
    ASSUME IInv, Fetching, vm.current # NIL, NEW f, f = Fetched,
           NEW h, h = handleSingleStep(f)
    PROVE  Placed(h, {}) /\ Same(f, h) /\ h.current \in {vm.current, NIL} /\ h.resumeOK = f.resumeOK
<1>1. /\ Alike(vm, f) /\ f.debugEvent = vm.debugEvent
      /\ \A t \in Threads : vm.debugEvent[t] = <<>>
      /\ Sane(f, asleep, place)
      /\ vm.current \in Threads /\ vm.state[vm.current] = {"ACTIVE"}
  BY FetchedFacts
<1>2. PICK e : e = Event("STEP", vm.current)
  OBVIOUS
<1>3. e \in EventType /\ e.kind = "STEP" /\ e.thread = vm.current
  BY <1>1, <1>2, EventIsTyped DEF EventKinds
<1>4. h = setEvent(f, e)
  BY <1>1, <1>2 DEF handleSingleStep, setEvent_SingleStep, Alike
<1>5. f \in VM /\ Placed(f, {}) /\ f.current = vm.current
  BY <1>1 DEF Sane, Alike
<1>6. vm.current \in OnQueue(f.all)
  BY <1>1, <1>5, ZenonT(60) DEF Placed, Alike, Life
<1>7. /\ Placed(h, {}) /\ Same(f, h) /\ h.current \in {f.current, NIL}
      /\ h.resumeOK = f.resumeOK
  BY <1>3, <1>4, <1>5, <1>6, SetEventKeeps
<1>. QED
  BY <1>5, <1>7

LEMMA StopAfterStepStep ==
    ASSUME IInv, StopAfterStep
    PROVE  IInv'
<1>. DEFINE c == vm.current
<1>1. PICK f, h, T : f = Fetched /\ h = handleSingleStep(f) /\ T = Token
  OBVIOUS
<1>2. PICK w : w = [h EXCEPT !.nextOpcode[c] = T, !.timeToReschedule = TRUE]
  OBVIOUS
<1>3. /\ Fetching /\ c \in vm.isStepping /\ h.current = NIL /\ at' = "reschedulePoint"
      /\ waits' = <<>> /\ UNCHANGED <<asleep, place>> /\ Becomes(w, {})
  BY <1>1, <1>2 DEF StopAfterStep, Fetching, Executing
<1>4. Data /\ vm \in VM /\ vm.current # NIL /\ asleep \subseteq Threads
  <2>1. vm \in VM /\ NIL \notin Threads /\ vm.isStepping \subseteq Threads
    BY CommandFacts, DebuggerAssumption DEF VM
  <2>. QED
    BY <1>3, <2>1 DEF IInv, Data
<1>5. /\ Alike(vm, f) /\ f.debugEvent = vm.debugEvent /\ f.told = {}
      /\ \A t \in Threads : vm.debugEvent[t] = <<>>
      /\ \A t \in Threads \ {c} : f.nextOpcode[t] = vm.nextOpcode[t]
      /\ f.ready => f.nextOpcode[c] = "none"
      /\ Sane(f, asleep, place)
      /\ c \in Threads /\ vm.state[c] = {"ACTIVE"}
      /\ place[c] = vm.ip /\ at # "exit"
  BY <1>1, <1>3, <1>4, FetchedFacts
<1>6. Placed(h, {}) /\ Same(f, h)
  BY <1>1, <1>3, <1>4, SingleStepKeeps
<1>7. /\ T \in Opcode
      /\ T = "BREAKPOINT" => vm.code[vm.ip] = "BREAKPOINT"
      /\ hit[c] = "due" => T # "op"
      /\ hit[c] = "told" => T = "op"
  BY <1>1, <1>3, <1>4, TokenFacts
<1>8. PICK O : O = [h.nextOpcode EXCEPT ![c] = T]
  OBVIOUS
<1>9. h \in VM /\ O \in [Threads -> Opcode] /\ h.nextOpcode \in [Threads -> Opcode]
  <2>1. h \in VM /\ h.nextOpcode \in [Threads -> Opcode]
    BY <1>6 DEF Same, VM
  <2>. QED
    BY <1>7, <1>8, <2>1
<1>10. w = [h EXCEPT !.nextOpcode = O, !.timeToReschedule = TRUE]
  BY <1>2, <1>8
<1>11. w \in VM
  BY <1>9, <1>10 DEF VM
<1>12. Alike(h, w) /\ w.nextOpcode = O /\ w.debugEvent = h.debugEvent /\ w.told = h.told
  BY <1>9, <1>10, <1>11, ZenonT(60) DEF VM, Alike
<1>13. Sane(w, asleep, place)
  BY <1>5, <1>6, <1>12, SaneStands, AlikeKeeps
<1>14. \A t \in Threads : "DEAD" \notin w.state[t] => "DEAD" \notin vm.state[t]
  BY <1>5, <1>6, <1>12 DEF Same, Alike, Life
<1>15. /\ w.ready = vm.ready /\ w.code = vm.code /\ w.told = {}
       /\ w.debugEvent = vm.debugEvent
       /\ \A t \in Threads \ {c} : w.nextOpcode[t] = vm.nextOpcode[t]
       /\ w.nextOpcode[c] = T
  BY <1>5, <1>6, <1>8, <1>9, <1>12 DEF Same, Alike
<1>16. Halts(w, w.ready /\ at' # "exit")
  <2>1. HitInv(vm, place, hit, Alert) /\ (w.ready => Alert)
    BY <1>4, <1>5, <1>15 DEF Data, Alert
  <2>. QED
    BY <1>5, <1>7, <1>14, <1>15, <2>1 DEF Halts, HitInv
<1>17. Data'
  BY <1>3, <1>4, <1>13, <1>15, <1>16, Settle
<1>18. ControlInv'
  BY <1>3, <1>5, <1>11, <1>15, ControlKeeps
<1>. QED
  BY <1>17, <1>18 DEF IInv

\* The data an instruction begins with.
LEMMA PreparedFacts ==
    ASSUME IInv, NEW v \in Prepared
    PROVE  /\ Fetching /\ vm.current \in Threads /\ v \in VM /\ Placed(v, {})
           /\ v.current = vm.current /\ vm.current # NIL
           /\ Sane(v, asleep, place) /\ v.told = {} /\ ~v.resumeOK
           /\ v.ready = vm.ready /\ v.code = vm.code
           /\ \A t \in Threads : v.debugEvent[t] = <<>>
           /\ \A t \in Threads : Life(v.state[t]) = Life(vm.state[t])
           /\ \A t \in Threads \ {vm.current} : v.nextOpcode[t] = vm.nextOpcode[t]
           /\ v.ready => v.nextOpcode[vm.current] = "none"
           /\ v.state[vm.current] = {"ACTIVE"} /\ v.ip = vm.ip
           /\ place[vm.current] = v.ip /\ at # "exit"
           /\ waits = <<>>
<1>1. Fetching /\ vm.current # NIL /\ waits = <<>>
  BY DEF Prepared, Fetching, Executing
<1>2. PICK f : f = Fetched
  OBVIOUS
<1>3. /\ Alike(vm, f) /\ f.debugEvent = vm.debugEvent /\ f.told = {} /\ ~f.resumeOK
      /\ \A t \in Threads : vm.debugEvent[t] = <<>>
      /\ \A t \in Threads \ {vm.current} : f.nextOpcode[t] = vm.nextOpcode[t]
      /\ f.ready => f.nextOpcode[vm.current] = "none"
      /\ Sane(f, asleep, place)
      /\ vm.current \in Threads /\ vm.state[vm.current] = {"ACTIVE"}
      /\ place[vm.current] = vm.ip /\ at # "exit"
  BY <1>1, <1>2, FetchedFacts
<1>4. /\ Placed(v, {}) /\ Same(f, v) /\ v.current = vm.current /\ v.resumeOK = f.resumeOK
  <2>1. CASE v = f
    <3>1. Placed(f, {}) /\ f \in VM
      BY <1>3 DEF Sane
    <3>. QED
      BY <1>3, <2>1, <3>1, SameRefl DEF Alike
  <2>2. CASE v # f
    <3>1. v = handleSingleStep(f) /\ v.current # NIL
      BY <1>1, <1>2, <2>2 DEF Prepared
    <3>. QED
      BY <1>1, <1>2, <3>1, SingleStepKeeps
  <2>. QED
    BY <2>1, <2>2
<1>5. Sane(v, asleep, place) /\ v \in VM
  <2>1. Sane(v, asleep, place)
    BY <1>3, <1>4, SaneStands
  <2>. QED
    BY <2>1 DEF Sane
<1>6. v.state[vm.current] = {"ACTIVE"}
  BY <1>1, <1>4 DEF Placed
<1>7. place[vm.current] = v.ip
  BY <1>3, <1>4, <1>5, <1>6 DEF Sane, Position
<1>. QED
  BY <1>1, <1>3, <1>4, <1>5, <1>6, <1>7 DEF Same, Alike

----------------------------------------------------------------------------
(* Breakpoints *)

LEMMA PolicyKeeps ==
    ASSUME NEW v \in VM, NEW D, Placed(v, D), NEW policy \in Policies,
           NEW t \in OnQueue(v.all), NEW w, w = handleSuspendPolicy(v, policy, t)
    PROVE  Placed(w, D) /\ Same(v, w)
<1>1. CASE policy = "NONE"
  BY <1>1, SameRefl DEF handleSuspendPolicy
<1>2. CASE policy = "EVENT_THREAD"
  <2>1. w = suspendSpecificThread(v, t)
    BY <1>2 DEF handleSuspendPolicy
  <2>. QED
    BY <2>1, SuspendOneKeeps
<1>3. CASE policy = "ALL"
  <2>1. w = suspendAllThreads(v)
    BY <1>3 DEF handleSuspendPolicy
  <2>. QED
    BY <2>1, SuspendAllKeeps
<1>. QED
  BY <1>1, <1>2, <1>3 DEF Policies

\* The request that a breakpoint in the code is for knows the instruction.
LEMMA BreakEventFound ==
    ASSUME NEW v \in VM, BreaksInv(v), NEW s \in Spots, v.code[s] = "BREAKPOINT",
           NEW i, i = findBreakEvent(v, s)
    PROVE  i \in DOMAIN v.events /\ i # 0 /\ v.events[i].opcode = "op"
             /\ v.events[i].policy \in Policies
<1>1. /\ DOMAIN v.events = 1 .. Len(v.events) /\ Len(v.events) \in Nat
      /\ \A j \in 1 .. Len(v.events) : v.events[j] \in EventRequest
  BY RequestsType
<1>. DEFINE found == {j \in DOMAIN v.events :
                        /\ v.events[j].kind = "BREAKPOINT"
                        /\ \E k \in DOMAIN v.events[j].mods : v.events[j].mods[k].spot = s}
<1>2. PICK j \in DOMAIN v.events : Installed(v.events[j]) /\ v.events[j].mods[1].spot = s
  BY DEF BreaksInv
<1>3. v.events[j].mods # <<>> /\ v.events[j].mods \in Seq(Modifier)
  BY <1>1, <1>2 DEF BreaksInv, EventRequest
<1>4. 1 \in DOMAIN v.events[j].mods
  BY <1>3
<1>5. j \in found
  BY <1>2, <1>4 DEF Installed
<1>6. found # {} /\ found \in SUBSET Nat
  BY <1>1, <1>5
<1>7. i \in found
  <2>1. \E x \in found : \A y \in found : x <= y
    <3>. HIDE DEF found
    <3>. QED
      BY <1>6, LeastNumber, SMTT(60)
  <2>2. i = CHOOSE x \in found : \A y \in found : x <= y
    BY <1>6, Zenon DEF findBreakEvent
  <2>. HIDE DEF found
  <2>. QED
    BY <2>1, <2>2
<1>8. i \in DOMAIN v.events /\ v.events[i].kind = "BREAKPOINT" /\ v.events[i].mods # <<>>
  BY <1>7
<1>9. v.events[i].opcode = "op"
  BY <1>8 DEF BreaksInv
<1>10. v.events[i].policy \in Policies
  BY <1>1, <1>8 DEF EventRequest
<1>. QED
  BY <1>1, <1>8, <1>9, <1>10

LEMMA BreakpointStep ==
    ASSUME IInv, Breakpoint
    PROVE  IInv'
<1>. DEFINE c == vm.current
<1>1. PICK v \in Prepared :
        IF v.debugEvent[v.current] # <<>> THEN Becomes(checkDebugEvent(v, v.current), {})
        ELSE Becomes(handleBreakpoint(v), {})
  BY DEF Breakpoint
<1>2. /\ Token = "BREAKPOINT" /\ at' = "reschedulePoint" /\ UNCHANGED <<asleep, place>>
      /\ waits' = <<>>
  BY DEF Breakpoint, Executing
<1>3. /\ Fetching /\ c \in Threads /\ v \in VM /\ Placed(v, {})
      /\ v.current = c /\ c # NIL
      /\ Sane(v, asleep, place) /\ v.told = {} /\ ~v.resumeOK
      /\ v.ready = vm.ready /\ v.code = vm.code
      /\ \A t \in Threads : v.debugEvent[t] = <<>>
      /\ \A t \in Threads : Life(v.state[t]) = Life(vm.state[t])
      /\ \A t \in Threads \ {c} : v.nextOpcode[t] = vm.nextOpcode[t]
      /\ v.ready => v.nextOpcode[c] = "none"
      /\ v.state[c] = {"ACTIVE"} /\ v.ip = vm.ip
      /\ place[c] = v.ip /\ at # "exit"
  BY PreparedFacts
<1>4. /\ Data /\ asleep \subseteq Threads /\ place \in [Threads -> Spots]
      /\ hit \in [Threads -> {"no", "due", "told"}]
      /\ HitInv(vm, place, hit, Alert)
  BY DEF IInv, Data
<1>5. vm.code[vm.ip] = "BREAKPOINT" /\ vm.ready /\ hit[c] \in {"no", "due"}
  BY <1>2, <1>3, TokenFacts
<1>6. PICK w : w = handleBreakpoint(v)
  OBVIOUS
<1>7. Becomes(w, {})
  BY <1>1, <1>3, <1>6
<1>8. PICK i : i = findBreakEvent(v, v.ip)
  OBVIOUS
<1>9. BreaksInv(v) /\ CodeInv(v) /\ v.ip \in Spots /\ v.code[v.ip] = "BREAKPOINT"
  BY <1>3, <1>5 DEF Sane, CodeInv, VM
<1>10. i # 0 /\ v.events[i].opcode = "op" /\ v.events[i].policy \in Policies
  BY <1>3, <1>8, <1>9, BreakEventFound
<1>11. v.notify \cap {"STEP", "BREAKPOINT"} # {}
  BY <1>9 DEF CodeInv
<1>12. PICK O : O = [v.nextOpcode EXCEPT ![c] = "op"]
  OBVIOUS
<1>13. PICK u : u = [v EXCEPT !.nextOpcode = O, !.timeToReschedule = TRUE, !.told = {c}]
  OBVIOUS
<1>14. O \in [Threads -> Opcode] /\ v.nextOpcode \in [Threads -> Opcode]
  BY <1>3, <1>12 DEF VM, Opcode
<1>15. u \in VM
  BY <1>3, <1>13, <1>14 DEF VM
<1>16. /\ Alike(v, u) /\ u.nextOpcode = O /\ u.told = {c} /\ u.debugEvent = v.debugEvent
  BY <1>3, <1>13, <1>15, ZenonT(60) DEF VM, Alike
<1>17. w = handleSuspendPolicy(u, v.events[i].policy, c)
  <2>1. PICK y : y = [v EXCEPT !.nextOpcode[c] = v.events[i].opcode, !.timeToReschedule = TRUE]
    OBVIOUS
  <2>2. y = [v EXCEPT !.nextOpcode = O, !.timeToReschedule = TRUE]
    BY <1>10, <1>12, <2>1
  <2>3. y.notify = v.notify /\ y.events = v.events
    BY <1>3, <2>2 DEF VM
  <2>4. w = setEvent_Breakpoint(y, i, c)
    BY <1>3, <1>6, <1>8, <1>10, <2>1 DEF handleBreakpoint
  <2>5. w = handleSuspendPolicy([y EXCEPT !.told = {c}], v.events[i].policy, c)
    BY <1>11, <2>3, <2>4 DEF setEvent_Breakpoint
  <2>6. u = [y EXCEPT !.told = {c}]
    BY <1>3, <1>13, <2>2 DEF VM
  <2>. QED
    BY <2>5, <2>6
<1>18. Sane(u, asleep, place) /\ Placed(u, {})
  BY <1>3, <1>16, AlikeKeeps
<1>19. c \in OnQueue(u.all)
  BY <1>3, <1>16 DEF Placed, Life, Alike
<1>20. Placed(w, {}) /\ Same(u, w)
  BY <1>10, <1>15, <1>17, <1>18, <1>19, PolicyKeeps
<1>21. Sane(w, asleep, place) /\ w \in VM
  <2>1. Sane(w, asleep, place)
    BY <1>18, <1>20, SaneStands
  <2>. QED
    BY <2>1 DEF Sane
<1>22. /\ w.ready = vm.ready /\ w.code = vm.code /\ w.told = {c}
       /\ \A t \in Threads : w.debugEvent[t] = <<>>
       /\ \A t \in Threads \ {c} : w.nextOpcode[t] = vm.nextOpcode[t]
       /\ w.nextOpcode[c] = "op"
  BY <1>3, <1>12, <1>14, <1>16, <1>20 DEF Same, Alike
<1>23. \A t \in Threads : "DEAD" \notin w.state[t] => "DEAD" \notin vm.state[t]
  BY <1>3, <1>16, <1>20 DEF Same, Alike, Life
<1>24. "DEAD" \notin w.state[c]
  BY <1>3, <1>16, <1>20 DEF Same, Alike, Life
<1>25. vm' = Settled(w) /\ hit' = Hit(w, {})
  BY <1>7 DEF Becomes, Settled
<1>26. /\ vm'.state = w.state /\ vm'.code = w.code /\ vm'.nextOpcode = w.nextOpcode
       /\ vm'.ready = w.ready /\ ~vm'.resumeOK /\ vm'.told = {}
  BY <1>21, <1>25, SettledFields
<1>27. ASSUME NEW t \in Threads
       PROVE  hit'[t] = IF w.code[place[t]] = "BREAKPOINT" /\ "DEAD" \notin w.state[t]
                        THEN IF t = c THEN "told" ELSE hit[t] ELSE "no"
  <2>1. hit[c] # "told"
    BY <1>5
  <2>. QED
    BY <1>2, <1>22, <1>25, <2>1 DEF Hit
<1>28. hit' \in [Threads -> {"no", "due", "told"}]
  <2>1. hit' = [t \in Threads |-> hit'[t]]
    BY <1>25 DEF Hit
  <2>2. \A t \in Threads : hit'[t] \in {"no", "due", "told"}
    BY <1>4, <1>27
  <2>. QED
    BY <2>1, <2>2
<1>29. HitInv(vm', place', hit', Alert')
  <2>1. ASSUME NEW t \in Threads, "DEAD" \notin w.state[t]
        PROVE  /\ hit'[t] \in {"no", "due", "told"}
               /\ hit'[t] # "no" => w.code[place[t]] = "BREAKPOINT"
               /\ hit'[t] = "due" => w.nextOpcode[t] # "op"
               /\ hit'[t] = "told" => w.nextOpcode[t] = "op"
               /\ w.nextOpcode[t] = "BREAKPOINT" => w.code[place[t]] = "BREAKPOINT"
    <3>1. CASE t = c
      <4>1. w.code[place[c]] = "BREAKPOINT"
        BY <1>3, <1>5, <1>22
      <4>2. hit'[c] = "told"
        BY <1>3, <1>24, <1>27, <4>1
      <4>. QED
        BY <1>22, <3>1, <4>1, <4>2
    <3>2. CASE t # c
      <4>1. /\ hit[t] \in {"no", "due", "told"}
            /\ hit[t] # "no" => vm.code[place[t]] = "BREAKPOINT"
            /\ hit[t] = "due" => vm.nextOpcode[t] # "op"
            /\ hit[t] = "told" => vm.nextOpcode[t] = "op"
            /\ vm.nextOpcode[t] = "BREAKPOINT" => vm.code[place[t]] = "BREAKPOINT"
        BY <1>3, <1>4, <1>5, <1>23, <2>1 DEF HitInv, Alert
      <4>2. hit'[t] = hit[t] \/ hit'[t] = "no"
        BY <1>27, <3>2
      <4>. QED
        BY <1>22, <3>2, <4>1, <4>2
    <3>. QED
      BY <3>1, <3>2
  <2>2. place' = place
    BY <1>2
  <2>. QED
    BY <1>26, <2>1, <2>2 DEF HitInv
<1>30. Sane(vm', asleep', place')
  BY <1>2, <1>21, <1>25, SettledSane
<1>31. Data'
  BY <1>2, <1>4, <1>26, <1>28, <1>29, <1>30 DEF Data
<1>32. ControlInv'
  BY <1>2, <1>7, <1>21, <1>22, ControlKeeps
<1>. QED
  BY <1>31, <1>32 DEF IInv

----------------------------------------------------------------------------
(* Instructions *)

LEMMA CodeKeeps ==
    ASSUME NEW v, NEW w, CodeInv(v), w.code = v.code, w.events = v.events,
           w.notify = v.notify, w.ready = v.ready
    PROVE  CodeInv(w)
  BY DEF CodeInv, BreaksInv

LEMMA MovedFacts ==
    ASSUME IInv, NEW v \in Prepared, NEW s \in Spots, Instruction(v, s),
           NEW m, m = Moved(v, s)
    PROVE  /\ m \in VM /\ Placed(m, {}) /\ Sane(m, asleep, place')
           /\ m.current = vm.current /\ vm.current \in Threads /\ vm.current # NIL
           /\ m.told = {} /\ ~m.resumeOK /\ m.ready = vm.ready /\ m.code = vm.code
           /\ m.nextOpcode = v.nextOpcode /\ m.state = v.state
           /\ m.ready => m.nextOpcode[vm.current] = "none"
           /\ \A t \in Threads : m.debugEvent[t] = <<>>
           /\ m.state[vm.current] = {"ACTIVE"}
           /\ \A t \in Threads : "DEAD" \notin m.state[t] => "DEAD" \notin vm.state[t]
           /\ waits = <<>> /\ asleep \subseteq Threads
           /\ v.current = vm.current /\ (s = v.ip => m = v)
<1>. DEFINE c == vm.current
<1>1. /\ Fetching /\ c \in Threads /\ v \in VM /\ Placed(v, {})
      /\ v.current = c /\ c # NIL
      /\ Sane(v, asleep, place) /\ v.told = {} /\ ~v.resumeOK
      /\ v.ready = vm.ready /\ v.code = vm.code
      /\ \A t \in Threads : v.debugEvent[t] = <<>>
      /\ \A t \in Threads : Life(v.state[t]) = Life(vm.state[t])
      /\ v.ready => v.nextOpcode[c] = "none"
      /\ v.state[c] = {"ACTIVE"}
      /\ waits = <<>>
  BY PreparedFacts
<1>2. m = [v EXCEPT !.ip = s]
  BY DEF Moved
<1>3. m \in VM
  BY <1>1, <1>2 DEF VM
<1>4. /\ m.current = v.current /\ m.runnable = v.runnable /\ m.state = v.state
      /\ m.count = v.count /\ m.ip = s /\ m.ipStore = v.ipStore /\ m.fatal = v.fatal
      /\ m.all = v.all /\ m.alive = v.alive /\ m.ready = v.ready
      /\ m.code = v.code /\ m.events = v.events /\ m.notify = v.notify
      /\ m.nextOpcode = v.nextOpcode /\ m.debugEvent = v.debugEvent /\ m.told = v.told
      /\ m.resumeOK = v.resumeOK
  BY <1>1, <1>2, <1>3 DEF VM
<1>5. Placed(m, {})
  <2>1. Placed(v, {})
    BY <1>1
  <2>2. /\ m.current = v.current /\ m.runnable = v.runnable /\ m.state = v.state
        /\ m.count = v.count /\ m.fatal = v.fatal /\ m.all = v.all
    BY <1>4
  <2>. QED
    BY <2>1, <2>2 DEF Placed
<1>6. CodeInv(m)
  BY <1>1, <1>4, CodeKeeps DEF Sane
<1>7. place' = [place EXCEPT ![c] = s] /\ place \in [Threads -> Spots] /\ asleep \subseteq Threads
  BY <1>1 DEF Instruction, IInv, Data
<1>8. \A t \in Threads : "DEAD" \notin m.state[t] => place'[t] = Position(m, t)
  BY <1>1, <1>4, <1>7 DEF Sane, Position
<1>9. Sane(m, asleep, place')
  BY <1>1, <1>3, <1>4, <1>5, <1>6, <1>8 DEF Sane
<1>10. \A t \in Threads : "DEAD" \notin m.state[t] => "DEAD" \notin vm.state[t]
  BY <1>1, <1>4 DEF Life
<1>11. s = v.ip => m = v
  BY <1>1, <1>2 DEF VM
<1>. QED
  BY <1>1, <1>3, <1>4, <1>5, <1>7, <1>9, <1>10, <1>11

\* The data after an instruction.
LEMMA MovedStep ==
    ASSUME IInv, NEW v \in Prepared, NEW s \in Spots, Instruction(v, s),
           NEW w, Sane(w, asleep', place'), asleep' \subseteq Threads, w.told = {},
           w.code = vm.code, w.ready = vm.ready, w.nextOpcode = v.nextOpcode,
           \A t \in Threads : "DEAD" \notin w.state[t] => "DEAD" \notin vm.state[t],
           Becomes(w, {v.current})
    PROVE  Data'
<1>. DEFINE c == vm.current
<1>1. /\ Fetching /\ c \in Threads /\ c # NIL /\ v.current = c
      /\ \A t \in Threads \ {c} : v.nextOpcode[t] = vm.nextOpcode[t]
      /\ v.ready = vm.ready
      /\ v.ready => v.nextOpcode[c] = "none"
      /\ at # "exit"
  BY PreparedFacts
<1>2. Token = "op" /\ place' = [place EXCEPT ![c] = s]
  BY <1>1 DEF Instruction
<1>3. hit[c] # "due"
  BY <1>1, <1>2, TokenFacts
<1>4. /\ place \in [Threads -> Spots] /\ hit \in [Threads -> {"no", "due", "told"}]
      /\ HitInv(vm, place, hit, Alert)
  BY DEF IInv, Data
<1>5. vm' = Settled(w) /\ hit' = Hit(w, {c}) /\ w \in VM
  BY <1>1 DEF Becomes, Settled, Sane
<1>6. /\ vm'.state = w.state /\ vm'.code = w.code /\ vm'.nextOpcode = w.nextOpcode
      /\ vm'.ready = w.ready /\ ~vm'.resumeOK /\ vm'.told = {}
  BY <1>5, SettledFields
<1>7. ASSUME NEW t \in Threads
      PROVE  hit'[t] = IF w.code[place'[t]] = "BREAKPOINT" /\ "DEAD" \notin w.state[t]
                       THEN IF t = c THEN "due" ELSE hit[t] ELSE "no"
  BY <1>3, <1>5 DEF Hit
<1>8. hit' \in [Threads -> {"no", "due", "told"}]
  <2>1. hit' = [t \in Threads |-> hit'[t]]
    BY <1>5 DEF Hit
  <2>2. \A t \in Threads : hit'[t] \in {"no", "due", "told"}
    BY <1>4, <1>7
  <2>. QED
    BY <2>1, <2>2
<1>9. HitInv(vm', place', hit', Alert')
  <2>1. ASSUME NEW t \in Threads, "DEAD" \notin w.state[t]
        PROVE  /\ hit'[t] \in {"no", "due", "told"}
               /\ hit'[t] # "no" => w.code[place'[t]] = "BREAKPOINT"
               /\ w.ready =>
                    /\ hit'[t] = "due" => w.nextOpcode[t] # "op"
                    /\ hit'[t] = "told" => w.nextOpcode[t] = "op"
                    /\ w.nextOpcode[t] = "BREAKPOINT" => w.code[place'[t]] = "BREAKPOINT"
    <3>1. CASE t = c
      <4>1. w.ready => w.nextOpcode[c] = "none"
        BY <1>1
      <4>2. hit'[c] \in {"no", "due"} /\ (hit'[c] # "no" => w.code[place'[c]] = "BREAKPOINT")
        BY <1>1, <1>7
      <4>. QED
        BY <3>1, <4>1, <4>2
    <3>2. CASE t # c
      <4>1. place'[t] = place[t] /\ w.nextOpcode[t] = vm.nextOpcode[t]
        BY <1>1, <1>2, <1>4, <3>2
      <4>2. /\ hit[t] \in {"no", "due", "told"}
            /\ hit[t] # "no" => vm.code[place[t]] = "BREAKPOINT"
            /\ w.ready =>
                 /\ hit[t] = "due" => vm.nextOpcode[t] # "op"
                 /\ hit[t] = "told" => vm.nextOpcode[t] = "op"
                 /\ vm.nextOpcode[t] = "BREAKPOINT" => vm.code[place[t]] = "BREAKPOINT"
        BY <1>1, <1>4, <2>1 DEF HitInv, Alert
      <4>3. hit'[t] = IF w.code[place[t]] = "BREAKPOINT" THEN hit[t] ELSE "no"
        BY <1>7, <2>1, <3>2, <4>1
      <4>. QED
        BY <4>1, <4>2, <4>3
    <3>. QED
      BY <3>1, <3>2
  <2>. QED
    BY <1>6, <2>1 DEF HitInv, Alert
<1>10. Sane(vm', asleep', place')
  BY <1>5, SettledSane
<1>11. place' \in [Threads -> Spots]
  BY <1>2, <1>4
<1>. QED
  BY <1>6, <1>8, <1>9, <1>10, <1>11 DEF Data

LEMMA StraightStep ==
    ASSUME IInv, NEW v \in Prepared, NEW s \in Spots, Straight(v, s) \/ Branch(v, s)
    PROVE  IInv'
<1>1. PICK m : m = Moved(v, s)
  OBVIOUS
<1>2. /\ Instruction(v, s) /\ at' \in {"next", "reschedulePoint"} /\ Becomes(m, {v.current})
      /\ UNCHANGED <<asleep, waits>>
  BY <1>1 DEF Straight, Branch
<1>3. /\ m \in VM /\ Sane(m, asleep, place')
      /\ m.current = vm.current /\ vm.current # NIL
      /\ m.told = {} /\ m.ready = vm.ready /\ m.code = vm.code
      /\ m.nextOpcode = v.nextOpcode
      /\ m.ready => m.nextOpcode[vm.current] = "none"
      /\ \A t \in Threads : m.debugEvent[t] = <<>>
      /\ \A t \in Threads : "DEAD" \notin m.state[t] => "DEAD" \notin vm.state[t]
      /\ waits = <<>> /\ asleep \subseteq Threads
  BY <1>1, <1>2, MovedFacts
<1>4. Data'
  BY <1>2, <1>3, MovedStep
<1>5. ControlInv'
  BY <1>2, <1>3, ControlKeeps
<1>. QED
  BY <1>4, <1>5 DEF IInv

LEMMA PrepareStep ==
    ASSUME IInv, NEW v \in Prepared, NEW s \in Spots, Prepare(v, s)
    PROVE  IInv'
<1>. DEFINE c == vm.current
<1>1. PICK m : m = Moved(v, s)
  OBVIOUS
<1>2. Instruction(v, s) /\ at' = "reschedulePoint" /\ UNCHANGED <<asleep, waits>>
  BY DEF Prepare
<1>3. /\ m \in VM /\ Placed(m, {}) /\ Sane(m, asleep, place')
      /\ m.current = c /\ c \in Threads /\ c # NIL
      /\ m.told = {} /\ m.ready = vm.ready /\ m.code = vm.code
      /\ m.nextOpcode = v.nextOpcode
      /\ \A t \in Threads : m.debugEvent[t] = <<>>
      /\ m.state[c] = {"ACTIVE"}
      /\ \A t \in Threads : "DEAD" \notin m.state[t] => "DEAD" \notin vm.state[t]
      /\ waits = <<>> /\ asleep \subseteq Threads
      /\ v.current = c
  BY <1>1, <1>2, MovedFacts
<1>4. CASE ~v.ready
  <2>1. Becomes(m, {v.current})
    BY <1>1, <1>4 DEF Prepare
  <2>2. Data'
    BY <1>2, <1>3, <2>1, MovedStep
  <2>3. ControlInv'
    BY <1>2, <1>3, <2>1, ControlKeeps
  <2>. QED
    BY <2>2, <2>3 DEF IInv
<1>5. CASE v.ready
  <2>1. PICK e : e = Event("PREPARE", c)
    OBVIOUS
  <2>2. e \in EventType /\ e.kind = "PREPARE" /\ e.thread = c
    BY <1>3, <2>1, EventIsTyped DEF EventKinds
  <2>3. PICK E : E = [m.debugEvent EXCEPT ![c] = Append(m.debugEvent[c], e)]
    OBVIOUS
  <2>4. m.debugEvent \in [Threads -> Seq(EventType)]
    BY <1>3 DEF VM
  <2>5. /\ E \in [Threads -> Seq(EventType)] /\ E[c] = <<e>>
        /\ \A t \in Threads \ {c} : E[t] = <<>>
    <3>1. c \in Threads /\ m.debugEvent[c] = << >>
      BY <1>3
    <3>2. Append(m.debugEvent[c], e) = <<e>> /\ <<e>> \in Seq(EventType)
      BY <2>2, <3>1
    <3>3. PICK q : q = <<e>>
      OBVIOUS
    <3>4. E = [m.debugEvent EXCEPT ![c] = q] /\ q \in Seq(EventType)
      BY <2>3, <3>2, <3>3
    <3>5. /\ E \in [Threads -> Seq(EventType)] /\ E[c] = q
          /\ \A t \in Threads \ {c} : E[t] = m.debugEvent[t]
      BY <2>4, <3>1, <3>4
    <3>. QED
      BY <1>3, <3>3, <3>5
  <2>6. PICK w : w = [m EXCEPT !.debugEvent = E, !.timeToReschedule = TRUE]
    OBVIOUS
  <2>7. Becomes(w, {v.current})
    <3>1. w = insertDebugEvent(m, e)
      BY <1>3, <2>3, <2>6 DEF insertDebugEvent
    <3>. QED
      BY <1>1, <1>3, <1>5, <2>1, <3>1 DEF Prepare
  <2>8. w \in VM
    BY <1>3, <2>5, <2>6 DEF VM
  <2>9. Alike(m, w) /\ w.nextOpcode = m.nextOpcode /\ w.debugEvent = E /\ w.told = m.told
        /\ w.timeToReschedule = TRUE
    BY <1>3, <2>6, <2>8, ZenonT(60) DEF VM, Alike
  <2>10. Sane(w, asleep, place')
    BY <1>3, <2>9, AlikeKeeps
  <2>11. Data'
    BY <1>2, <1>3, <2>7, <2>9, <2>10, MovedStep DEF Alike
  <2>12. Kept(w)
    <3>1. v.ready = m.ready
      BY <1>3, PreparedFacts
    <3>2. w.ready /\ w.current = c /\ c \in OnQueue(w.all)
      BY <1>3, <1>5, <2>9, <3>1, ZenonT(60) DEF Alike, Placed, Life
    <3>. QED
      BY <2>2, <2>5, <2>9, <3>2 DEF Kept
  <2>13. ControlInv'
    BY <1>2, <1>3, <2>7, <2>8, <2>12, ControlKeeps
  <2>. QED
    BY <2>11, <2>13 DEF IInv
<1>. QED
  BY <1>4, <1>5

LEMMA NewStep ==
    ASSUME IInv, NEW v \in Prepared, NEW s \in Spots, New(v, s)
    PROVE  IInv'
<1>. DEFINE c == vm.current
<1>1. PICK m : m = Moved(v, s)
  OBVIOUS
<1>2. PICK t \in Threads :
        v.state[t] = {} /\ Becomes([m EXCEPT !.state[t] = {"JUST_BORN"}, !.all = <<t>> \o @],
                                   {v.current})
  BY <1>1, Zenon DEF New
<1>3. Instruction(v, s) /\ at' = "reschedulePoint" /\ UNCHANGED <<asleep, waits>>
  BY DEF New
<1>4. /\ m \in VM /\ Placed(m, {}) /\ Sane(m, asleep, place')
      /\ m.current = c /\ c \in Threads /\ c # NIL
      /\ m.told = {} /\ m.ready = vm.ready /\ m.code = vm.code
      /\ m.nextOpcode = v.nextOpcode /\ m.state = v.state
      /\ \A u \in Threads : m.debugEvent[u] = <<>>
      /\ m.state[c] = {"ACTIVE"}
      /\ \A u \in Threads : "DEAD" \notin m.state[u] => "DEAD" \notin vm.state[u]
      /\ waits = <<>> /\ asleep \subseteq Threads
      /\ v.current = c
  BY <1>1, <1>3, MovedFacts
<1>5. m.state \in [Threads -> SUBSET Flag] /\ m.all \in Seq(Threads) /\ m.runnable \in Seq(Threads)
      /\ m.count \in [Threads -> Nat]
  BY <1>4 DEF VM
<1>6. PICK S, A : S = [m.state EXCEPT ![t] = {"JUST_BORN"}] /\ A = <<t>> \o m.all
  OBVIOUS
<1>7. PICK w : w = [m EXCEPT !.state = S, !.all = A]
  OBVIOUS
<1>8. Becomes(w, {v.current})
  BY <1>2, <1>6, <1>7
<1>9. S \in [Threads -> SUBSET Flag] /\ A \in Seq(Threads)
  BY <1>5, <1>6 DEF Flag
<1>10. w \in VM
  BY <1>4, <1>7, <1>9 DEF VM
<1>11. /\ w.current = m.current /\ w.runnable = m.runnable /\ w.state = S
       /\ w.count = m.count /\ w.ip = m.ip /\ w.ipStore = m.ipStore /\ w.fatal = m.fatal
       /\ w.all = A /\ w.alive = m.alive /\ w.ready = m.ready
       /\ w.code = m.code /\ w.events = m.events /\ w.notify = m.notify
       /\ w.nextOpcode = m.nextOpcode /\ w.debugEvent = m.debugEvent /\ w.told = m.told
  BY <1>4, <1>7, <1>10 DEF VM
<1>12. S[t] = {"JUST_BORN"} /\ m.state[t] = {} /\ \A u \in Threads \ {t} : S[u] = m.state[u]
  BY <1>2, <1>4, <1>5, <1>6
<1>13. t \notin OnQueue(m.all) /\ t \notin OnQueue(m.runnable) /\ NoDuplicates(m.all)
       /\ t # c /\ ~(m.count[t] > 0)
  <2>1. Placed(m, {}) /\ Life(m.state[t]) = {} /\ "DBG_SUSPENDED" \notin m.state[t]
        /\ "DEAD" \notin m.state[t] /\ m.state[t] # {"ACTIVE"}
    BY <1>4, <1>12 DEF Life
  <2>2. t # c
    BY <1>4, <2>1
  <2>. QED
    BY <2>1, <2>2 DEF Placed
<1>14. OnQueue(A) = OnQueue(m.all) \cup {t} /\ NoDuplicates(A)
  <2>1. <<t>> \in Seq(Threads) /\ OnQueue(<<t>>) = {t} /\ NoDuplicates(<<t>>)
    BY SingleQueue
  <2>2. OnQueue(<<t>>) \cap OnQueue(m.all) = {}
    BY <1>13, <2>1
  <2>3. /\ OnQueue(<<t>> \o m.all) = OnQueue(<<t>>) \cup OnQueue(m.all)
        /\ NoDuplicates(<<t>> \o m.all)
    <3>1. PICK q : q = <<t>>
      OBVIOUS
    <3>2. q \in Seq(Threads) /\ NoDuplicates(q) /\ OnQueue(q) \cap OnQueue(m.all) = {}
      BY <2>1, <2>2, <3>1
    <3>3. m.all \in Seq(Threads) /\ NoDuplicates(m.all)
      BY <1>5, <1>13
    <3>4. OnQueue(q \o m.all) = OnQueue(q) \cup OnQueue(m.all) /\ NoDuplicates(q \o m.all)
      BY <3>2, <3>3, ConcatQueue
    <3>. QED
      BY <3>1, <3>4
  <2>. QED
    BY <1>6, <2>1, <2>3
<1>15. Placed(w, {})
  <2>1. w.fatal = "no" /\ NoDuplicates(w.runnable) /\ NoDuplicates(w.all)
    BY <1>4, <1>11, <1>14 DEF Placed
  <2>2. w.current # NIL => w.state[w.current] = {"ACTIVE"}
    BY <1>4, <1>11, <1>12, <1>13
  <2>3. ASSUME NEW u \in Threads
        PROVE  /\ Life(w.state[u]) \in Lives /\ w.state[u] # {"DBG_SUSPENDED"}
               /\ u \in OnQueue(w.runnable) <=> w.state[u] = {"ACTIVE"} /\ u # w.current
               /\ u \in OnQueue(w.all)
                    <=> Life(w.state[u]) # {} /\ ("DEAD" \in w.state[u] => u \in {})
               /\ u \notin {} =>
                    ("DBG_SUSPENDED" \in w.state[u]
                       <=> w.count[u] > 0 /\ "DEAD" \notin w.state[u])
    <3>1. CASE u = t
      <4>1. w.state[u] = {"JUST_BORN"}
        BY <1>11, <1>12, <3>1
      <4>2. Life(w.state[u]) = {"JUST_BORN"}
        BY <4>1 DEF Life
      <4>. QED
        BY <1>11, <1>13, <1>14, <3>1, <4>1, <4>2 DEF Lives
    <3>2. CASE u # t
      <4>1. /\ Life(m.state[u]) \in Lives /\ m.state[u] # {"DBG_SUSPENDED"}
            /\ u \in OnQueue(m.runnable) <=> m.state[u] = {"ACTIVE"} /\ u # m.current
            /\ u \in OnQueue(m.all)
                 <=> Life(m.state[u]) # {} /\ ("DEAD" \in m.state[u] => u \in {})
            /\ u \notin {} =>
                 ("DBG_SUSPENDED" \in m.state[u]
                    <=> m.count[u] > 0 /\ "DEAD" \notin m.state[u])
        <5>1. Placed(m, {})
          BY <1>4
        <5>. QED
          BY <5>1 DEF Placed
      <4>2. w.state[u] = m.state[u] /\ (u \in OnQueue(w.all) <=> u \in OnQueue(m.all))
        BY <1>11, <1>12, <1>14, <3>2
      <4>. QED
        BY <1>11, <4>1, <4>2
    <3>. QED
      BY <3>1, <3>2
  <2>. QED
    BY <2>1, <2>2, <2>3 DEF Placed
<1>16. CodeInv(w)
  BY <1>4, <1>11, CodeKeeps DEF Sane
<1>17. \A u \in Threads, x \in {"ACTIVE", "SUSPENDED", "DEAD"} :
         x \in w.state[u] <=> x \in m.state[u]
  BY <1>11, <1>12
<1>18. Sane(w, asleep', place')
  <2>1. {u \in Threads : "ACTIVE" \in w.state[u]} = {u \in Threads : "ACTIVE" \in m.state[u]}
    BY <1>17
  <2>2. \A u \in Threads : "DEAD" \notin w.state[u] => place'[u] = Position(w, u)
    BY <1>4, <1>11, <1>17 DEF Sane, Position
  <2>3. \A u \in Threads : "SUSPENDED" \in w.state[u] <=> u \in asleep'
    BY <1>3, <1>4, <1>17 DEF Sane
  <2>4. w.alive = Cardinality({u \in Threads : "ACTIVE" \in w.state[u]})
    BY <1>4, <1>11, <2>1 DEF Sane
  <2>. QED
    BY <1>10, <1>15, <1>16, <2>2, <2>3, <2>4 DEF Sane
<1>19. Data'
  BY <1>3, <1>4, <1>8, <1>11, <1>17, <1>18, MovedStep
<1>20. ControlInv'
  BY <1>3, <1>4, <1>8, <1>10, <1>11, ControlKeeps
<1>. QED
  BY <1>19, <1>20 DEF IInv

\* The current thread waits.
LEMMA SuspendThreadFields ==
    ASSUME NEW v \in VM, v.current # NIL, v.state[v.current] = {"ACTIVE"},
           \A t \in Threads : v.debugEvent[t] = <<>>, NEW w, w = suspendThread(v)
    PROVE  /\ w \in VM /\ w.current = NIL
           /\ w.state = [v.state EXCEPT ![v.current] = {"ACTIVE", "SUSPENDED"}]
           /\ w.ipStore = [v.ipStore EXCEPT ![v.current] = v.ip]
           /\ w.runnable = v.runnable /\ w.count = v.count /\ w.fatal = v.fatal
           /\ w.all = v.all /\ w.alive = v.alive /\ w.ready = v.ready
           /\ w.code = v.code /\ w.events = v.events /\ w.notify = v.notify
           /\ w.nextOpcode = v.nextOpcode /\ w.debugEvent = v.debugEvent /\ w.told = v.told
           /\ w.ip = v.ip
<1>. DEFINE c == v.current
<1>1. /\ c \in Threads /\ v.state \in [Threads -> SUBSET Flag] /\ v.ip \in Spots
      /\ v.ipStore \in [Threads -> Spots]
  BY DEF VM
<1>2. PICK S, P : /\ S = [v.state EXCEPT ![c] = {"ACTIVE", "SUSPENDED"}]
                  /\ P = [v.ipStore EXCEPT ![c] = v.ip]
  OBVIOUS
<1>3. S \in [Threads -> SUBSET Flag] /\ P \in [Threads -> Spots]
  BY <1>1, <1>2 DEF Flag
<1>4. PICK x : x = [v EXCEPT !.ipStore = P, !.timeToReschedule = TRUE, !.state = S]
  OBVIOUS
<1>5. x \in VM
  BY <1>3, <1>4 DEF VM
<1>6. /\ x.current = c /\ x.state = S /\ x.ipStore = P
      /\ x.runnable = v.runnable /\ x.count = v.count /\ x.fatal = v.fatal
      /\ x.all = v.all /\ x.alive = v.alive /\ x.ready = v.ready
      /\ x.code = v.code /\ x.events = v.events /\ x.notify = v.notify
      /\ x.nextOpcode = v.nextOpcode /\ x.debugEvent = v.debugEvent /\ x.told = v.told
      /\ x.ip = v.ip
  BY <1>4, <1>5 DEF VM
<1>7. [v.state EXCEPT ![c] = @ \cup {"SUSPENDED"}] = S
  <2>1. v.state[c] \cup {"SUSPENDED"} = {"ACTIVE", "SUSPENDED"}
    OBVIOUS
  <2>. QED
    BY <1>2, <2>1
<1>8. PICK y : y = StoreCurrent(v)
  OBVIOUS
<1>9. y = [v EXCEPT !.ipStore = P, !.timeToReschedule = TRUE]
  BY <1>2, <1>8 DEF StoreCurrent, storeExecutionEnvironment
<1>10. y \in VM /\ y.state = v.state
  <2>1. y \in VM
    BY <1>3, <1>9 DEF VM
  <2>. QED
    BY <1>9, <2>1 DEF VM
<1>11. [y EXCEPT !.state[c] = @ \cup {"SUSPENDED"}] = [y EXCEPT !.state = S]
  BY <1>7, <1>10
<1>12. [y EXCEPT !.state = S] = x
  BY <1>4, <1>9, <1>10 DEF VM
<1>13. w = [CheckCurrent(x) EXCEPT !.current = NIL]
  BY <1>8, <1>11, <1>12 DEF suspendThread
<1>14. CheckCurrent(x) = x
  BY <1>1, <1>6 DEF CheckCurrent
<1>15. w = [x EXCEPT !.current = NIL]
  BY <1>13, <1>14
<1>16. w \in VM
  BY <1>5, <1>15 DEF VM
<1>17. /\ w.current = NIL /\ w.state = S /\ w.ipStore = P
      /\ w.runnable = v.runnable /\ w.count = v.count /\ w.fatal = v.fatal
      /\ w.all = v.all /\ w.alive = v.alive /\ w.ready = v.ready
      /\ w.code = v.code /\ w.events = v.events /\ w.notify = v.notify
      /\ w.nextOpcode = v.nextOpcode /\ w.debugEvent = v.debugEvent /\ w.told = v.told
      /\ w.ip = v.ip
  BY <1>5, <1>6, <1>15, <1>16 DEF VM
<1>. QED
  BY <1>2, <1>16, <1>17

LEMMA SleepStep ==
    ASSUME IInv, NEW v \in Prepared, NEW s \in Spots, Sleep(v, s)
    PROVE  IInv'
<1>. DEFINE c == vm.current
<1>1. PICK m, w : m = Moved(v, s) /\ w = suspendThread(m)
  OBVIOUS
<1>2. /\ Instruction(v, s) /\ at' = "reschedulePoint" /\ waits' = waits
      /\ asleep' = asleep \cup {v.current} /\ Becomes(w, {v.current})
  BY <1>1 DEF Sleep
<1>3. /\ m \in VM /\ Placed(m, {}) /\ Sane(m, asleep, place')
      /\ m.current = c /\ c \in Threads /\ c # NIL
      /\ m.told = {} /\ m.ready = vm.ready /\ m.code = vm.code
      /\ m.nextOpcode = v.nextOpcode
      /\ \A t \in Threads : m.debugEvent[t] = <<>>
      /\ m.state[c] = {"ACTIVE"}
      /\ \A t \in Threads : "DEAD" \notin m.state[t] => "DEAD" \notin vm.state[t]
      /\ waits = <<>> /\ asleep \subseteq Threads
      /\ v.current = c
  BY <1>1, <1>2, MovedFacts
<1>4. /\ w \in VM /\ w.current = NIL
      /\ w.state = [m.state EXCEPT ![c] = {"ACTIVE", "SUSPENDED"}]
      /\ w.ipStore = [m.ipStore EXCEPT ![c] = m.ip]
      /\ w.runnable = m.runnable /\ w.count = m.count /\ w.fatal = m.fatal
      /\ w.all = m.all /\ w.alive = m.alive /\ w.ready = m.ready
      /\ w.code = m.code /\ w.events = m.events /\ w.notify = m.notify
      /\ w.nextOpcode = m.nextOpcode /\ w.debugEvent = m.debugEvent /\ w.told = m.told
  BY <1>1, <1>3, SuspendThreadFields, SMTT(60)
<1>5. m.state \in [Threads -> SUBSET Flag] /\ m.ipStore \in [Threads -> Spots]
      /\ NIL \notin Threads
  BY <1>3, DebuggerAssumption DEF VM
<1>6. /\ w.state[c] = {"ACTIVE", "SUSPENDED"}
      /\ \A t \in Threads \ {c} : w.state[t] = m.state[t]
      /\ \A t \in Threads : w.ipStore[t] = IF t = c THEN m.ip ELSE m.ipStore[t]
  BY <1>3, <1>4, <1>5
<1>7. Placed(w, {})
  <2>1. w.fatal = "no" /\ NoDuplicates(w.runnable) /\ NoDuplicates(w.all) /\ w.current = NIL
    BY <1>3, <1>4 DEF Placed
  <2>2. ASSUME NEW u \in Threads
        PROVE  /\ Life(w.state[u]) \in Lives /\ w.state[u] # {"DBG_SUSPENDED"}
               /\ u \in OnQueue(w.runnable) <=> w.state[u] = {"ACTIVE"} /\ u # w.current
               /\ u \in OnQueue(w.all)
                    <=> Life(w.state[u]) # {} /\ ("DEAD" \in w.state[u] => u \in {})
               /\ u \notin {} =>
                    ("DBG_SUSPENDED" \in w.state[u]
                       <=> w.count[u] > 0 /\ "DEAD" \notin w.state[u])
    <3>1. /\ Life(m.state[u]) \in Lives /\ m.state[u] # {"DBG_SUSPENDED"}
          /\ u \in OnQueue(m.runnable) <=> m.state[u] = {"ACTIVE"} /\ u # m.current
          /\ u \in OnQueue(m.all)
               <=> Life(m.state[u]) # {} /\ ("DEAD" \in m.state[u] => u \in {})
          /\ u \notin {} =>
               ("DBG_SUSPENDED" \in m.state[u]
                  <=> m.count[u] > 0 /\ "DEAD" \notin m.state[u])
      <4>1. Placed(m, {})
        BY <1>3
      <4>. QED
        BY <4>1 DEF Placed
    <3>2. CASE u = c
      <4>1. Life(w.state[u]) = {"ACTIVE", "SUSPENDED"} /\ Life(m.state[u]) = {"ACTIVE"}
        BY <1>3, <1>6, <3>2 DEF Life
      <4>. QED
        <5>1. /\ w.state[u] = {"ACTIVE", "SUSPENDED"} /\ m.state[u] = {"ACTIVE"}
              /\ w.count[u] = m.count[u] /\ w.runnable = m.runnable /\ w.all = m.all
              /\ u = m.current
          BY <1>3, <1>4, <1>6, <3>2
        <5>2. Life(w.state[u]) \in Lives /\ "DBG_SUSPENDED" \notin w.state[u]
                /\ "DEAD" \notin w.state[u] /\ w.state[u] # {"ACTIVE"}
                /\ w.state[u] # {"DBG_SUSPENDED"} /\ Life(w.state[u]) # {}
          BY <4>1, <5>1 DEF Lives
        <5>3. u \notin OnQueue(m.runnable) /\ u \in OnQueue(m.all) /\ ~(m.count[u] > 0)
          BY <3>1, <4>1, <5>1
        <5>. QED
          BY <5>1, <5>2, <5>3
    <3>3. CASE u # c
      <4>1. w.state[u] = m.state[u] /\ u # NIL
        BY <1>5, <1>6, <3>3
      <4>. QED
        BY <1>3, <1>4, <3>1, <3>3, <4>1
    <3>. QED
      BY <3>2, <3>3
  <2>. QED
    BY <2>1, <2>2 DEF Placed
<1>8. CodeInv(w)
  BY <1>3, <1>4, CodeKeeps DEF Sane
<1>9. \A t \in Threads, x \in {"ACTIVE", "DEAD"} : x \in w.state[t] <=> x \in m.state[t]
  BY <1>3, <1>6
<1>10. Sane(w, asleep', place')
  <2>1. {u \in Threads : "ACTIVE" \in w.state[u]} = {u \in Threads : "ACTIVE" \in m.state[u]}
    BY <1>9
  <2>2. \A u \in Threads : "DEAD" \notin w.state[u] => place'[u] = Position(w, u)
    <3>1. \A u \in Threads : Position(w, u) = Position(m, u)
      BY <1>3, <1>4, <1>5, <1>6 DEF Position
    <3>. QED
      BY <1>3, <1>9, <3>1 DEF Sane
  <2>3. \A u \in Threads : "SUSPENDED" \in w.state[u] <=> u \in asleep'
    BY <1>2, <1>3, <1>6 DEF Sane
  <2>4. w.alive = Cardinality({u \in Threads : "ACTIVE" \in w.state[u]})
    BY <1>3, <1>4, <2>1 DEF Sane
  <2>. QED
    BY <1>4, <1>7, <1>8, <2>2, <2>3, <2>4 DEF Sane
<1>11. asleep' \subseteq Threads
  BY <1>2, <1>3
<1>12. Data'
  BY <1>2, <1>3, <1>4, <1>9, <1>10, <1>11, MovedStep, ZenonT(60)
<1>13. ControlInv'
  BY <1>2, <1>3, <1>4, ControlKeeps
<1>. QED
  BY <1>12, <1>13 DEF IInv

LEMMA JustResumed ==
    ASSUME NEW x \in VM, NEW t \in Threads, "SUSPENDED" \in x.state[t],
           "DBG_SUSPENDED" \notin x.state[t], t # x.current,
           NEW w, w = resumeThread(x, t)
    PROVE  /\ Standing(x, w) /\ w.count = x.count
           /\ w.state = [x.state EXCEPT ![t] = {"ACTIVE"}]
           /\ w.runnable = AddThreadToQueue(x.runnable, t) /\ w.fatal = x.fatal
<1>1. /\ Standing(x, w) /\ w.count = x.count
      /\ {"SUSPENDED", "DBG_SUSPENDED"} \subseteq x.state[t] =>
           /\ w.state = [x.state EXCEPT ![t] = @ \ {"SUSPENDED"}]
           /\ w.runnable = x.runnable /\ w.fatal = x.fatal
      /\ "SUSPENDED" \in x.state[t] /\ "DBG_SUSPENDED" \notin x.state[t]
           /\ t # x.current =>
           /\ w.state = [x.state EXCEPT ![t] = {"ACTIVE"}]
           /\ w.runnable = AddThreadToQueue(x.runnable, t) /\ w.fatal = x.fatal
  BY ResumeThreadFields
<1>. QED
  BY <1>1

\* A thread begins: w is v after startThread() and resumeThread().
Begun(v, t, e, w) ==
    /\ w \in VM /\ w.current = v.current
    /\ w.state = [v.state EXCEPT ![t] = {"ACTIVE"}]
    /\ w.runnable = AddThreadToQueue(v.runnable, t)
    /\ w.count = v.count /\ w.fatal = v.fatal /\ w.ip = v.ip /\ w.ipStore = v.ipStore
    /\ w.all = v.all /\ w.alive = v.alive + 1 /\ w.ready = v.ready
    /\ w.code = v.code /\ w.events = v.events /\ w.notify = v.notify
    /\ w.nextOpcode = v.nextOpcode /\ w.told = v.told
    /\ ~v.ready => w.debugEvent = v.debugEvent
    /\ v.ready =>
         /\ w.timeToReschedule
         /\ w.debugEvent[v.current] = <<e>>
         /\ \A u \in Threads \ {v.current} : w.debugEvent[u] = <<>>

LEMMA StartThreadFields ==
    ASSUME NEW v \in VM, v.current \in Threads, NEW t \in Threads, t # v.current,
           \A u \in Threads : v.debugEvent[u] = <<>>, NEW e, e = Event("START", t),
           NEW w, w = resumeThread(startThread(v, t), t)
    PROVE  Begun(v, t, e, w)
<1>. DEFINE c == v.current
<1>1. /\ v.state \in [Threads -> SUBSET Flag] /\ v.alive \in Int
      /\ v.debugEvent \in [Threads -> Seq(EventType)] /\ v.timeToReschedule \in BOOLEAN
      /\ NIL \notin Threads
  BY DebuggerAssumption DEF VM
<1>3. e \in EventType
  BY EventIsTyped DEF EventKinds
<1>4. PICK F : F = [v.debugEvent EXCEPT ![c] = Append(v.debugEvent[c], e)]
  OBVIOUS
<1>5. /\ F \in [Threads -> Seq(EventType)] /\ F[c] = <<e>>
      /\ \A u \in Threads \ {c} : F[u] = <<>>
  <2>1. c \in Threads /\ v.debugEvent[c] = << >>
    OBVIOUS
  <2>2. Append(v.debugEvent[c], e) = <<e>> /\ <<e>> \in Seq(EventType)
    BY <1>3, <2>1
  <2>3. PICK q : q = <<e>>
    OBVIOUS
  <2>4. F = [v.debugEvent EXCEPT ![c] = q] /\ q \in Seq(EventType)
    BY <1>4, <2>2, <2>3
  <2>5. /\ F \in [Threads -> Seq(EventType)] /\ F[c] = q
        /\ \A u \in Threads \ {c} : F[u] = v.debugEvent[u]
    BY <1>1, <2>1, <2>4
  <2>. QED
    BY <2>3, <2>5
<1>6. PICK S, A, E, T : /\ S = [v.state EXCEPT ![t] = {"SUSPENDED"}] /\ A = v.alive + 1
                        /\ E = (IF v.ready THEN F ELSE v.debugEvent)
                        /\ T = (IF v.ready THEN TRUE ELSE v.timeToReschedule)
  OBVIOUS
<1>7. /\ S \in [Threads -> SUBSET Flag] /\ A \in Int
      /\ E \in [Threads -> Seq(EventType)] /\ T \in BOOLEAN
  <2>1. S \in [Threads -> SUBSET Flag]
    BY <1>1, <1>6 DEF Flag
  <2>2. A \in Int
    BY <1>1, <1>6
  <2>3. E \in [Threads -> Seq(EventType)] /\ T \in BOOLEAN
    BY <1>1, <1>5, <1>6
  <2>. QED
    BY <2>1, <2>2, <2>3
<1>8. PICK y : y = [v EXCEPT !.state = S, !.alive = A]
  OBVIOUS
<1>9. y \in VM
  BY <1>7, <1>8 DEF VM
<1>10. y.current = c /\ y.debugEvent = v.debugEvent /\ y.timeToReschedule = v.timeToReschedule
       /\ y.ready = v.ready
  BY <1>8, <1>9 DEF VM
<1>11. PICK x : x = [y EXCEPT !.debugEvent = E, !.timeToReschedule = T]
  OBVIOUS
<1>12. startThread(v, t) = x
  <2>1. y = [v EXCEPT !.state[t] = {"SUSPENDED"}, !.alive = @ + 1]
    BY <1>6, <1>8
  <2>2. CASE v.ready
    <3>1. startThread(v, t) = insertDebugEvent(y, e)
      BY <2>1, <2>2 DEF startThread
    <3>2. c # NIL
      BY <1>1
    <3>3. startThread(v, t) = [y EXCEPT !.debugEvent[c] = Append(@, e), !.timeToReschedule = TRUE]
      BY <1>10, <3>1, <3>2 DEF insertDebugEvent
    <3>. QED
      BY <1>4, <1>6, <1>10, <1>11, <2>2, <3>3
  <2>3. CASE ~v.ready
    <3>1. startThread(v, t) = y
      BY <2>1, <2>3 DEF startThread
    <3>2. x = y
      BY <1>6, <1>9, <1>10, <1>11, <2>3 DEF VM
    <3>. QED
      BY <3>1, <3>2
  <2>. QED
    BY <2>2, <2>3
<1>13. x \in VM
  BY <1>7, <1>9, <1>11 DEF VM
<1>14. x = [v EXCEPT !.state = S, !.alive = A, !.debugEvent = E, !.timeToReschedule = T]
  BY <1>8, <1>11 DEF VM
<1>15. /\ x.current = c /\ x.state = S /\ x.alive = A /\ x.debugEvent = E
       /\ x.timeToReschedule = T /\ x.runnable = v.runnable
       /\ x.count = v.count /\ x.fatal = v.fatal /\ x.ip = v.ip /\ x.ipStore = v.ipStore
       /\ x.all = v.all /\ x.ready = v.ready
       /\ x.code = v.code /\ x.events = v.events /\ x.notify = v.notify
       /\ x.nextOpcode = v.nextOpcode /\ x.told = v.told
  BY <1>13, <1>14 DEF VM
<1>16. /\ w = resumeThread(x, t) /\ t # x.current
       /\ "SUSPENDED" \in x.state[t] /\ "DBG_SUSPENDED" \notin x.state[t]
  BY <1>1, <1>6, <1>12, <1>15
<1>17. Standing(x, w) /\ w.count = x.count
  BY <1>13, <1>15, <1>16, JustResumed, ZenonT(60)
<1>18. /\ w.state = [x.state EXCEPT ![t] = {"ACTIVE"}]
       /\ w.runnable = AddThreadToQueue(x.runnable, t) /\ w.fatal = x.fatal
  BY <1>13, <1>15, <1>16, JustResumed
<1>19. w.state = [v.state EXCEPT ![t] = {"ACTIVE"}]
  <2>1. [S EXCEPT ![t] = {"ACTIVE"}] = [v.state EXCEPT ![t] = {"ACTIVE"}]
    BY <1>1, <1>6
  <2>. QED
    BY <1>15, <1>18, <2>1
<1>20. /\ w \in VM /\ w.current = x.current /\ w.ip = x.ip /\ w.ipStore = x.ipStore
       /\ w.all = x.all /\ w.alive = x.alive /\ w.nextOpcode = x.nextOpcode
       /\ w.debugEvent = x.debugEvent
       /\ w.ready = x.ready /\ w.told = x.told /\ w.code = x.code /\ w.events = x.events
       /\ w.notify = x.notify /\ w.timeToReschedule = x.timeToReschedule
  BY <1>17 DEF Standing
<1>21. ~v.ready => w.debugEvent = v.debugEvent
  BY <1>6, <1>15, <1>20
<1>22. v.ready => w.timeToReschedule /\ w.debugEvent = F
  BY <1>6, <1>15, <1>20
<1>. QED
  BY <1>5, <1>6, <1>15, <1>17, <1>18, <1>19, <1>20, <1>21, <1>22 DEF Begun

LEMMA StartStep ==
    ASSUME IInv, NEW v \in Prepared, NEW s \in Spots, Start(v, s)
    PROVE  IInv'
<1>. DEFINE c == vm.current
<1>1. PICK m : m = Moved(v, s)
  OBVIOUS
<1>2. PICK t \in Threads :
        v.state[t] = {"JUST_BORN"} /\ Becomes(resumeThread(startThread(m, t), t), {v.current})
  BY <1>1 DEF Start
<1>3. PICK w, e : w = resumeThread(startThread(m, t), t) /\ e = Event("START", t)
  OBVIOUS
<1>4. /\ Instruction(v, s) /\ at' = "reschedulePoint" /\ UNCHANGED <<asleep, waits>>
      /\ Becomes(w, {v.current})
  BY <1>2, <1>3 DEF Start
<1>5. /\ m \in VM /\ Placed(m, {}) /\ Sane(m, asleep, place')
      /\ m.current = c /\ c \in Threads /\ c # NIL
      /\ m.told = {} /\ m.ready = vm.ready /\ m.code = vm.code
      /\ m.nextOpcode = v.nextOpcode /\ m.state = v.state
      /\ \A u \in Threads : m.debugEvent[u] = <<>>
      /\ m.state[c] = {"ACTIVE"}
      /\ \A u \in Threads : "DEAD" \notin m.state[u] => "DEAD" \notin vm.state[u]
      /\ waits = <<>> /\ asleep \subseteq Threads
      /\ v.current = c
  BY <1>1, <1>4, MovedFacts
<1>6. t # c /\ m.state[t] = {"JUST_BORN"}
  BY <1>2, <1>5
<1>7. /\ w \in VM /\ w.current = c
      /\ w.state = [m.state EXCEPT ![t] = {"ACTIVE"}]
      /\ w.runnable = AddThreadToQueue(m.runnable, t)
      /\ w.count = m.count /\ w.fatal = m.fatal /\ w.ip = m.ip /\ w.ipStore = m.ipStore
      /\ w.all = m.all /\ w.alive = m.alive + 1 /\ w.ready = m.ready
      /\ w.code = m.code /\ w.events = m.events /\ w.notify = m.notify
      /\ w.nextOpcode = m.nextOpcode /\ w.told = m.told
      /\ ~m.ready => w.debugEvent = m.debugEvent
      /\ m.ready =>
           /\ w.timeToReschedule
           /\ w.debugEvent[c] = <<e>>
           /\ \A u \in Threads \ {c} : w.debugEvent[u] = <<>>
  <2>1. /\ m \in VM /\ m.current \in Threads /\ t # m.current
        /\ \A u \in Threads : m.debugEvent[u] = <<>>
    BY <1>5, <1>6
  <2>2. Begun(m, t, e, w)
    BY <1>3, <2>1, StartThreadFields
  <2>3. m.current = c
    BY <1>5
  <2>. QED
    BY <2>2, <2>3 DEF Begun
<1>8. /\ m.state \in [Threads -> SUBSET Flag] /\ m.runnable \in Seq(Threads)
  BY <1>5 DEF VM
<1>9. w.state[t] = {"ACTIVE"} /\ \A u \in Threads \ {t} : w.state[u] = m.state[u]
  BY <1>7, <1>8
<1>10. /\ t \in OnQueue(m.all) /\ t \notin OnQueue(m.runnable) /\ NoDuplicates(m.runnable)
       /\ ~(m.count[t] > 0)
  <2>1. Placed(m, {}) /\ Life(m.state[t]) # {} /\ "DBG_SUSPENDED" \notin m.state[t]
        /\ "DEAD" \notin m.state[t] /\ m.state[t] # {"ACTIVE"}
    BY <1>5, <1>6 DEF Life
  <2>. QED
    BY <2>1 DEF Placed
<1>11. NoDuplicates(w.runnable) /\ OnQueue(w.runnable) = OnQueue(m.runnable) \cup {t}
  BY <1>7, <1>8, <1>10, AddedQueue
<1>12. Placed(w, {})
  <2>1. w.fatal = "no" /\ NoDuplicates(w.runnable) /\ NoDuplicates(w.all)
    BY <1>5, <1>7, <1>11 DEF Placed
  <2>2. w.current # NIL => w.state[w.current] = {"ACTIVE"}
    BY <1>5, <1>6, <1>7, <1>9
  <2>3. ASSUME NEW u \in Threads
        PROVE  /\ Life(w.state[u]) \in Lives /\ w.state[u] # {"DBG_SUSPENDED"}
               /\ u \in OnQueue(w.runnable) <=> w.state[u] = {"ACTIVE"} /\ u # w.current
               /\ u \in OnQueue(w.all)
                    <=> Life(w.state[u]) # {} /\ ("DEAD" \in w.state[u] => u \in {})
               /\ u \notin {} =>
                    ("DBG_SUSPENDED" \in w.state[u]
                       <=> w.count[u] > 0 /\ "DEAD" \notin w.state[u])
    <3>1. CASE u = t
      <4>1. w.state[u] = {"ACTIVE"}
        BY <1>9, <3>1
      <4>2. Life(w.state[u]) = {"ACTIVE"}
        BY <4>1 DEF Life
      <4>. QED
        BY <1>6, <1>7, <1>10, <1>11, <3>1, <4>1, <4>2 DEF Lives
    <3>2. CASE u # t
      <4>1. /\ Life(m.state[u]) \in Lives /\ m.state[u] # {"DBG_SUSPENDED"}
            /\ u \in OnQueue(m.runnable) <=> m.state[u] = {"ACTIVE"} /\ u # m.current
            /\ u \in OnQueue(m.all)
                 <=> Life(m.state[u]) # {} /\ ("DEAD" \in m.state[u] => u \in {})
            /\ u \notin {} =>
                 ("DBG_SUSPENDED" \in m.state[u]
                    <=> m.count[u] > 0 /\ "DEAD" \notin m.state[u])
        <5>1. Placed(m, {})
          BY <1>5
        <5>. QED
          BY <5>1 DEF Placed
      <4>2. w.state[u] = m.state[u] /\ (u \in OnQueue(w.runnable) <=> u \in OnQueue(m.runnable))
        BY <1>9, <1>11, <3>2
      <4>3. w.all = m.all /\ w.count = m.count /\ w.current = m.current
        BY <1>5, <1>7
      <4>. QED
        BY <4>1, <4>2, <4>3
    <3>. QED
      BY <3>1, <3>2
  <2>. QED
    BY <2>1, <2>2, <2>3 DEF Placed
<1>13. CodeInv(w)
  BY <1>5, <1>7, CodeKeeps DEF Sane
<1>14. \A u \in Threads, x \in {"SUSPENDED", "DEAD"} : x \in w.state[u] <=> x \in m.state[u]
  BY <1>6, <1>9
<1>15. w.alive = Cardinality({u \in Threads : "ACTIVE" \in w.state[u]})
  <2>1. PICK B : B = {u \in Threads : "ACTIVE" \in m.state[u]}
    OBVIOUS
  <2>2. IsFiniteSet(B) /\ t \notin B
    <3>1. B \subseteq Threads /\ IsFiniteSet(Threads)
      BY <2>1, DebuggerAssumption
    <3>. QED
      BY <1>6, <2>1, <3>1, FS_Subset
  <2>3. {u \in Threads : "ACTIVE" \in w.state[u]} = B \cup {t}
    BY <1>9, <2>1
  <2>4. Cardinality(B \cup {t}) = Cardinality(B) + 1
    BY <2>2, FS_AddElement
  <2>5. m.alive = Cardinality(B)
    BY <1>5, <2>1 DEF Sane
  <2>. QED
    BY <1>7, <2>3, <2>4, <2>5
<1>16. Sane(w, asleep', place')
  <2>1. \A u \in Threads : Position(w, u) = Position(m, u)
    BY <1>5, <1>7 DEF Position
  <2>2. \A u \in Threads : "DEAD" \notin w.state[u] => place'[u] = Position(w, u)
    BY <1>5, <1>14, <2>1 DEF Sane
  <2>3. \A u \in Threads : "SUSPENDED" \in w.state[u] <=> u \in asleep'
    BY <1>4, <1>5, <1>14 DEF Sane
  <2>. QED
    BY <1>7, <1>12, <1>13, <1>15, <2>2, <2>3 DEF Sane
<1>17. Data'
  <2>1. \A u \in Threads : "DEAD" \notin w.state[u] => "DEAD" \notin vm.state[u]
    BY <1>5, <1>14
  <2>2. /\ asleep' \subseteq Threads /\ w.told = {} /\ w.code = vm.code /\ w.ready = vm.ready
        /\ w.nextOpcode = v.nextOpcode
    BY <1>4, <1>5, <1>7
  <2>. QED
    BY <1>4, <1>16, <2>1, <2>2, MovedStep
<1>18. Kept(w)
  <2>1. CASE ~m.ready
    BY <1>5, <1>7, <2>1 DEF Kept
  <2>2. CASE m.ready
    <3>2. e.kind = "START" /\ e.thread = t /\ w.debugEvent[c] = <<e>>
      BY <1>3, <1>7, <2>2, EventIsTyped DEF EventKinds
    <3>3. t \in OnQueue(w.all) /\ w.ready /\ w.timeToReschedule
      BY <1>7, <1>10, <2>2
    <3>. QED
      BY <1>7, <2>2, <3>2, <3>3 DEF Kept
  <2>. QED
    BY <2>1, <2>2
<1>19. ControlInv'
  BY <1>4, <1>5, <1>7, <1>18, ControlKeeps
<1>. QED
  BY <1>17, <1>19 DEF IInv

\* The current thread ends: stopThread() is from v by way of x and y to w.
Ended(v, x, y, w) ==
    /\ x \in VM /\ x.current = NIL
    /\ x.state = [v.state EXCEPT ![v.current] = {"DEAD"}]
    /\ x.alive = v.alive - 1
    /\ x.ipStore = [v.ipStore EXCEPT ![v.current] = v.ip]
    /\ x.runnable = v.runnable /\ x.count = v.count /\ x.fatal = v.fatal
    /\ x.all = v.all /\ x.ready = v.ready
    /\ x.code = v.code /\ x.events = v.events /\ x.notify = v.notify
    /\ x.nextOpcode = v.nextOpcode /\ x.debugEvent = v.debugEvent
    /\ x.told = v.told
    /\ y = (IF x.ready THEN setEvent_ThreadDeath(x, v.current) ELSE x)
    /\ w = [y EXCEPT !.state[v.current] = {"DEAD"},
                     !.all = RemoveFromQueue(@, v.current)]

LEMMA StopThreadFields ==
    ASSUME NEW v \in VM, Placed(v, {}), v.current # NIL,
           \A t \in Threads : v.debugEvent[t] = <<>>, NEW w, w = stopThread(v)
    PROVE  \E x, y : Ended(v, x, y, w)
<1>. DEFINE c == v.current
<1>1. /\ c \in Threads /\ v.state \in [Threads -> SUBSET Flag] /\ v.alive \in Int
      /\ v.ipStore \in [Threads -> Spots] /\ v.ip \in Spots
  BY DEF VM
<1>2. v.state[c] = {"ACTIVE"}
  BY DEF Placed
<1>3. PICK s : s = suspendThread(v)
  OBVIOUS
<1>4. /\ s \in VM /\ s.current = NIL
      /\ s.state = [v.state EXCEPT ![c] = {"ACTIVE", "SUSPENDED"}]
      /\ s.ipStore = [v.ipStore EXCEPT ![c] = v.ip]
      /\ s.runnable = v.runnable /\ s.count = v.count /\ s.fatal = v.fatal
      /\ s.all = v.all /\ s.alive = v.alive /\ s.ready = v.ready
      /\ s.code = v.code /\ s.events = v.events /\ s.notify = v.notify
      /\ s.nextOpcode = v.nextOpcode /\ s.debugEvent = v.debugEvent /\ s.told = v.told
      /\ s.ip = v.ip
  BY <1>2, <1>3, SuspendThreadFields, ZenonT(60)
<1>5. PICK S, A : S = [v.state EXCEPT ![c] = {"DEAD"}] /\ A = v.alive - 1
  OBVIOUS
<1>6. S \in [Threads -> SUBSET Flag] /\ A \in Int
  BY <1>1, <1>5 DEF Flag
<1>7. PICK x : x = [s EXCEPT !.state = S, !.alive = A]
  OBVIOUS
<1>8. x \in VM
  BY <1>4, <1>6, <1>7 DEF VM
<1>9. /\ x.current = NIL /\ x.state = S /\ x.alive = A
      /\ x.ipStore = s.ipStore /\ x.ip = v.ip
      /\ x.runnable = v.runnable /\ x.count = v.count /\ x.fatal = v.fatal
      /\ x.all = v.all /\ x.ready = v.ready
      /\ x.code = v.code /\ x.events = v.events /\ x.notify = v.notify
      /\ x.nextOpcode = v.nextOpcode /\ x.debugEvent = v.debugEvent /\ x.told = v.told
  BY <1>4, <1>7, <1>8 DEF VM
<1>10. [s EXCEPT !.state[c] = {"DEAD"}, !.alive = @ - 1] = x
  <2>1. [s.state EXCEPT ![c] = {"DEAD"}] = S
    BY <1>1, <1>4, <1>5
  <2>2. [s EXCEPT !.state[c] = {"DEAD"}, !.alive = @ - 1]
          = [s EXCEPT !.state = [s.state EXCEPT ![c] = {"DEAD"}], !.alive = s.alive - 1]
    BY <1>4 DEF VM
  <2>. QED
    BY <1>4, <1>5, <1>7, <2>1, <2>2
<1>11. storeExecutionEnvironment(x, c) = x
  <2>1. [x.ipStore EXCEPT ![c] = x.ip] = x.ipStore
    BY <1>1, <1>4, <1>9
  <2>2. [x EXCEPT !.ipStore[c] = x.ip] = x
    BY <1>8, <2>1 DEF VM
  <2>. QED
    BY <2>2 DEF storeExecutionEnvironment
<1>12. PICK y : y = (IF x.ready THEN setEvent_ThreadDeath(x, c) ELSE x)
  OBVIOUS
<1>13. w = [y EXCEPT !.state[c] = {"DEAD"}, !.all = RemoveFromQueue(@, c)]
  <2>1. w = DismantleThread(x, c)
    BY <1>3, <1>10 DEF stopThread
  <2>. QED
    BY <1>11, <1>12, <2>1 DEF DismantleThread
<1>14. Ended(v, x, y, w)
  BY <1>4, <1>5, <1>8, <1>9, <1>12, <1>13 DEF Ended
<1>. QED
  BY <1>14

LEMMA StopThreadKeeps ==
    ASSUME NEW v, NEW a, NEW p, Sane(v, a, p), v.current # NIL,
           \A t \in Threads : v.debugEvent[t] = <<>>, NEW w, w = stopThread(v)
    PROVE  /\ Sane(w, a, p) /\ w.code = v.code /\ w.ready = v.ready
           /\ w.nextOpcode = v.nextOpcode /\ w.debugEvent = v.debugEvent
           /\ w.told = v.told
           /\ \A t \in Threads : "DEAD" \notin w.state[t] => "DEAD" \notin v.state[t]
<1>. DEFINE c == v.current
<1>1. v \in VM /\ Placed(v, {}) /\ CodeInv(v)
  BY DEF Sane
<1>2. /\ c \in Threads /\ v.state \in [Threads -> SUBSET Flag] /\ v.ipStore \in [Threads -> Spots]
      /\ v.alive \in Int /\ v.all \in Seq(Threads) /\ v.ip \in Spots
  BY <1>1 DEF VM
<1>3. /\ v.state[c] = {"ACTIVE"} /\ c \in OnQueue(v.all) /\ c \notin OnQueue(v.runnable)
      /\ NIL \notin Threads
  <2>1. v.state[c] = {"ACTIVE"}
    BY <1>1 DEF Placed
  <2>. QED
    BY <1>1, <1>2, <2>1, DebuggerAssumption DEF Placed, Life
<1>0. PICK x, y : Ended(v, x, y, w)
  BY <1>1, StopThreadFields
<1>4. /\ x \in VM /\ x.current = NIL
      /\ x.state = [v.state EXCEPT ![c] = {"DEAD"}]
      /\ x.alive = v.alive - 1
      /\ x.ipStore = [v.ipStore EXCEPT ![c] = v.ip]
      /\ x.runnable = v.runnable /\ x.count = v.count /\ x.fatal = v.fatal
      /\ x.all = v.all /\ x.ready = v.ready
      /\ x.code = v.code /\ x.events = v.events /\ x.notify = v.notify
      /\ x.nextOpcode = v.nextOpcode /\ x.debugEvent = v.debugEvent
      /\ x.told = v.told
      /\ y = (IF x.ready THEN setEvent_ThreadDeath(x, c) ELSE x)
      /\ w = [y EXCEPT !.state[c] = {"DEAD"}, !.all = RemoveFromQueue(@, c)]
  BY <1>0 DEF Ended
<1>5. /\ x.state[c] = {"DEAD"} /\ \A u \in Threads \ {c} : x.state[u] = v.state[u]
      /\ \A u \in Threads \ {c} : x.ipStore[u] = v.ipStore[u]
  BY <1>2, <1>4
<1>6. Placed(x, {c})
  <2>1. x.fatal = "no" /\ NoDuplicates(x.runnable) /\ NoDuplicates(x.all) /\ x.current = NIL
    BY <1>1, <1>4 DEF Placed
  <2>2. \A u \in {c} : "DEAD" \in x.state[u]
    BY <1>5
  <2>3. ASSUME NEW u \in Threads
        PROVE  /\ Life(x.state[u]) \in Lives /\ x.state[u] # {"DBG_SUSPENDED"}
               /\ u \in OnQueue(x.runnable) <=> x.state[u] = {"ACTIVE"} /\ u # x.current
               /\ u \in OnQueue(x.all)
                    <=> Life(x.state[u]) # {} /\ ("DEAD" \in x.state[u] => u \in {c})
               /\ u \notin {c} =>
                    ("DBG_SUSPENDED" \in x.state[u]
                       <=> x.count[u] > 0 /\ "DEAD" \notin x.state[u])
    <3>1. CASE u = c
      <4>1. x.state[u] = {"DEAD"}
        BY <1>5, <3>1
      <4>2. Life(x.state[u]) = {"DEAD"}
        BY <4>1 DEF Life
      <4>3. u \notin OnQueue(x.runnable) /\ u \in OnQueue(x.all)
        BY <1>3, <1>4, <3>1
      <4>. QED
        BY <3>1, <4>1, <4>2, <4>3 DEF Lives
    <3>2. CASE u # c
      <4>1. /\ Life(v.state[u]) \in Lives /\ v.state[u] # {"DBG_SUSPENDED"}
            /\ u \in OnQueue(v.runnable) <=> v.state[u] = {"ACTIVE"} /\ u # v.current
            /\ u \in OnQueue(v.all)
                 <=> Life(v.state[u]) # {} /\ ("DEAD" \in v.state[u] => u \in {})
            /\ u \notin {} =>
                 ("DBG_SUSPENDED" \in v.state[u]
                    <=> v.count[u] > 0 /\ "DEAD" \notin v.state[u])
        <5>1. Placed(v, {})
          BY <1>1
        <5>. QED
          BY <5>1 DEF Placed
      <4>2. x.state[u] = v.state[u] /\ u # NIL
        BY <1>3, <1>5, <3>2
      <4>. QED
        BY <1>4, <3>2, <4>1, <4>2
    <3>. QED
      BY <3>1, <3>2
  <2>. QED
    BY <2>1, <2>2, <2>3 DEF Placed
<1>7. Placed(y, {c}) /\ Same(x, y) /\ y.current = NIL
  <2>1. CASE x.ready
    <3>1. PICK e : e = Event("END", c)
      OBVIOUS
    <3>2. e \in EventType /\ e.kind = "END" /\ e.thread = c
      BY <1>2, <3>1, EventIsTyped DEF EventKinds
    <3>3. y = setEvent(x, e)
      BY <1>4, <2>1, <3>1 DEF setEvent_ThreadDeath
    <3>4. e.thread \in OnQueue(x.all) /\ e.kind # "BREAKPOINT"
      BY <1>3, <1>4, <3>2
    <3>5. Placed(y, {c}) /\ Same(x, y) /\ y.current \in {x.current, NIL}
      BY <1>4, <1>6, <3>2, <3>3, <3>4, SetEventKeeps
    <3>. QED
      BY <1>4, <3>5
  <2>2. CASE ~x.ready
    <3>1. y = x
      BY <1>4, <2>2
    <3>. QED
      BY <1>4, <1>6, <3>1, SameRefl
  <2>. QED
    BY <2>1, <2>2
<1>8. y \in VM /\ y.state \in [Threads -> SUBSET Flag] /\ y.all \in Seq(Threads)
  <2>1. y \in VM
    BY <1>7 DEF Same
  <2>. QED
    BY <2>1 DEF VM
<1>9. PICK S, Q : S = [y.state EXCEPT ![c] = {"DEAD"}] /\ Q = RemoveFromQueue(y.all, c)
  OBVIOUS
<1>10. S \in [Threads -> SUBSET Flag] /\ Q \in Seq(Threads)
  BY <1>8, <1>9, RemoveType DEF Flag
<1>11. w = [y EXCEPT !.state = S, !.all = Q]
  BY <1>4, <1>8, <1>9 DEF VM
<1>12. w \in VM
  BY <1>8, <1>10, <1>11, ZenonT(60) DEF VM
<1>13. /\ w.current = NIL /\ w.state = S /\ w.all = Q
       /\ w.runnable = y.runnable /\ w.count = y.count /\ w.fatal = y.fatal
       /\ w.ip = y.ip /\ w.ipStore = y.ipStore /\ w.alive = y.alive
       /\ w.ready = y.ready /\ w.code = y.code /\ w.events = y.events
       /\ w.notify = y.notify /\ w.nextOpcode = y.nextOpcode
       /\ w.debugEvent = y.debugEvent /\ w.told = y.told
  BY <1>7, <1>8, <1>11, <1>12 DEF VM
<1>14. /\ w.state[c] = {"DEAD"} /\ \A u \in Threads \ {c} : w.state[u] = y.state[u]
  BY <1>2, <1>8, <1>9, <1>13
<1>15. OnQueue(w.all) = OnQueue(v.all) \ {c} /\ NoDuplicates(w.all)
  <2>1. PICK q : q = v.all
    OBVIOUS
  <2>2. q \in Seq(Threads) /\ c \in OnQueue(q) /\ NoDuplicates(q)
    BY <1>1, <1>2, <1>3, <2>1 DEF Placed
  <2>3. w.all = RemoveFromQueue(q, c)
    BY <1>4, <1>7, <1>9, <1>13, <2>1 DEF Same
  <2>4. OnQueue(RemoveFromQueue(q, c)) = OnQueue(q) \ {c} /\ NoDuplicates(RemoveFromQueue(q, c))
    BY <2>2, RemovedQueue
  <2>. QED
    BY <2>1, <2>3, <2>4
<1>16. /\ y.code = v.code /\ y.ready = v.ready /\ y.nextOpcode = v.nextOpcode
       /\ y.debugEvent = v.debugEvent /\ y.told = v.told /\ y.alive = v.alive - 1
       /\ y.notify = v.notify /\ y.all = v.all
       /\ SameRequests(v.events, y.events)
       /\ \A u \in Threads : Life(y.state[u]) = Life(x.state[u])
       /\ \A u \in Threads : Position(y, u) = Position(x, u)
  BY <1>4, <1>7 DEF Same
<1>17. \A u \in Threads \ {c}, f \in {"ACTIVE", "SUSPENDED", "DEAD"} :
          f \in w.state[u] <=> f \in v.state[u]
  <2>1. \A u \in Threads \ {c}, f \in {"ACTIVE", "SUSPENDED", "DEAD"} :
          /\ f \in y.state[u] <=> f \in Life(y.state[u])
          /\ f \in x.state[u] <=> f \in Life(x.state[u])
    BY DEF Life
  <2>2. \A u \in Threads \ {c} : w.state[u] = y.state[u] /\ x.state[u] = v.state[u]
          /\ Life(y.state[u]) = Life(x.state[u])
    BY <1>5, <1>14, <1>16
  <2>. QED
    BY <2>1, <2>2
<1>18. Placed(w, {})
  <2>1. w.fatal = "no" /\ NoDuplicates(w.runnable) /\ NoDuplicates(w.all) /\ w.current = NIL
    BY <1>7, <1>13, <1>15 DEF Placed
  <2>2. ASSUME NEW u \in Threads
        PROVE  /\ Life(w.state[u]) \in Lives /\ w.state[u] # {"DBG_SUSPENDED"}
               /\ u \in OnQueue(w.runnable) <=> w.state[u] = {"ACTIVE"} /\ u # w.current
               /\ u \in OnQueue(w.all)
                    <=> Life(w.state[u]) # {} /\ ("DEAD" \in w.state[u] => u \in {})
               /\ u \notin {} =>
                    ("DBG_SUSPENDED" \in w.state[u]
                       <=> w.count[u] > 0 /\ "DEAD" \notin w.state[u])
    <3>1. /\ Life(y.state[u]) \in Lives /\ y.state[u] # {"DBG_SUSPENDED"}
          /\ u \in OnQueue(y.runnable) <=> y.state[u] = {"ACTIVE"} /\ u # y.current
          /\ u \in OnQueue(y.all)
               <=> Life(y.state[u]) # {} /\ ("DEAD" \in y.state[u] => u \in {c})
          /\ u \notin {c} =>
               ("DBG_SUSPENDED" \in y.state[u]
                  <=> y.count[u] > 0 /\ "DEAD" \notin y.state[u])
          /\ u \in {c} => "DEAD" \in y.state[u]
      BY <1>7 DEF Placed
    <3>2. CASE u = c
      <4>1. w.state[u] = {"DEAD"}
        BY <1>14, <3>2
      <4>2. Life(w.state[u]) = {"DEAD"}
        BY <4>1 DEF Life
      <4>3. u \notin OnQueue(w.runnable) /\ u \notin OnQueue(w.all)
        <5>1. y.state[u] # {"ACTIVE"}
          BY <3>1, <3>2
        <5>. QED
          BY <1>13, <1>15, <3>1, <3>2, <5>1
      <4>. QED
        BY <4>1, <4>2, <4>3 DEF Lives
    <3>3. CASE u # c
      <4>1. w.state[u] = y.state[u]
        BY <1>14, <3>3
      <4>2. u \in OnQueue(w.all) <=> u \in OnQueue(y.all)
        BY <1>15, <1>16, <3>3
      <4>. QED
        BY <1>7, <1>13, <3>1, <3>3, <4>1, <4>2
    <3>. QED
      BY <3>2, <3>3
  <2>. QED
    BY <2>1, <2>2 DEF Placed
<1>19. CodeInv(w)
  <2>1. BreaksInv(v) /\ SameRequests(v.events, w.events) /\ w.code = v.code
    BY <1>1, <1>13, <1>16 DEF CodeInv
  <2>2. BreaksInv(w)
    BY <1>1, <1>12, <2>1, BreaksStand
  <2>. QED
    BY <1>1, <1>13, <1>16, <2>2 DEF CodeInv
<1>20. w.alive = Cardinality({u \in Threads : "ACTIVE" \in w.state[u]})
  <2>1. PICK B : B = {u \in Threads : "ACTIVE" \in v.state[u]}
    OBVIOUS
  <2>2. IsFiniteSet(B) /\ c \in B
    <3>1. B \subseteq Threads /\ IsFiniteSet(Threads)
      BY <2>1, DebuggerAssumption
    <3>. QED
      BY <1>2, <1>3, <2>1, <3>1, FS_Subset
  <2>3. {u \in Threads : "ACTIVE" \in w.state[u]} = B \ {c}
    BY <1>14, <1>17, <2>1
  <2>4. Cardinality(B \ {c}) = Cardinality(B) - 1
    BY <2>2, FS_RemoveElement
  <2>5. v.alive = Cardinality(B)
    BY <2>1 DEF Sane
  <2>. QED
    BY <1>13, <1>16, <2>3, <2>4, <2>5
<1>21. \A u \in Threads : "SUSPENDED" \in w.state[u] <=> u \in a
  <2>1. \A u \in Threads : "SUSPENDED" \in v.state[u] <=> u \in a
    BY DEF Sane
  <2>2. c \notin a /\ "SUSPENDED" \notin w.state[c]
    BY <1>2, <1>3, <1>14, <2>1
  <2>. QED
    BY <1>17, <2>1, <2>2
<1>22. ASSUME NEW u \in Threads, "DEAD" \notin w.state[u]
       PROVE  p[u] = Position(w, u) /\ "DEAD" \notin v.state[u]
  <2>1. u # c
    BY <1>14, <1>22
  <2>2. "DEAD" \notin v.state[u]
    BY <1>17, <1>22, <2>1
  <2>3. p[u] = Position(v, u)
    BY <2>2 DEF Sane
  <2>4. u # NIL /\ x.ipStore[u] = v.ipStore[u]
    BY <1>3, <1>5, <2>1
  <2>5. Position(v, u) = v.ipStore[u] /\ Position(x, u) = x.ipStore[u]
    BY <1>4, <2>1, <2>4 DEF Position
  <2>6. Position(w, u) = Position(y, u)
    BY <1>7, <1>13 DEF Position
  <2>. QED
    BY <1>16, <2>2, <2>3, <2>4, <2>5, <2>6
<1>23. Sane(w, a, p)
  BY <1>12, <1>18, <1>19, <1>20, <1>21, <1>22 DEF Sane
<1>24. \A t \in Threads : "DEAD" \notin w.state[t] => "DEAD" \notin v.state[t]
  BY <1>22
<1>. QED
  BY <1>13, <1>16, <1>23, <1>24

LEMMA ReturnStep ==
    ASSUME IInv, NEW v \in Prepared, Return(v)
    PROVE  IInv'
<1>. DEFINE c == vm.current
<1>1. PICK w : w = stopThread(v)
  OBVIOUS
<1>2. /\ Instruction(v, v.ip) /\ at' = "reschedulePoint" /\ UNCHANGED <<asleep, waits>>
      /\ Becomes(w, {v.current})
  BY <1>1 DEF Return
<1>3. v.ip \in Spots
  <2>1. v \in VM
    BY PreparedFacts
  <2>. QED
    BY <2>1 DEF VM
<1>4. PICK m : m = Moved(v, v.ip)
  OBVIOUS
<1>5. /\ Sane(m, asleep, place') /\ m.current = c /\ c # NIL
      /\ m.told = {} /\ m.ready = vm.ready /\ m.code = vm.code
      /\ m.nextOpcode = v.nextOpcode
      /\ \A t \in Threads : m.debugEvent[t] = <<>>
      /\ \A t \in Threads : "DEAD" \notin m.state[t] => "DEAD" \notin vm.state[t]
      /\ waits = <<>> /\ asleep \subseteq Threads
      /\ v.current = c /\ (v.ip = v.ip => m = v)
  BY <1>2, <1>3, <1>4, MovedFacts
<1>6. w = stopThread(m)
  BY <1>1, <1>5
<1>7. /\ Sane(w, asleep, place') /\ w.code = m.code /\ w.ready = m.ready
      /\ w.nextOpcode = m.nextOpcode /\ w.debugEvent = m.debugEvent
      /\ w.told = m.told
      /\ \A t \in Threads : "DEAD" \notin w.state[t] => "DEAD" \notin m.state[t]
  <2>1. /\ Sane(m, asleep, place') /\ m.current # NIL
        /\ \A t \in Threads : m.debugEvent[t] = <<>>
    BY <1>5
  <2>. QED
    BY <1>6, <2>1, StopThreadKeeps
<1>8. w \in VM
  BY <1>7 DEF Sane
<1>9. Data'
  <2>1. /\ Sane(w, asleep', place') /\ asleep' \subseteq Threads /\ w.told = {}
        /\ w.code = vm.code /\ w.ready = vm.ready /\ w.nextOpcode = v.nextOpcode
        /\ \A t \in Threads : "DEAD" \notin w.state[t] => "DEAD" \notin vm.state[t]
    BY <1>2, <1>5, <1>7
  <2>. QED
    BY <1>2, <1>3, <2>1, MovedStep
<1>10. ControlInv'
  <2>1. \A t \in Threads : w.debugEvent[t] = <<>>
    BY <1>5, <1>7
  <2>. QED
    BY <1>2, <1>5, <1>8, <2>1, ControlKeeps
<1>. QED
  BY <1>9, <1>10 DEF IInv

\* Where the VM is, after a step that may leave it waiting.
LEMMA ControlWaits ==
    ASSUME NEW w \in VM, NEW moved, Becomes(w, moved), at' = "reschedulePoint",
           NEW t \in Threads, NEW all, WaitIf(all, "caught", t),
           \A u \in Threads : w.debugEvent[u] = <<>>
    PROVE  ControlInv'
<1>1. vm' = Settled(w)
  BY DEF Becomes, Settled
<1>2. vm'.debugEvent = w.debugEvent
  BY <1>1, SettledFields
<1>3. EventsSent(vm)'
  BY <1>2 DEF EventsSent
<1>4. PICK r : r = [what |-> "caught", thread |-> t]
  OBVIOUS
<1>5. r \in WaitType /\ r.what # "start"
  BY <1>4 DEF WaitType
<1>6. waits' = <<r>> \/ waits' = <<>>
  BY <1>4 DEF WaitIf
<1>7. waits' \in Seq(WaitType) /\ \A i \in DOMAIN waits' : waits'[i].what # "start"
  <2>1. CASE waits' = <<>>
    BY <2>1
  <2>2. CASE waits' = <<r>>
    <3>1. <<r>> \in Seq(WaitType) /\ DOMAIN <<r>> = {1} /\ <<r>>[1] = r
      BY <1>5
    <3>. QED
      BY <1>5, <2>2, <3>1
  <2>. QED
    BY <1>6, <2>1, <2>2
<1>. QED
  BY <1>3, <1>7 DEF ControlInv

\* An exception is reported, to nobody whom it stops if it is not caught.
LEMMA ExceptionFacts ==
    ASSUME NEW m, NEW a, NEW p, Sane(m, a, p), m.current # NIL, NEW caught \in BOOLEAN,
           NEW n, n = setEvent_Exception(m, caught)
    PROVE  /\ Sane(n, a, p) /\ Same(m, n) /\ n \in VM
           /\ ~caught => n.policy = "NONE" /\ n.current = m.current
<1>. DEFINE c == m.current
<1>1. m \in VM /\ Placed(m, {}) /\ BreaksInv(m)
  BY DEF Sane, CodeInv
<1>2. c \in Threads /\ c \in OnQueue(m.all)
  <2>1. c \in Threads
    BY <1>1 DEF VM
  <2>2. m.state[c] = {"ACTIVE"}
    BY <1>1 DEF Placed
  <2>. QED
    BY <1>1, <2>1, <2>2 DEF Placed, Life
<1>3. Placed(n, {}) /\ Same(m, n) /\ (~caught => n.policy = "NONE" /\ n.current = m.current)
  <2>1. CASE m.ready
    <3>1. PICK e : e = [kind |-> "EXCEPTION", thread |-> c, caught |-> caught]
      OBVIOUS
    <3>2. /\ e \in EventType /\ e.kind = "EXCEPTION" /\ e.thread \in OnQueue(m.all)
          /\ e.caught = caught
      BY <1>2, <3>1 DEF EventType, EventKinds
    <3>3. n = setEvent(m, e)
      BY <2>1, <3>1 DEF setEvent_Exception
    <3>4. /\ Placed(n, {}) /\ Same(m, n) /\ n.current \in {m.current, NIL}
          /\ n.resumeOK = m.resumeOK
          /\ (\A i \in findSatisfyingEvent(m, e) : m.events[i].policy = "NONE")
                => n.policy = "NONE" /\ n.current = m.current
      BY <1>1, <3>2, <3>3, SetEventKeeps
    <3>5. ASSUME ~caught, NEW i \in findSatisfyingEvent(m, e)
          PROVE  m.events[i].policy = "NONE"
      <4>1. /\ i \in DOMAIN m.events /\ m.events[i].kind = "EXCEPTION"
            /\ m.events[i].mods # <<>> =>
                 \E j \in DOMAIN m.events[i].mods : satisfiesModifiers(e, m.events[i].mods[j])
        BY <3>2 DEF findSatisfyingEvent
      <4>. SUFFICES ASSUME m.events[i].policy # "NONE" PROVE FALSE
        OBVIOUS
      <4>2. /\ m.events[i].mods # <<>>
            /\ \A j \in DOMAIN m.events[i].mods :
                 m.events[i].mods[j].kind = "ExceptionOnly" /\ ~m.events[i].mods[j].uncaught
        BY <1>1, <4>1 DEF BreaksInv
      <4>3. PICK j \in DOMAIN m.events[i].mods : satisfiesModifiers(e, m.events[i].mods[j])
        BY <4>1, <4>2
      <4>4. m.events[i].mods[j].uncaught
        BY <3>2, <3>5, <4>2, <4>3 DEF satisfiesModifiers
      <4>. QED
        BY <4>2, <4>4
    <3>. QED
      BY <3>4, <3>5
  <2>2. CASE ~m.ready
    <3>1. n = [m EXCEPT !.policy = "NONE"]
      BY <2>2 DEF setEvent_Exception
    <3>2. n \in VM
      BY <1>1, <3>1, ZenonT(60) DEF VM, Policies
    <3>3. Twin(m, n) /\ n.policy = "NONE" /\ n.current = m.current
      BY <1>1, <3>1, <3>2 DEF VM, Twin, Threaded
    <3>. QED
      BY <1>1, <3>3, TwinKeeps
  <2>. QED
    BY <2>1, <2>2
<1>4. Sane(n, a, p)
  BY <1>3, SaneStands
<1>. QED
  BY <1>3, <1>4 DEF Same

LEMMA ThrowStep ==
    ASSUME IInv, NEW v \in Prepared, NEW s \in Spots, Throw(v, s)
    PROVE  IInv'
<1>. DEFINE c == vm.current
<1>1. PICK m, n : m = Moved(v, s) /\ n = setEvent_Exception(m, TRUE)
  OBVIOUS
<1>2. /\ Instruction(v, s) /\ at' = "reschedulePoint" /\ UNCHANGED asleep
      /\ Becomes(n, {v.current}) /\ WaitIf(n.policy = "ALL", "caught", v.current)
  BY <1>1 DEF Throw
<1>3. /\ Sane(m, asleep, place') /\ m.current = c /\ c # NIL /\ c \in Threads
      /\ m.told = {} /\ m.ready = vm.ready /\ m.code = vm.code
      /\ m.nextOpcode = v.nextOpcode
      /\ \A t \in Threads : m.debugEvent[t] = <<>>
      /\ \A t \in Threads : "DEAD" \notin m.state[t] => "DEAD" \notin vm.state[t]
      /\ asleep \subseteq Threads /\ v.current = c
  BY <1>1, <1>2, MovedFacts
<1>4. Sane(n, asleep, place') /\ Same(m, n) /\ n \in VM
  <2>1. Sane(m, asleep, place') /\ m.current # NIL
    BY <1>3
  <2>. QED
    BY <1>1, <2>1, ExceptionFacts
<1>5. /\ n.code = vm.code /\ n.ready = vm.ready /\ n.nextOpcode = v.nextOpcode
      /\ n.debugEvent = m.debugEvent /\ n.told = {}
      /\ \A t \in Threads : Life(n.state[t]) = Life(m.state[t])
  BY <1>3, <1>4 DEF Same
<1>6. \A t \in Threads : "DEAD" \notin n.state[t] => "DEAD" \notin vm.state[t]
  BY <1>3, <1>5 DEF Life
<1>7. Data'
  <2>1. Sane(n, asleep', place') /\ asleep' \subseteq Threads
    BY <1>2, <1>3, <1>4
  <2>. QED
    BY <1>2, <1>5, <1>6, <2>1, MovedStep
<1>8. ControlInv'
  <2>1. \A t \in Threads : n.debugEvent[t] = <<>>
    BY <1>3, <1>5
  <2>2. WaitIf(n.policy = "ALL", "caught", c)
    BY <1>2, <1>3
  <2>. QED
    BY <1>2, <1>3, <1>4, <2>1, <2>2, ControlWaits
<1>. QED
  BY <1>7, <1>8 DEF IInv

LEMMA ThrowUncaughtStep ==
    ASSUME IInv, NEW v \in Prepared, ThrowUncaught(v)
    PROVE  IInv'
<1>. DEFINE c == vm.current
<1>1. v.ip \in Spots
  <2>1. v \in VM
    BY PreparedFacts
  <2>. QED
    BY <2>1 DEF VM
<1>2. PICK m, n : m = Moved(v, v.ip) /\ n = setEvent_Exception(v, FALSE)
  OBVIOUS
<1>3. /\ Instruction(v, v.ip) /\ at' = "reschedulePoint" /\ UNCHANGED asleep
      /\ Becomes(IF n.policy = "ALL" THEN n ELSE Uncaught(n, v.current), {v.current})
      /\ WaitIf(n.policy = "ALL", "uncaught", v.current)
  BY <1>2 DEF ThrowUncaught
<1>4. /\ Sane(m, asleep, place') /\ m.current = c /\ c # NIL /\ c \in Threads
      /\ m.told = {} /\ m.ready = vm.ready /\ m.code = vm.code
      /\ m.nextOpcode = v.nextOpcode
      /\ \A t \in Threads : m.debugEvent[t] = <<>>
      /\ \A t \in Threads : "DEAD" \notin m.state[t] => "DEAD" \notin vm.state[t]
      /\ asleep \subseteq Threads /\ v.current = c /\ (v.ip = v.ip => m = v)
  BY <1>1, <1>2, <1>3, MovedFacts
<1>5. n = setEvent_Exception(m, FALSE)
  BY <1>2, <1>4
<1>6. Sane(n, asleep, place') /\ Same(m, n) /\ n.policy = "NONE" /\ n.current = m.current
  <2>1. Sane(m, asleep, place') /\ m.current # NIL
    BY <1>4
  <2>. QED
    BY <1>5, <2>1, ExceptionFacts
<1>7. PICK w : w = stopThread(n)
  OBVIOUS
<1>8. Becomes(w, {v.current}) /\ waits' = <<>>
  BY <1>3, <1>4, <1>6, <1>7 DEF Uncaught, WaitIf
<1>9. /\ Sane(w, asleep, place') /\ w.code = n.code /\ w.ready = n.ready
      /\ w.nextOpcode = n.nextOpcode /\ w.debugEvent = n.debugEvent
      /\ w.told = n.told
      /\ \A t \in Threads : "DEAD" \notin w.state[t] => "DEAD" \notin n.state[t]
  <2>1. Sane(n, asleep, place') /\ n.current # NIL
    BY <1>4, <1>6
  <2>2. \A t \in Threads : n.debugEvent[t] = <<>>
    BY <1>4, <1>6 DEF Same
  <2>. QED
    BY <1>7, <2>1, <2>2, StopThreadKeeps
<1>10. /\ n.code = vm.code /\ n.ready = vm.ready /\ n.nextOpcode = v.nextOpcode
       /\ n.debugEvent = m.debugEvent /\ n.told = {}
       /\ \A t \in Threads : Life(n.state[t]) = Life(m.state[t])
  BY <1>4, <1>6 DEF Same
<1>11. \A t \in Threads : "DEAD" \notin w.state[t] => "DEAD" \notin vm.state[t]
  <2>1. \A t \in Threads : "DEAD" \notin n.state[t] => "DEAD" \notin m.state[t]
    BY <1>10 DEF Life
  <2>. QED
    BY <1>4, <1>9, <2>1
<1>12. w \in VM
  BY <1>9 DEF Sane
<1>13. Data'
  <2>1. /\ Sane(w, asleep', place') /\ asleep' \subseteq Threads /\ w.told = {}
        /\ w.code = vm.code /\ w.ready = vm.ready /\ w.nextOpcode = v.nextOpcode
    BY <1>3, <1>4, <1>9, <1>10
  <2>. QED
    BY <1>1, <1>3, <1>8, <1>11, <2>1, MovedStep
<1>14. ControlInv'
  <2>1. \A t \in Threads : w.debugEvent[t] = <<>>
    BY <1>4, <1>9, <1>10
  <2>. QED
    BY <1>3, <1>8, <1>12, <2>1, ControlKeeps
<1>. QED
  BY <1>13, <1>14 DEF IInv

----------------------------------------------------------------------------
(* The invariant *)

\* The VM begins in the invariant, ...
LEMMA Starts ==
    ASSUME Init
    PROVE  IInv
<1>1. /\ vm = Booted /\ at = "boot" /\ waits = <<>> /\ asleep = {}
      /\ place = [t \in Threads |-> Entry] /\ hit = [t \in Threads |-> "no"]
  BY DEF Init
<1>2. /\ MainThread \in Threads /\ NIL \notin Threads /\ Entry \in Spots
      /\ IsFiniteSet(Threads)
  BY DebuggerAssumption
<1>3. PICK q : q = <<MainThread>>
  OBVIOUS
<1>4. q \in Seq(Threads) /\ OnQueue(q) = {MainThread} /\ NoDuplicates(q)
  <2>1. q \in Seq(Threads)
    BY <1>2, <1>3
  <2>. QED
    BY <1>3, <2>1, SingleQueue
<1>5. /\ vm.current = MainThread /\ vm.runnable = <<>>
      /\ vm.state = [t \in Threads |-> IF t = MainThread THEN {"ACTIVE"} ELSE {}]
      /\ vm.count = [t \in Threads |-> 0] /\ vm.all = q /\ vm.alive = 1 /\ vm.ip = Entry
      /\ vm.ipStore = [t \in Threads |-> Entry] /\ vm.code = [s \in Spots |-> "op"]
      /\ vm.nextOpcode = [t \in Threads |-> "none"]
      /\ vm.debugEvent = [t \in Threads |-> <<>>] /\ vm.events = <<>> /\ vm.notify = {}
      /\ vm.ready /\ ~vm.resumeOK /\ vm.told = {} /\ vm.fatal = "no"
  BY <1>1, <1>3 DEF Booted
<1>6. vm \in VM
  <2>1. [t \in Threads |-> IF t = MainThread THEN {"ACTIVE"} ELSE {}]
          \in [Threads -> SUBSET Flag]
    BY DEF Flag
  <2>2. /\ [t \in Threads |-> 0] \in [Threads -> Nat]
        /\ [t \in Threads |-> Entry] \in [Threads -> Spots]
        /\ [s \in Spots |-> "op"] \in [Spots -> Opcode]
        /\ [t \in Threads |-> "none"] \in [Threads -> Opcode]
    BY <1>2 DEF Opcode
  <2>3. <<>> \in Seq(Threads) /\ <<>> \in Seq(EventRequest)
    OBVIOUS
  <2>. QED
    BY <1>1, <1>2, <1>3, <1>4, <2>1, <2>2, <2>3, NoEventsType
    DEF Booted, VM, Policies, FatalErrors
<1>7. /\ vm.state[MainThread] = {"ACTIVE"}
      /\ \A t \in Threads \ {MainThread} : vm.state[t] = {}
      /\ \A t \in Threads : vm.count[t] = 0
  BY <1>2, <1>5
<1>8. Placed(vm, {})
  <2>1. OnQueue(vm.runnable) = {} /\ NoDuplicates(vm.runnable)
    BY <1>5, EmptyQueue
  <2>2. ASSUME NEW u \in Threads
        PROVE  /\ Life(vm.state[u]) \in Lives /\ vm.state[u] # {"DBG_SUSPENDED"}
               /\ u \in OnQueue(vm.runnable) <=> vm.state[u] = {"ACTIVE"} /\ u # vm.current
               /\ u \in OnQueue(vm.all)
                    <=> Life(vm.state[u]) # {} /\ ("DEAD" \in vm.state[u] => u \in {})
               /\ u \notin {} =>
                    ("DBG_SUSPENDED" \in vm.state[u]
                       <=> vm.count[u] > 0 /\ "DEAD" \notin vm.state[u])
    <3>1. CASE u = MainThread
      <4>1. PICK x : x = vm.state[u]
        OBVIOUS
      <4>2. x = {"ACTIVE"}
        BY <1>7, <3>1, <4>1
      <4>3. Life(x) = {"ACTIVE"}
        BY <4>2 DEF Life
      <4>4. /\ u \notin OnQueue(vm.runnable) /\ u \in OnQueue(vm.all) /\ ~(vm.count[u] > 0)
            /\ u = vm.current
        BY <1>4, <1>5, <1>7, <2>1, <3>1
      <4>5. x # {"DBG_SUSPENDED"} /\ Life(x) \in Lives /\ Life(x) # {}
              /\ "DBG_SUSPENDED" \notin x /\ "DEAD" \notin x
        BY <4>2, <4>3 DEF Lives
      <4>. QED
        BY <4>1, <4>4, <4>5
    <3>2. CASE u # MainThread
      <4>1. PICK x : x = vm.state[u]
        OBVIOUS
      <4>2. x = {} /\ Life(x) = {}
        BY <1>7, <3>2, <4>1 DEF Life
      <4>3. u \notin OnQueue(vm.runnable) /\ u \notin OnQueue(vm.all) /\ vm.count[u] = 0
        BY <1>4, <1>5, <1>7, <2>1, <3>2
      <4>4. x # {"ACTIVE"} /\ x # {"DBG_SUSPENDED"} /\ Life(x) \in Lives
              /\ "DBG_SUSPENDED" \notin x
        BY <4>2 DEF Lives
      <4>. QED
        BY <4>1, <4>2, <4>3, <4>4
    <3>. QED
      BY <3>1, <3>2
  <2>. QED
    BY <1>4, <1>5, <1>7, <2>1, <2>2 DEF Placed
<1>9. CodeInv(vm)
  BY <1>5 DEF CodeInv, BreaksInv
<1>10. vm.alive = Cardinality({t \in Threads : "ACTIVE" \in vm.state[t]})
  <2>1. {t \in Threads : "ACTIVE" \in vm.state[t]} = {MainThread}
    BY <1>2, <1>7
  <2>2. Cardinality({MainThread}) = 1
    BY FS_Singleton
  <2>. QED
    BY <1>5, <2>1, <2>2
<1>11. Sane(vm, asleep, place)
  <2>1. \A t \in Threads : "SUSPENDED" \in vm.state[t] <=> t \in asleep
    BY <1>1, <1>7
  <2>2. \A t \in Threads : place[t] = Position(vm, t)
    BY <1>1, <1>5 DEF Position
  <2>. QED
    BY <1>6, <1>8, <1>9, <1>10, <2>1, <2>2 DEF Sane
<1>12. HitInv(vm, place, hit, Alert)
  BY <1>1, <1>5 DEF HitInv
<1>13. Data
  BY <1>1, <1>2, <1>5, <1>11, <1>12 DEF Data
<1>14. ControlInv
  <2>1. \A t \in Threads : vm.debugEvent[t] = <<>>
    BY <1>5
  <2>. QED
    BY <1>1, <2>1 DEF ControlInv, EventsSent
<1>. QED
  BY <1>13, <1>14 DEF IInv

\* ... and each of its steps, and each command, keeps it.
LEMMA NextKeeps ==
    ASSUME IInv, TakesPrecautions
    PROVE  IInv'
<1>1. CASE VMStep
  <2>1. CASE StartJVM
    BY <2>1, StartJVMStep
  <2>2. CASE Reschedule
    BY <2>2, RescheduleStep
  <2>3. CASE NoCommand
    BY <2>3, NoCommandStep
  <2>4. CASE Switch
    BY <2>4, SwitchStep
  <2>5. CASE Finish
    BY <2>5, FinishStep
  <2>6. CASE \E t \in Threads : WakeUp(t)
    BY <2>6, WakeUpStep
  <2>7. CASE StopAfterStep
    BY <2>7, StopAfterStepStep
  <2>8. CASE Breakpoint
    BY <2>8, BreakpointStep
  <2>9. CASE ExecuteOp
    <3>1. PICK v \in Prepared :
            \/ \E s \in Spots : \/ Straight(v, s) \/ Branch(v, s) \/ Sleep(v, s) \/ New(v, s)
                                \/ Start(v, s) \/ Prepare(v, s) \/ Throw(v, s)
            \/ Return(v) \/ ThrowUncaught(v)
      BY <2>9 DEF ExecuteOp
    <3>2. ASSUME NEW s \in Spots, Straight(v, s) \/ Branch(v, s) PROVE IInv'
      BY <3>2, StraightStep
    <3>3. ASSUME NEW s \in Spots, Sleep(v, s) PROVE IInv'
      BY <3>3, SleepStep
    <3>4. ASSUME NEW s \in Spots, New(v, s) PROVE IInv'
      BY <3>4, NewStep
    <3>5. ASSUME NEW s \in Spots, Start(v, s) PROVE IInv'
      BY <3>5, StartStep
    <3>6. ASSUME NEW s \in Spots, Prepare(v, s) PROVE IInv'
      BY <3>6, PrepareStep
    <3>7. ASSUME NEW s \in Spots, Throw(v, s) PROVE IInv'
      BY <3>7, ThrowStep
    <3>8. CASE Return(v)
      BY <3>8, ReturnStep
    <3>9. CASE ThrowUncaught(v)
      BY <3>9, ThrowUncaughtStep
    <3>. QED
      BY <3>1, <3>2, <3>3, <3>4, <3>5, <3>6, <3>7, <3>8, <3>9
  <2>. QED
    BY <1>1, <2>1, <2>2, <2>3, <2>4, <2>5, <2>6, <2>7, <2>8, <2>9 DEF VMStep
<1>2. CASE CommandStep({})
  <2>1. CASE MaySuspend({}) /\ (SuspendAll \/ \E t \in Threads : SuspendOne(t))
    BY <2>1, SuspendAllCommand, SuspendOneCommand
  <2>2. CASE MayResumeAll(vm, {}) /\ ResumeAll
    BY <2>2, ResumeAllCommand
  <2>3. CASE Frames
    BY <2>3, FramesCommand
  <2>4. CASE /\ \A i \in DOMAIN vm.events : vm.events[i].inUse => MayClear(vm, i, {})
             /\ ClearAllBreakpoints
    BY <2>4, ClearAllCommand
  <2>5. CASE \E t \in Threads : MayResume(vm, t, {}) /\ ResumeOne(t)
    BY <2>5, ResumeOneCommand
  <2>6. CASE \E i \in DOMAIN vm.events : MayClear(vm, i, {}) /\ Clear(i)
    BY <2>6, ClearCommand
  <2>7. CASE \E r \in Requests : MaySet(vm, r, {}) /\ SetRequest(r)
    BY <2>7, SetRequestCommand
  <2>8. CASE SteppingInfo
    BY <2>8, SteppingInfoCommand
  <2>9. CASE Exit
    BY <2>9, ExitCommand
  <2>10. CASE MayDisconnect(vm, {}) /\ LoseConnection
    BY <2>10, LoseConnectionCommand
  <2>. QED
    BY <1>2, <2>1, <2>2, <2>3, <2>4, <2>5, <2>6, <2>7, <2>8, <2>9, <2>10 DEF CommandStep
<1>. QED
  BY <1>1, <1>2 DEF TakesPrecautions

LEMMA StutterKeeps ==
    ASSUME IInv, UNCHANGED vars
    PROVE  IInv'
  BY DEF IInv, Data, ControlInv, EventsSent, BeforeStart, Alert, vars

LEMMA Invariant == Spec /\ [][TakesPrecautions]_vars => []IInv
<1>1. Init => IInv
  BY Starts
<1>2. IInv /\ [TakesPrecautions]_vars => IInv'
  BY NextKeeps, StutterKeeps
<1>. QED
  BY <1>1, <1>2, PTL DEF Spec

----------------------------------------------------------------------------
(* What it says *)

\* A thread is at most once in a queue without duplicates.
LEMMA InOneQueue ==
    ASSUME NEW q \in Seq(Threads), NoDuplicates(q), NEW t
    PROVE  Cardinality({i \in DOMAIN q : q[i] = t}) = IF t \in OnQueue(q) THEN 1 ELSE 0
<1>1. CASE t \in OnQueue(q)
  <2>1. PICK i \in DOMAIN q : q[i] = t
    BY <1>1 DEF OnQueue
  <2>2. {j \in DOMAIN q : q[j] = t} = {i}
    BY <2>1 DEF NoDuplicates
  <2>. QED
    BY <1>1, <2>2, FS_Singleton
<1>2. CASE t \notin OnQueue(q)
  <2>1. {j \in DOMAIN q : q[j] = t} = {}
    BY <1>2 DEF OnQueue
  <2>. QED
    BY <1>2, <2>1, FS_EmptySet
<1>. QED
  BY <1>1, <1>2

LEMMA StandStill ==
    ASSUME IInv
    PROVE  SuspendedStandStill
<1>1. /\ vm \in VM /\ Placed(vm, {})
      /\ \A t \in Threads : "SUSPENDED" \in vm.state[t] <=> t \in asleep
      /\ vm.alive = Cardinality({t \in Threads : "ACTIVE" \in vm.state[t]})
  BY DEF IInv, Data, Sane
<1>2. vm.runnable \in Seq(Threads) /\ NIL \notin Threads
  BY <1>1, DebuggerAssumption DEF VM
<1>3. vm.fatal = "no" /\ NoDuplicates(vm.runnable)
      /\ (vm.current # NIL => vm.state[vm.current] = {"ACTIVE"})
  BY <1>1 DEF Placed
<1>4. \A t \in Threads :
        /\ Life(vm.state[t]) \in Lives /\ vm.state[t] # {"DBG_SUSPENDED"}
        /\ t \in OnQueue(vm.runnable) <=> vm.state[t] = {"ACTIVE"} /\ t # vm.current
        /\ "DBG_SUSPENDED" \in vm.state[t] <=> vm.count[t] > 0 /\ "DEAD" \notin vm.state[t]
  <2>1. Placed(vm, {})
    BY <1>1
  <2>. QED
    BY <2>1 DEF Placed
<1>5. ASSUME NEW t \in Threads
      PROVE  (IF vm.current = t THEN 1 ELSE 0)
                + Cardinality({i \in DOMAIN vm.runnable : vm.runnable[i] = t})
              = (IF vm.state[t] = {"ACTIVE"} THEN 1 ELSE 0)
  <2>1. Cardinality({i \in DOMAIN vm.runnable : vm.runnable[i] = t})
          = IF t \in OnQueue(vm.runnable) THEN 1 ELSE 0
    BY <1>2, <1>3, InOneQueue
  <2>2. CASE vm.current = t
    <3>1. vm.state[t] = {"ACTIVE"} /\ t \notin OnQueue(vm.runnable)
      BY <1>2, <1>3, <1>4, <2>2
    <3>. QED
      BY <2>1, <2>2, <3>1
  <2>3. CASE vm.current # t
    <3>1. t \in OnQueue(vm.runnable) <=> vm.state[t] = {"ACTIVE"}
      BY <1>4, <2>3
    <3>. QED
      BY <2>1, <2>3, <3>1
  <2>. QED
    BY <2>2, <2>3
<1>6. {t \in Threads : Alive(t)} = {t \in Threads : "ACTIVE" \in vm.state[t]}
  <2>1. ASSUME NEW t \in Threads
        PROVE  Alive(t) <=> "ACTIVE" \in vm.state[t]
    <3>1. Life(vm.state[t]) \in Lives /\ vm.state[t] # {"DBG_SUSPENDED"}
      BY <1>4
    <3>2. PICK s : s = vm.state[t]
      OBVIOUS
    <3>3. s \ {"DBG_SUSPENDED"} \in Lives /\ s # {"DBG_SUSPENDED"}
      BY <3>1, <3>2 DEF Life
    <3>4. s # {} /\ s \cap {"JUST_BORN", "DEAD"} = {} <=> "ACTIVE" \in s
      BY <3>3 DEF Lives
    <3>. QED
      BY <3>2, <3>4 DEF Alive
  <2>. QED
    BY <2>1
<1>. QED
  BY <1>1, <1>3, <1>4, <1>5, <1>6 DEF SuspendedStandStill

LEMMA Hits ==
    ASSUME IInv
    PROVE  BreakpointsHit
<1>1. /\ hit \in [Threads -> {"no", "due", "told"}]
      /\ \A t \in Threads : "DEAD" \notin vm.state[t] => place[t] = Position(vm, t)
  BY DEF IInv, Data, Sane
<1>2. \A t \in Threads : Alive(t) => "DEAD" \notin vm.state[t]
  BY DEF Alive
<1>. QED
  BY <1>1, <1>2 DEF BreakpointsHit, Position

LEMMA Restored ==
    ASSUME IInv
    PROVE  CodeRestored
<1>1. BreaksInv(vm)
  BY DEF IInv, Data, Sane, CodeInv
<1>. QED
  BY <1>1 DEF CodeRestored, BreaksInv, Installed

\* Until the debugger first leaves out one of its six precautions (resumeRunning,
\* disconnectRunning, suspendAtStart, uncaught, sharedSpot, staleClear), and in whatever order
\* its commands and the threads of the program act, suspendSpecificThread() and
\* resumeSpecificThread() neither lose a thread nor have it twice, and those alive are counted.
\* What becomes of the threads without the first of them, ResumeLosesThreads says.
THEOREM ThreadsOutliveDebugger ==
    Spec /\ [][TakesPrecautions]_vars => []SuspendedStandStill
<1>1. IInv => SuspendedStandStill
  BY StandStill
<1>. QED
  BY <1>1, Invariant, PTL

\* As long as the debugger takes the precautions, no thread skips a breakpoint that is set where
\* it is, or stops there twice, and every one goes on where it was: handleBreakpoint() and
\* nextOpcode work together.
THEOREM NoBreakpointMissed ==
    Spec /\ [][TakesPrecautions]_vars => []BreakpointsHit
<1>1. IInv => BreakpointsHit
  BY Hits
<1>. QED
  BY <1>1, Invariant, PTL

\* As long as the debugger takes the precautions, the BREAKPOINT instructions in the code are
\* those of the requests there are, and each request knows what to put back:
\* installBreakpoint() and clearEvent().
THEOREM RequestsKnowCode ==
    Spec /\ [][TakesPrecautions]_vars => []CodeRestored
<1>1. IInv => CodeRestored
  BY Restored
<1>. QED
  BY <1>1, Invariant, PTL

----------------------------------------------------------------------------
(* Resuming a thread that the debugger has not suspended *)

\* The current thread: the VM ends.
LEMMA ResumeCurrent ==
    ASSUME NEW v \in VM, NEW t \in Threads, v.count[t] = 0, v.state[t] = {"ACTIVE"},
           v.current = t
    PROVE  resumeSpecificThread(v, t).fatal = "resuming the current thread"
<1>1. PICK f : f = [v EXCEPT !.count[t] = 0, !.state[t] = @ \ {"DBG_SUSPENDED"}]
  OBVIOUS
<1>2. PICK y : y = [f EXCEPT !.state[t] = @ \cup {"SUSPENDED"}]
  OBVIOUS
<1>3. /\ v.state \in [Threads -> SUBSET Flag]
      /\ f.state = [v.state EXCEPT ![t] = @ \ {"DBG_SUSPENDED"}] /\ f.current = t
  BY <1>1 DEF VM
<1>4. f.state[t] = {"ACTIVE"}
  BY <1>3
<1>5. DOMAIN f = DOMAIN v /\ "state" \in DOMAIN v /\ "fatal" \in DOMAIN v
  BY <1>1 DEF VM
<1>6. /\ y.state = [f.state EXCEPT ![t] = @ \cup {"SUSPENDED"}] /\ y.current = t
      /\ DOMAIN y = DOMAIN v
  BY <1>2, <1>3, <1>5
<1>7. y.state[t] = {"ACTIVE", "SUSPENDED"}
  BY <1>3, <1>4, <1>6
<1>8. resumeSpecificThread(v, t) = resumeThread(y, t)
  BY <1>1, <1>2, <1>4 DEF resumeSpecificThread
<1>9. PICK a : a = [y EXCEPT !.state[t] = {"ACTIVE"}]
  OBVIOUS
<1>10. resumeThread(y, t) = [a EXCEPT !.fatal = "resuming the current thread"]
  BY <1>6, <1>7, <1>9, Zenon DEF resumeThread
<1>11. "fatal" \in DOMAIN a
  BY <1>5, <1>6, <1>9
<1>. QED
  BY <1>8, <1>10, <1>11

\* A thread in the queue with others: one of the others is lost.
LEMMA AddAgain ==
    ASSUME NEW q \in Seq(Threads), NoDuplicates(q), NEW t \in OnQueue(q)
    PROVE  /\ q = <<t>> => AddThreadToQueue(q, t) = q
           /\ q # <<t>> => \E u \in OnQueue(q) \ {t} : u \notin OnQueue(AddThreadToQueue(q, t))
<1>0. PICK i : i = IndexOf(q, t)
  OBVIOUS
<1>1. i \in 1 .. Len(q) /\ q[i] = t /\ Len(q) \in Nat
  BY <1>0, IndexOfType
<1>2. CASE q[Len(q)] = t
  <2>1. AddThreadToQueue(q, t) = <<t>>
    BY <1>2 DEF AddThreadToQueue
  <2>2. i = Len(q)
    BY <1>1, <1>2 DEF NoDuplicates
  <2>3. CASE Len(q) = 1
    <3>1. q = <<t>>
      BY <1>2, <2>3
    <3>. QED
      BY <2>1, <3>1
  <2>4. CASE Len(q) > 1
    <3>1. q[1] \in OnQueue(q) /\ q[1] # t
      BY <1>1, <1>2, <2>4 DEF NoDuplicates, OnQueue
    <3>2. OnQueue(<<t>>) = {t}
      BY DEF OnQueue
    <3>3. q # <<t>>
      BY <2>4
    <3>. QED
      BY <2>1, <3>1, <3>2, <3>3
  <2>5. Len(q) = 1 \/ Len(q) > 1
    BY <1>1
  <2>. QED
    BY <2>3, <2>4, <2>5
<1>3. CASE q[Len(q)] # t
  <2>1. AddThreadToQueue(q, t) = SubSeq(q, 1, i)
    BY <1>0, <1>3 DEF AddThreadToQueue
  <2>2. i < Len(q)
    BY <1>1, <1>3
  <2>3. /\ SubSeq(q, 1, i) \in Seq(Threads) /\ Len(SubSeq(q, 1, i)) = i
        /\ \A j \in 1 .. i : SubSeq(q, 1, i)[j] = q[j]
    BY <1>1, SubSeqProperties
  <2>4. q[Len(q)] \in OnQueue(q) \ {t}
    BY <1>1, <1>3 DEF OnQueue
  <2>5. q[Len(q)] \notin OnQueue(SubSeq(q, 1, i))
    BY <1>1, <2>2, <2>3 DEF OnQueue, NoDuplicates
  <2>6. q # <<t>>
    BY <1>3
  <2>7. PICK p : p = AddThreadToQueue(q, t)
    OBVIOUS
  <2>8. q[Len(q)] \in OnQueue(q) \ {t} /\ q[Len(q)] \notin OnQueue(p)
    BY <2>1, <2>4, <2>5, <2>7
  <2>9. \E u \in OnQueue(q) \ {t} : u \notin OnQueue(p)
    BY <2>8, Zenon
  <2>. QED
    BY <2>6, <2>7, <2>9
<1>. QED
  BY <1>2, <1>3

LEMMA ResumeOnceFields ==
    ASSUME NEW v \in VM, NEW t \in Threads, v.count[t] <= 1,
           NEW w, w = resumeSpecificThread(v, t)
    PROVE  /\ Standing(v, w)
           /\ v.state[t] \cap {"SUSPENDED", "JUST_BORN"} # {} =>
                /\ w.state = [v.state EXCEPT ![t] = @ \ {"DBG_SUSPENDED"}]
                /\ w.runnable = v.runnable /\ w.fatal = v.fatal
           /\ v.state[t] \cap {"SUSPENDED", "JUST_BORN"} = {} /\ t # v.current =>
                /\ w.state = [v.state EXCEPT ![t] = {"ACTIVE"}]
                /\ w.runnable = AddThreadToQueue(v.runnable, t) /\ w.fatal = v.fatal
<1>1. /\ Standing(v, w)
      /\ v.count[t] > 1 =>
           /\ w.count = [v.count EXCEPT ![t] = @ - 1] /\ w.state = v.state
           /\ w.runnable = v.runnable /\ w.fatal = v.fatal
      /\ v.count[t] <= 1 /\ v.state[t] \cap {"SUSPENDED", "JUST_BORN"} # {} =>
           /\ w.count = [v.count EXCEPT ![t] = 0]
           /\ w.state = [v.state EXCEPT ![t] = @ \ {"DBG_SUSPENDED"}]
           /\ w.runnable = v.runnable /\ w.fatal = v.fatal
      /\ v.count[t] <= 1 /\ v.state[t] \cap {"SUSPENDED", "JUST_BORN"} = {}
           /\ t # v.current =>
           /\ w.count = [v.count EXCEPT ![t] = 0]
           /\ w.state = [v.state EXCEPT ![t] = {"ACTIVE"}]
           /\ w.runnable = AddThreadToQueue(v.runnable, t) /\ w.fatal = v.fatal
  BY ResumeOneFields
<1>. QED
  BY <1>1, Zenon

LEMMA ResumeUnsuspended ==
    ASSUME NEW w \in VM, Placed(w, {}), NEW t \in OnQueue(w.all), w.count[t] = 0,
           NEW v, v = ThreadReference_Resume(w, t)
    PROVE  /\ NoEffect(w, v) <=> ~Running(w, t) \/ w.runnable = <<t>>
           /\ ~NoEffect(w, v) =>
                \/ v.fatal # "no"
                \/ \E u \in Threads : /\ v.state[u] = {"ACTIVE"} /\ u # v.current
                                      /\ u \notin OnQueue(v.runnable)
<1>1. /\ t \in Threads
      /\ w.state \in [Threads -> SUBSET Flag] /\ w.runnable \in Seq(Threads)
      /\ w.current \in Threads \cup {NIL} /\ NIL \notin Threads
  BY PlacedQueues, DebuggerAssumption DEF VM
<1>2. /\ w.fatal = "no" /\ NoDuplicates(w.runnable)
      /\ \A u \in Threads :
           u \in OnQueue(w.runnable) <=> w.state[u] = {"ACTIVE"} /\ u # w.current
      /\ Life(w.state[t]) \in Lives /\ Life(w.state[t]) # {} /\ "DEAD" \notin w.state[t]
      /\ "DBG_SUSPENDED" \notin w.state[t]
      /\ w.current # NIL => w.state[w.current] = {"ACTIVE"}
  BY <1>1 DEF Placed
<1>3. w.state[t] \in {{"JUST_BORN"}, {"ACTIVE"}, {"ACTIVE", "SUSPENDED"}}
  <2>1. Life(w.state[t]) = w.state[t]
    BY <1>2 DEF Life
  <2>. QED
    BY <1>2, <2>1 DEF Lives
<1>4. PICK x : x = resumeSpecificThread(w, t)
  OBVIOUS
<1>5. v = [x EXCEPT !.allSuspended = FALSE, !.resumeOK = TRUE]
  BY <1>4 DEF ThreadReference_Resume, isValidThread, Valid
<1>6. /\ Standing(w, x)
      /\ w.state[t] \cap {"SUSPENDED", "JUST_BORN"} # {} =>
           /\ x.state = [w.state EXCEPT ![t] = @ \ {"DBG_SUSPENDED"}]
           /\ x.runnable = w.runnable /\ x.fatal = w.fatal
      /\ w.state[t] \cap {"SUSPENDED", "JUST_BORN"} = {} /\ t # w.current =>
           /\ x.state = [w.state EXCEPT ![t] = {"ACTIVE"}]
           /\ x.runnable = AddThreadToQueue(w.runnable, t) /\ x.fatal = w.fatal
  <2>1. w.count[t] <= 1
    OBVIOUS
  <2>. QED
    BY <1>1, <1>4, <2>1, ResumeOnceFields
<1>7. /\ v.current = w.current /\ v.state = x.state /\ v.runnable = x.runnable
      /\ v.fatal = x.fatal
  BY <1>5, <1>6 DEF Standing, VM
<1>8. CASE ~Running(w, t)
  <2>1. w.state[t] \cap {"SUSPENDED", "JUST_BORN"} # {}
    BY <1>3, <1>8 DEF Running
  <2>2. [w.state EXCEPT ![t] = @ \ {"DBG_SUSPENDED"}] = w.state
    <3>1. w.state[t] \ {"DBG_SUSPENDED"} = w.state[t]
      BY <1>2
    <3>. QED
      BY <1>1, <3>1
  <2>3. NoEffect(w, v)
    BY <1>6, <1>7, <2>1, <2>2 DEF NoEffect
  <2>. QED
    BY <1>8, <2>3
<1>9. CASE Running(w, t) /\ t = w.current
  <2>1. v.fatal # "no"
    BY <1>1, <1>4, <1>7, <1>9, ResumeCurrent DEF Running
  <2>2. w.runnable # <<t>>
    <3>1. t \notin OnQueue(w.runnable)
      BY <1>1, <1>2, <1>9
    <3>. QED
      BY <3>1 DEF OnQueue
  <2>. QED
    BY <1>2, <1>9, <2>1, <2>2 DEF NoEffect
<1>10. CASE Running(w, t) /\ t # w.current
  <2>1. /\ v.state = [w.state EXCEPT ![t] = {"ACTIVE"}] /\ v.fatal = w.fatal
        /\ v.runnable = AddThreadToQueue(w.runnable, t)
    BY <1>6, <1>7, <1>10 DEF Running
  <2>2. v.state = w.state
    BY <1>1, <1>10, <2>1 DEF Running
  <2>3. t \in OnQueue(w.runnable)
    BY <1>1, <1>2, <1>10 DEF Running
  <2>4. CASE w.runnable = <<t>>
    <3>1. v.runnable = w.runnable
      BY <1>1, <1>2, <2>1, <2>3, <2>4, AddAgain
    <3>. QED
      BY <1>7, <2>1, <2>2, <2>4, <3>1 DEF NoEffect
  <2>5. CASE w.runnable # <<t>>
    <3>1. PICK u \in OnQueue(w.runnable) \ {t} : u \notin OnQueue(v.runnable)
      BY <1>1, <1>2, <2>1, <2>3, <2>5, AddAgain
    <3>2. u \in Threads
      BY <1>1, <3>1, OnQueueType
    <3>3. v.state[u] = {"ACTIVE"} /\ u # v.current
      BY <1>2, <1>7, <2>2, <3>1, <3>2
    <3>4. v.runnable # w.runnable
      BY <3>1
    <3>. QED
      BY <1>10, <2>5, <3>1, <3>2, <3>3, <3>4 DEF NoEffect
  <2>. QED
    BY <2>4, <2>5
<1>. QED
  BY <1>8, <1>9, <1>10

\* Why resumeRunning is a precaution: however many threads there are, a resume of a thread that
\* the debugger has not suspended has no effect only while that thread does not run, or is
\* alone in the queue.  Of any other that runs, resumeSpecificThread() ends the VM, if it is the
\* current thread, or takes a thread that could run away from the scheduler.
THEOREM ResumeLosesThreads ==
    Spec /\ [][TakesPrecautions]_vars => []ResumeOfUnsuspended
<1>1. IInv => ResumeOfUnsuspended
  BY CommandFacts, ResumeUnsuspended DEF ResumeOfUnsuspended, Valid
<1>. QED
  BY <1>1, Invariant, PTL
=============================================================================
