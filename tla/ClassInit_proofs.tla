-------------------------- MODULE ClassInit_proofs --------------------------
(***************************************************************************)
(* Whatever the classes of a program, their initializers and its threads,  *)
(* class.c has one thread initialize a class, runs its <clinit> once, and  *)
(* leaves nobody waiting for it.                                           *)
(***************************************************************************)
EXTENDS ClassInit, FiniteSetTheorems, SequenceTheorems, TLAPS

\* runClinit() passes through step 3 without returning.
State == {0, 1, 2, 4, 5, 6}
Frame == [cls : Class, state : State, todo : SUBSET Class]
Monitor == [owner : Thread \cup {NIL}, entryQ : Seq(Thread), waitQ : Seq(Thread)]

TypeOK ==
    /\ program \in Programs
    /\ status \in [Class -> {"LINKED", "VERIFIED", "READY", "ERROR"}]
    /\ initThread \in [Class -> Thread \cup {NIL}]
    /\ lock \in [Class -> Monitor]
    /\ stack \in [Thread -> Seq(Frame)]
    /\ pendingException \in [Thread -> BOOLEAN]
    /\ isPendingInterrupt \in [Thread -> BOOLEAN]
    /\ throwing \in Thread \cup {NIL}
    /\ fatal \in BOOLEAN
    /\ runs \in [Class -> Nat]

\* The frame has made its class the thread's own.
Begun(f) == f.state \in {0, 4, 5, 6}

\* Only a frame that initializes its superclass, or runs <clinit>, calls.
CallersBegun(s) == \A i \in 1..Len(s) : i < Len(s) => s[i].state \in {0, 4, 5}

\* A thread begins with a class once; above that is only its <clinit>.
BegunOnce(s) ==
    \A i, j \in 1..Len(s) :
        i < j /\ Begun(s[i]) /\ Begun(s[j]) /\ s[i].cls = s[j].cls =>
          s[i].state = 5 /\ s[j].state = 0

Mine(t, s, it) == \A i \in 1..Len(s) : Begun(s[i]) => it[s[i].cls] = t

Verified(s, st) == \A i \in 1..Len(s) : st[s[i].cls] # "LINKED"

StackOK(t, s, it, st) ==
    CallersBegun(s) /\ BegunOnce(s) /\ Mine(t, s, it) /\ Verified(s, st)

StackInv == \A t \in Thread : StackOK(t, stack[t], initThread, status)

\* The state of the frame on top, 7 if there is none.
TopState(s) == IF s = << >> THEN 7 ELSE s[Len(s)].state

\* A thread is interrupted where it waits, in step 2; otherwise exceptions come
\* from a superclass or a <clinit>, or find no frame left.
ThrowInv ==
    \A t \in Thread :
        /\ throwing = t => TopState(stack[t]) \in {0, 2, 4, 5, 7}
        /\ pendingException[t] \/ Waiting(t) => throwing # t /\ TopState(stack[t]) = 2

ClassRuns(c) ==
    /\ runs[c] <= 1
    /\ runs[c] = 1 => status[c] \in {"READY", "ERROR"} \/ initThread[c] # NIL
    /\ status[c] = "READY" /\ c \in program.hasClinit => runs[c] = 1 /\ initThread[c] = NIL
    /\ status[c] = "LINKED" => initThread[c] = NIL

\* Before a frame's step 5 its <clinit> has not been entered; behind it has,
\* unless the thread had no room and unwinds now.
FrameRuns(s, r, withClinit, unwinds) ==
    \A i \in 1..Len(s) :
        /\ s[i].state = 4 => r[s[i].cls] = 0
        /\ s[i].state \in {5, 6} /\ s[i].cls \in withClinit =>
             r[s[i].cls] = 1 \/ (unwinds /\ i = Len(s))

RunsInv ==
    /\ \A c \in Class : ClassRuns(c)
    /\ \A t \in Thread : FrameRuns(stack[t], runs, program.hasClinit, throwing = t)

ErrorsStay == EnoughRoom => \A c \in Class : status[c] = "ERROR" => initThread[c] = NIL

NeverInterrupted ==
    program.interruptible = {} =>
        /\ ~fatal
        /\ \A t \in Thread : /\ ~isPendingInterrupt[t] /\ ~pendingException[t]
                             /\ throwing = t => TopState(stack[t]) # 2

ErrorInv == ErrorsStay /\ NeverInterrupted

Quiet == program.lockers \cup program.interruptible = {}

InQueue(t, l) == InSeq(t, l.entryQ) \/ InSeq(t, l.waitQ)

\* A monitor is taken only behind the initialization, when everybody who waited is
\* let in one after the other; before, nobody waits without an initializer.
MonitorFits(l, it, st) ==
    /\ l.owner = NIL => l.entryQ = << >>
    /\ l.owner # NIL => l.waitQ = << >> /\ it = NIL /\ st \in {"READY", "ERROR"}
    /\ l.waitQ # << >> => it # NIL

\* The frame on top looks at c, in step 2.
LooksAt(s, c) == TopState(s) = 2 /\ s[Len(s)].cls = c

Fits(lk, sk, it, st) ==
    /\ \A c \in Class :
         /\ MonitorFits(lk[c], it[c], st[c])
         /\ \A t \in Thread :
              /\ InQueue(t, lk[c]) => LooksAt(sk[t], c)
              /\ LooksAt(sk[t], c) => InQueue(t, lk[c]) \/ lk[c].owner = t
    /\ \A t \in Thread : TopState(sk[t]) # 6

QuietInv == Quiet => Fits(lock, stack, initThread, status)

-----------------------------------------------------------------------------
(***************************************************************************)
(* Frames and monitors.                                                    *)
(***************************************************************************)
LEMMA NothingIsNil == NIL \notin Thread /\ NIL \notin Class
  BY ProgramsAssumption

LEMMA WithStateIs ==
    ASSUME NEW s \in Seq(Frame), s # << >>, NEW n \in State
    PROVE  /\ WithState(s, n) \in Seq(Frame) /\ Len(WithState(s, n)) = Len(s)
           /\ Len(s) \in Nat \ {0} /\ WithState(s, n) # << >>
           /\ \A i \in 1..Len(s) : i # Len(s) => WithState(s, n)[i] = s[i]
           /\ WithState(s, n)[Len(s)].cls = s[Len(s)].cls
           /\ WithState(s, n)[Len(s)].state = n
  <1>1. Len(s) \in Nat \ {0} /\ DOMAIN s = 1..Len(s) /\ s[Len(s)] \in Frame
    OBVIOUS
  <1>. DEFINE f == [s[Len(s)] EXCEPT !.state = n]
  <1>2. f \in Frame /\ f.cls = s[Len(s)].cls /\ f.state = n
    BY <1>1 DEF Frame
  <1>3. WithState(s, n) = [s EXCEPT ![Len(s)] = f]
    BY DEF WithState
  <1>. HIDE DEF f
  <1>a. Len(s) \in 1..Len(s)
    BY <1>1
  <1>4. PICK k \in 1..Len(s) : k = Len(s)
    BY <1>a
  <1>5. WithState(s, n) = [s EXCEPT ![k] = f]
    BY <1>3, <1>4
  <1>6. /\ [s EXCEPT ![k] = f] \in Seq(Frame) /\ Len([s EXCEPT ![k] = f]) = Len(s)
        /\ \A j \in 1..Len(s) : [s EXCEPT ![k] = f][j] = IF j = k THEN f ELSE s[j]
    BY <1>2, ExceptSeq
  <1>7. PICK w \in Seq(Frame) : w = WithState(s, n)
    BY <1>5, <1>6
  <1>8. Len(w) = Len(s) /\ \A j \in 1..Len(s) : w[j] = IF j = k THEN f ELSE s[j]
    BY <1>5, <1>6, <1>7
  <1>9. w # << >>
    BY <1>1, <1>8
  <1>. QED
    BY <1>1, <1>2, <1>4, <1>7, <1>8, <1>9

LEMMA PoppedIs ==
    ASSUME NEW s \in Seq(Frame), s # << >>
    PROVE  /\ Popped(s) \in Seq(Frame) /\ Len(Popped(s)) = Len(s) - 1
           /\ Len(s) \in Nat \ {0}
           /\ \A i \in 1..(Len(s) - 1) : Popped(s)[i] = s[i]
  <1>1. PICK n \in Int : n = Len(s) - 1
    OBVIOUS
  <1>2. Len(s) \in Nat \ {0} /\ \A i \in 1..n : s[i] \in Frame
    BY <1>1
  <1>3. /\ SubSeq(s, 1, n) \in Seq(Frame)
        /\ Len(SubSeq(s, 1, n)) = IF 1 <= n THEN n - 1 + 1 ELSE 0
        /\ \A i \in 1..(n - 1 + 1) : SubSeq(s, 1, n)[i] = s[1 + i - 1]
    BY <1>2, SubSeqProperties
  <1>4. Popped(s) = SubSeq(s, 1, n)
    BY <1>1 DEF Popped
  <1>5. Len(Popped(s)) = Len(s) - 1
    BY <1>1, <1>2, <1>3, <1>4
  <1>6. \A i \in 1..(Len(s) - 1) : i \in 1..(n - 1 + 1) /\ 1 + i - 1 = i
    BY <1>1, <1>2
  <1>7. \A i \in 1..(Len(s) - 1) : Popped(s)[i] = s[i]
    BY <1>3, <1>4, <1>6
  <1>. QED
    BY <1>2, <1>3, <1>4, <1>5, <1>7

LEMMA PushedIs ==
    ASSUME NEW s \in Seq(Frame), NEW f \in Frame
    PROVE  /\ Append(s, f) \in Seq(Frame) /\ Len(Append(s, f)) = Len(s) + 1
           /\ Append(s, f) # << >>
           /\ Len(s) \in Nat /\ Append(s, f)[Len(s) + 1] = f
           /\ \A i \in 1..Len(s) : Append(s, f)[i] = s[i]
  OBVIOUS

LEMMA TopStates ==
    ASSUME NEW s \in Seq(Frame), s # << >>
    PROVE  /\ TopState(s) = s[Len(s)].state /\ TopState(s) \in State
           /\ Len(s) \in 1..Len(s) /\ Len(s) \in Nat /\ s[Len(s)] \in Frame
           /\ s[Len(s)].cls \in Class
  <1>1. Len(s) \in 1..Len(s) /\ Len(s) \in Nat /\ s[Len(s)] \in Frame
    OBVIOUS
  <1>2. PICK f \in Frame : f = s[Len(s)]
    BY <1>1
  <1>3. f.cls \in Class /\ f.state \in State
    BY DEF Frame
  <1>. QED
    BY <1>1, <1>2, <1>3 DEF TopState

\* Nobody is added to those who wait.
NoMoreWait(l, k) == \A u \in Thread : InSeq(u, k.waitQ) => InSeq(u, l.waitQ)

LEMMA MonitorIs ==
    ASSUME NEW l \in Monitor
    PROVE  /\ l.owner \in Thread \cup {NIL} /\ l.entryQ \in Seq(Thread) /\ l.waitQ \in Seq(Thread)
           /\ l = [owner |-> l.owner, entryQ |-> l.entryQ, waitQ |-> l.waitQ]
  BY DEF Monitor

LEMMA MonitorsAre ==
    ASSUME NEW l \in Monitor, NEW t \in Thread
    PROVE  /\ OwnedBy(l, t) \in Monitor /\ OwnedBy(l, t).owner = t
           /\ OwnedBy(l, t).entryQ = l.entryQ /\ OwnedBy(l, t).waitQ = l.waitQ
           /\ QueueFor(l, t) \in Monitor /\ QueueFor(l, t).owner = l.owner
           /\ QueueFor(l, t).entryQ = Append(l.entryQ, t) /\ QueueFor(l, t).waitQ = l.waitQ
  <1>1. PICK o \in Thread \cup {NIL}, e \in Seq(Thread), w \in Seq(Thread) :
          l = [owner |-> o, entryQ |-> e, waitQ |-> w]
    BY MonitorIs
  <1>2. Append(e, t) \in Seq(Thread)
    OBVIOUS
  <1>3. OwnedBy(l, t) = [owner |-> t, entryQ |-> e, waitQ |-> w]
    BY <1>1 DEF OwnedBy
  <1>4. QueueFor(l, t) = [owner |-> o, entryQ |-> Append(e, t), waitQ |-> w]
    <2>1. l.entryQ = e
      BY <1>1
    <2>2. QueueFor(l, t) = [l EXCEPT !.entryQ = Append(e, t)]
      BY <2>1 DEF QueueFor
    <2>. QED
      BY <1>1, <2>2
  <1>6. OwnedBy(l, t) \in Monitor /\ QueueFor(l, t) \in Monitor
    BY <1>2, <1>3, <1>4 DEF Monitor
  <1>7. l.owner = o /\ l.entryQ = e /\ l.waitQ = w
    BY <1>1
  <1>8. /\ OwnedBy(l, t).owner = t /\ OwnedBy(l, t).entryQ = e /\ OwnedBy(l, t).waitQ = w
    BY <1>3
  <1>9. /\ QueueFor(l, t).owner = o /\ QueueFor(l, t).entryQ = Append(e, t)
        /\ QueueFor(l, t).waitQ = w
    BY <1>4
  <1>. QED
    BY <1>6, <1>7, <1>8, <1>9

LEMMA NotifiedIs ==
    ASSUME NEW l \in Monitor
    PROVE  /\ Notified(l) \in Monitor /\ Notified(l).owner = l.owner
           /\ Notified(l).entryQ = l.entryQ \o l.waitQ /\ Notified(l).waitQ = << >>
  <1>1. PICK o \in Thread \cup {NIL}, e \in Seq(Thread), w \in Seq(Thread) :
          l = [owner |-> o, entryQ |-> e, waitQ |-> w]
    BY MonitorIs
  <1>2. e \o w \in Seq(Thread) /\ << >> \in Seq(Thread)
    OBVIOUS
  <1>3. l.owner = o /\ l.entryQ = e /\ l.waitQ = w
    BY <1>1
  <1>4. Notified(l) = [l EXCEPT !.entryQ = e \o w, !.waitQ = << >>]
    BY <1>3 DEF Notified
  <1>5. Notified(l) = [owner |-> o, entryQ |-> e \o w, waitQ |-> << >>]
    BY <1>1, <1>4
  <1>. QED
    BY <1>2, <1>3, <1>5 DEF Monitor

LEMMA ReleasedIs ==
    ASSUME NEW l \in Monitor
    PROVE  /\ Released(l) \in Monitor /\ Released(l).waitQ = l.waitQ
           /\ l.entryQ = << >> => Released(l).owner = NIL /\ Released(l).entryQ = << >>
           /\ l.entryQ # << >> => /\ Released(l).owner = Head(l.entryQ)
                                  /\ Released(l).entryQ = Tail(l.entryQ)
                                  /\ Head(l.entryQ) \in Thread
  <1>1. l.entryQ \in Seq(Thread) /\ l.waitQ \in Seq(Thread) /\ l.owner \in Thread \cup {NIL}
    BY DEF Monitor
  <1>2. CASE l.entryQ = << >>
    BY <1>1, <1>2 DEF Monitor, Released
  <1>3. CASE l.entryQ # << >>
    <2>1. Head(l.entryQ) \in Thread /\ Tail(l.entryQ) \in Seq(Thread)
      BY <1>1, <1>3
    <2>. QED
      BY <1>1, <1>3, <2>1 DEF Monitor, Released
  <1>. QED
    BY <1>2, <1>3

LEMMA WaitedIs ==
    ASSUME NEW l \in Monitor, NEW t \in Thread
    PROVE  /\ Waited(l, t) \in Monitor /\ Waited(l, t).waitQ = Append(l.waitQ, t)
           /\ l.entryQ = << >> => Waited(l, t).owner = NIL /\ Waited(l, t).entryQ = << >>
           /\ \A u \in Thread : InSeq(u, Waited(l, t).waitQ) => InSeq(u, l.waitQ) \/ u = t
  <1>. DEFINE k == [l EXCEPT !.waitQ = Append(@, t)]
  <1>1. l.waitQ \in Seq(Thread)
    BY DEF Monitor
  <1>2. k \in Monitor /\ k.waitQ = Append(l.waitQ, t) /\ k.entryQ = l.entryQ
    <2>1. PICK o \in Thread \cup {NIL}, e \in Seq(Thread), w \in Seq(Thread) :
            l = [owner |-> o, entryQ |-> e, waitQ |-> w]
      BY MonitorIs
    <2>2. k = [owner |-> o, entryQ |-> e, waitQ |-> Append(w, t)]
      <3>1. l.waitQ = w
        BY <2>1
      <3>2. k = [l EXCEPT !.waitQ = Append(w, t)]
        BY <3>1
      <3>. HIDE DEF k
      <3>. QED
        BY <2>1, <3>2
    <2>3. Append(w, t) \in Seq(Thread)
      OBVIOUS
    <2>. HIDE DEF k
    <2>. QED
      BY <2>1, <2>2, <2>3 DEF Monitor
  <1>3. Waited(l, t) = Released(k)
    BY DEF Waited
  <1>. HIDE DEF k
  <1>4. \A u \in Thread : InSeq(u, Append(l.waitQ, t)) => InSeq(u, l.waitQ) \/ u = t
    BY <1>1 DEF InSeq
  <1>. QED
    BY <1>2, <1>3, <1>4, ReleasedIs

LEMMA NoMoreWaitWhen ==
    ASSUME NEW l, NEW k, k.waitQ = l.waitQ \/ k.waitQ = << >>
    PROVE  NoMoreWait(l, k)
  BY DEF NoMoreWait, InSeq

-----------------------------------------------------------------------------
(***************************************************************************)
(* The stack of one thread.                                                *)
(***************************************************************************)
LEMMA ClassesTyped ==
    ASSUME NEW s \in Seq(Frame)
    PROVE  \A i \in 1..Len(s) : s[i] \in Frame /\ s[i].cls \in Class /\ s[i].state \in State
  <1>1. \A i \in 1..Len(s) : s[i] \in Frame
    OBVIOUS
  <1>2. \A f \in Frame : f.cls \in Class /\ f.state \in State
    BY DEF Frame
  <1>. QED
    BY <1>1, <1>2

\* Below the top, t has not begun with c.
Fresh(s, c) == \A i \in 1..Len(s) : i < Len(s) /\ Begun(s[i]) => s[i].cls # c

\* A frame of another thread keeps its class, whatever t does with its own.
LEMMA OtherStack ==
    ASSUME NEW u, NEW s \in Seq(Frame), NEW it, NEW st, NEW it2, NEW st2, StackOK(u, s, it, st),
           \A d \in Class : it[d] = u => it2[d] = u,
           \A d \in Class : st[d] # "LINKED" => st2[d] # "LINKED"
    PROVE  StackOK(u, s, it2, st2)
  BY ClassesTyped DEF StackOK, Mine, Verified

LEMMA StackFresh ==
    ASSUME NEW t, NEW s \in Seq(Frame), s # << >>, NEW it, NEW st, StackOK(t, s, it, st),
           NEW c, c = s[Len(s)].cls, s[Len(s)].state \in {4, 5, 6} \/ it[c] # t
    PROVE  Fresh(s, c)
  BY TopStates DEF StackOK, BegunOnce, Mine, Begun, Fresh

LEMMA StackPop ==
    ASSUME NEW t, NEW s \in Seq(Frame), s # << >>, NEW it, NEW st, StackOK(t, s, it, st)
    PROVE  StackOK(t, Popped(s), it, st)
  <1>1. PICK p : p = Popped(s)
    OBVIOUS
  <1>2. /\ Len(p) \in Nat /\ Len(s) \in Nat
        /\ \A i \in 1..Len(p) : i \in 1..Len(s) /\ i < Len(s) /\ p[i] = s[i]
    <2>1. /\ Len(p) = Len(s) - 1 /\ Len(s) \in Nat \ {0}
          /\ \A i \in 1..(Len(s) - 1) : p[i] = s[i]
      BY <1>1, PoppedIs
    <2>. QED
      BY <2>1
  <1>3. CallersBegun(p)
    BY <1>2 DEF StackOK, CallersBegun
  <1>4. BegunOnce(p)
    BY <1>2 DEF StackOK, BegunOnce
  <1>5. Mine(t, p, it) /\ Verified(p, st)
    BY <1>2 DEF StackOK, Mine, Verified
  <1>. QED
    BY <1>1, <1>3, <1>4, <1>5 DEF StackOK

\* t gives up its class, or another takes it.
LEMMA StackPopOwn ==
    ASSUME NEW t, NEW s \in Seq(Frame), s # << >>, NEW it, NEW st, StackOK(t, s, it, st),
           NEW c, Fresh(s, c), NEW it2, NEW st2,
           \A d \in Class : d # c => it2[d] = it[d],
           \A d \in Class : st[d] # "LINKED" => st2[d] # "LINKED"
    PROVE  StackOK(t, Popped(s), it2, st2)
  <1>1. PICK p : p = Popped(s)
    OBVIOUS
  <1>2. /\ Len(p) \in Nat /\ Len(s) \in Nat
        /\ \A i \in 1..Len(p) : i \in 1..Len(s) /\ i < Len(s) /\ p[i] = s[i]
    <2>1. /\ Len(p) = Len(s) - 1 /\ Len(s) \in Nat \ {0}
          /\ \A i \in 1..(Len(s) - 1) : p[i] = s[i]
      BY <1>1, PoppedIs
    <2>. QED
      BY <2>1
  <1>3. StackOK(t, p, it, st)
    BY <1>1, StackPop
  <1>4. \A i \in 1..Len(p) : p[i].cls \in Class /\ (Begun(p[i]) => p[i].cls # c)
    BY <1>2, ClassesTyped DEF Fresh
  <1>. QED
    BY <1>1, <1>3, <1>4 DEF StackOK, Mine, Verified

LEMMA StackBegin ==
    ASSUME NEW t, NEW s \in Seq(Frame), s # << >>, NEW it, NEW st, StackOK(t, s, it, st),
           NEW c, c = s[Len(s)].cls, Fresh(s, c), NEW n \in {4, 5, 6}, NEW it2,
           it2[c] = t, \A d \in Class : d # c => it2[d] = it[d]
    PROVE  StackOK(t, WithState(s, n), it2, st)
  <1>. n \in State
    BY DEF State
  <1>1. PICK w, k : w = WithState(s, n) /\ k = Len(s)
    OBVIOUS
  <1>2. /\ Len(w) = k /\ k \in Nat /\ k \in 1..k /\ w[k].cls = c /\ w[k].state = n
        /\ \A i \in 1..k : i # k => i < k /\ w[i] = s[i]
    BY <1>1, WithStateIs
  <1>3. CallersBegun(w) /\ BegunOnce(w)
    BY <1>1, <1>2 DEF StackOK, CallersBegun, BegunOnce, Begun, Fresh
  <1>4. Mine(t, w, it2)
    BY <1>1, <1>2, ClassesTyped DEF StackOK, Mine, Begun, Fresh
  <1>5. Verified(w, st)
    BY <1>1, <1>2 DEF StackOK, Verified
  <1>. QED
    BY <1>1, <1>3, <1>4, <1>5 DEF StackOK

LEMMA StackWait ==
    ASSUME NEW t, NEW s \in Seq(Frame), s # << >>, NEW it, NEW st, StackOK(t, s, it, st),
           s[Len(s)].state \in {1, 2}
    PROVE  StackOK(t, WithState(s, 2), it, st)
  <1>. 2 \in State
    BY DEF State
  <1>1. PICK w, k : w = WithState(s, 2) /\ k = Len(s)
    OBVIOUS
  <1>2. /\ Len(w) = k /\ k \in Nat /\ k \in 1..k /\ w[k].cls = s[k].cls /\ w[k].state = 2
        /\ \A i \in 1..k : i # k => i < k /\ w[i] = s[i]
    BY <1>1, WithStateIs
  <1>3. CallersBegun(w) /\ BegunOnce(w)
    BY <1>1, <1>2 DEF StackOK, CallersBegun, BegunOnce, Begun
  <1>4. Mine(t, w, it) /\ Verified(w, st)
    BY <1>1, <1>2 DEF StackOK, Mine, Verified, Begun
  <1>. QED
    BY <1>1, <1>3, <1>4 DEF StackOK

LEMMA StackCall ==
    ASSUME NEW t, NEW s \in Seq(Frame), NEW it, NEW st, StackOK(t, s, it, st),
           s = << >> \/ s[Len(s)].state \in {0, 4}, NEW f \in Frame, f.state = 1, NEW st2,
           st2[f.cls] # "LINKED", \A d \in Class : st[d] # "LINKED" => st2[d] # "LINKED"
    PROVE  StackOK(t, Append(s, f), it, st2)
  BY PushedIs, TopStates, ClassesTyped
     DEF StackOK, CallersBegun, BegunOnce, Mine, Verified, Begun

LEMMA StackEnter ==
    ASSUME NEW t, NEW s \in Seq(Frame), s # << >>, NEW it, NEW st, StackOK(t, s, it, st),
           NEW f \in Frame, f.state = 0, f.cls = s[Len(s)].cls, Fresh(s, f.cls),
           s[Len(s)].state = 5
    PROVE  StackOK(t, Append(s, f), it, st)
  BY PushedIs, TopStates
     DEF StackOK, CallersBegun, BegunOnce, Mine, Verified, Begun, Fresh

-----------------------------------------------------------------------------
(***************************************************************************)
(* How often a <clinit> has run, as its frames say.                        *)
(***************************************************************************)
LEMMA RunsPop ==
    ASSUME NEW s \in Seq(Frame), s # << >>, NEW r, NEW h, NEW b, NEW b2, FrameRuns(s, r, h, b)
    PROVE  FrameRuns(Popped(s), r, h, b2)
  <1>1. PICK p : p = Popped(s)
    OBVIOUS
  <1>2. /\ Len(p) \in Nat /\ Len(s) \in Nat
        /\ \A i \in 1..Len(p) : i \in 1..Len(s) /\ i < Len(s) /\ p[i] = s[i]
    <2>1. /\ Len(p) = Len(s) - 1 /\ Len(s) \in Nat \ {0}
          /\ \A i \in 1..(Len(s) - 1) : p[i] = s[i]
      BY <1>1, PoppedIs
    <2>. QED
      BY <2>1
  <1>. QED
    BY <1>1, <1>2 DEF FrameRuns

SameElse(c, r, r2) == \A d \in Class : d # c => r2[d] = r[d]

RunsAt(n, c, r, h, unwinds) ==
    /\ n = 4 => r[c] = 0
    /\ n \in {5, 6} /\ c \in h => r[c] = 1 \/ unwinds

\* The frame on top takes a step for its class; below, nobody has begun with it.
LEMMA RunsTop ==
    ASSUME NEW s \in Seq(Frame), s # << >>, NEW r, NEW h, NEW b, NEW b2, FrameRuns(s, r, h, b),
           NEW n \in State, NEW c, c = s[Len(s)].cls, Fresh(s, c), NEW r2,
           SameElse(c, r, r2), RunsAt(n, c, r2, h, b2)
    PROVE  FrameRuns(WithState(s, n), r2, h, b2)
  <1>1. PICK w, k : w = WithState(s, n) /\ k = Len(s)
    OBVIOUS
  <1>2. /\ Len(w) = k /\ k \in Nat /\ k \in 1..k /\ w[k].cls = c /\ w[k].state = n
        /\ \A i \in 1..k : i # k => i < k /\ w[i] = s[i]
    BY <1>1, WithStateIs
  <1>3. \A i \in 1..k : s[i].cls \in Class
    BY <1>1, ClassesTyped
  <1>. QED
    BY <1>1, <1>2, <1>3 DEF FrameRuns, Fresh, Begun, SameElse, RunsAt

LEMMA RunsStay ==
    ASSUME NEW s \in Seq(Frame), s # << >>, NEW r, NEW h, NEW b, NEW b2, FrameRuns(s, r, h, b),
           s[Len(s)].state \in {1, 2}
    PROVE  FrameRuns(WithState(s, 2), r, h, b2)
  <1>1. PICK w, k : w = WithState(s, 2) /\ k = Len(s)
    OBVIOUS
  <1>2. /\ Len(w) = k /\ k \in Nat /\ k \in 1..k /\ w[k].state = 2
        /\ \A i \in 1..k : i # k => i < k /\ w[i] = s[i]
    <2>1. 2 \in State
      BY DEF State
    <2>. QED
      BY <1>1, <2>1, WithStateIs
  <1>. QED
    BY <1>1, <1>2 DEF FrameRuns

LEMMA RunsPush ==
    ASSUME NEW s \in Seq(Frame), NEW r, NEW h, NEW b2, FrameRuns(s, r, h, FALSE),
           NEW f \in Frame, f.state \in {0, 1}
    PROVE  FrameRuns(Append(s, f), r, h, b2)
  BY PushedIs DEF FrameRuns

\* Another thread's frames: none has begun with a class whose count changes.
LEMMA RunsOther ==
    ASSUME NEW s \in Seq(Frame), NEW r, NEW h, NEW b, FrameRuns(s, r, h, b), NEW r2, NEW u, NEW it,
           Mine(u, s, it), NEW c, it[c] # u, \A d \in Class : d # c => r2[d] = r[d]
    PROVE  FrameRuns(s, r2, h, b)
  BY ClassesTyped DEF FrameRuns, Mine, Begun

-----------------------------------------------------------------------------
(***************************************************************************)
(* What the operators of runClinit() do, the monitors left aside.          *)
(***************************************************************************)
\* t has begun with the class of the frame on top, or may begin with it now.
Owns(t) ==
    LET c == Top(t).cls IN
    /\ Runs(t) /\ stack[t] # << >> /\ Fresh(stack[t], c)
    /\ \/ Top(t).state \in {4, 5, 6} /\ initThread[c] = t
       \/ Top(t).state \in {1, 2} /\ initThread[c] = NIL /\ status[c] = "VERIFIED"

LockTo(t) ==
    \E l \in Monitor : /\ lock' = [lock EXCEPT ![Top(t).cls] = l]
                       /\ NoMoreWait(lock[Top(t).cls], l)

Unmarks(t) ==
    LET c == Top(t).cls IN
    /\ Owns(t) /\ (c \in program.hasClinit => Top(t).state \in {5, 6})
    /\ stack' = [stack EXCEPT ![t] = Popped(stack[t])]
    /\ initThread' = [initThread EXCEPT ![c] = NIL]
    /\ status' = [status EXCEPT ![c] = "READY"]
    /\ LockTo(t) /\ UNCHANGED <<program, intrVars, throwing, fatal, runs>>

QueuesToNotify(t) ==
    LET c == Top(t).cls IN
    /\ Owns(t) /\ (c \in program.hasClinit => Top(t).state = 5)
    /\ stack' = [stack EXCEPT ![t] = WithState(stack[t], 6)]
    /\ initThread' = [initThread EXCEPT ![c] = t]
    /\ LockTo(t) /\ UNCHANGED <<program, status, intrVars, throwing, fatal, runs>>

Enters(t) ==
    LET c == Top(t).cls IN
    /\ Owns(t) /\ c \in program.hasClinit /\ Top(t).state \in {1, 2, 4}
    /\ stack' = [stack EXCEPT ![t] = Append(WithState(stack[t], 5),
                                        [cls |-> c, state |-> 0, todo |-> program.uses[c]])]
    /\ throwing' = NIL
    /\ runs' = [runs EXCEPT ![c] = @ + 1]
    /\ initThread' = [initThread EXCEPT ![c] = t]
    /\ LockTo(t) /\ UNCHANGED <<program, status, intrVars, fatal>>

FindsNoRoom(t) ==
    LET c == Top(t).cls IN
    /\ Owns(t) /\ c \in program.hasClinit /\ Top(t).state \in {1, 2, 4}
    /\ stack' = [stack EXCEPT ![t] = WithState(stack[t], 5)]
    /\ throwing' = t
    /\ initThread' = [initThread EXCEPT ![c] = t]
    /\ LockTo(t) /\ UNCHANGED <<program, status, intrVars, fatal, runs>>

CallsForSuper(t) ==
    LET c == Top(t).cls IN
    /\ Owns(t) /\ Top(t).state \in {1, 2} /\ program.superClass[c] \in Class
    /\ InitializeClass(t, WithState(stack[t], 4), program.superClass[c])
    /\ initThread' = [initThread EXCEPT ![c] = t]
    /\ LockTo(t) /\ UNCHANGED <<program, intrVars, fatal, runs>>

LeavesItToOthers(t) ==
    /\ Runs(t) /\ stack[t] # << >> /\ Top(t).state \in {1, 2}
    /\ stack' = [stack EXCEPT ![t] = Popped(stack[t])]
    /\ LockTo(t) /\ UNCHANGED <<program, classVars, intrVars, throwing, fatal, runs>>

QueuesToLook(t) ==
    /\ Runs(t) /\ stack[t] # << >> /\ Top(t).state = 1
    /\ stack' = [stack EXCEPT ![t] = WithState(stack[t], 2)]
    /\ LockTo(t) /\ UNCHANGED <<program, classVars, intrVars, throwing, fatal, runs>>

WaitsForOther(t) ==
    LET c == Top(t).cls IN
    /\ Runs(t) /\ stack[t] # << >> /\ Top(t).state \in {1, 2}
    /\ stack' = [stack EXCEPT ![t] = WithState(stack[t], 2)]
    /\ \E l \in Monitor : /\ lock' = [lock EXCEPT ![c] = l]
                          /\ \A u \in Thread : InSeq(u, l.waitQ) => InSeq(u, lock[c].waitQ) \/ u = t
    /\ pendingException' = [pendingException EXCEPT ![t] = isPendingInterrupt[t]]
    /\ isPendingInterrupt' = [isPendingInterrupt EXCEPT ![t] = FALSE]
    /\ fatal' \in {FALSE, isPendingInterrupt[t]}
    /\ UNCHANGED <<program, classVars, throwing, runs>>

RunClinitOutcome(t) ==
    \/ Unmarks(t) \/ QueuesToNotify(t) \/ Enters(t) \/ FindsNoRoom(t) \/ CallsForSuper(t)
    \/ LeavesItToOthers(t) \/ QueuesToLook(t) \/ WaitsForOther(t)

LEMMA ProgramTyped ==
    ASSUME TypeOK
    PROVE  /\ \A c \in Class : /\ program.superClass[c] \in Class \cup {NIL}
                               /\ program.uses[c] \in SUBSET Class
           /\ \A t \in Thread : program.room[t] \in Nat
           /\ program.hasClinit \subseteq Class
  BY ProgramsAssumption DEF TypeOK, ProgramType

LEMMA TopTyped ==
    ASSUME TypeOK, NEW t \in Thread, stack[t] # << >>
    PROVE  /\ stack[t] \in Seq(Frame) /\ Top(t) = stack[t][Len(stack[t])]
           /\ Top(t) \in Frame /\ Top(t).cls \in Class /\ Top(t).state \in State
           /\ TopState(stack[t]) = Top(t).state
           /\ Len(stack[t]) \in 1..Len(stack[t])
           /\ lock[Top(t).cls] \in Monitor
           /\ status[Top(t).cls] \in {"LINKED", "VERIFIED", "READY", "ERROR"}
  <1>1. PICK s \in Seq(Frame) : s = stack[t] /\ s # << >>
    BY DEF TypeOK
  <1>2. /\ TopState(s) = s[Len(s)].state /\ TopState(s) \in State
        /\ Len(s) \in 1..Len(s) /\ Len(s) \in Nat /\ s[Len(s)] \in Frame
        /\ s[Len(s)].cls \in Class
    BY <1>1, TopStates
  <1>3. Top(t) = s[Len(s)]
    BY <1>1 DEF Top
  <1>. QED
    BY <1>1, <1>2, <1>3 DEF TypeOK

LEMMA AfterClinitIs ==
    ASSUME TypeOK, NEW t \in Thread, Owns(t), NEW l \in Monitor, NoMoreWait(lock[Top(t).cls], l),
           (Top(t).cls \in program.hasClinit => Top(t).state = 5),
           AfterClinit(t, Top(t).cls, l), UNCHANGED <<program, intrVars, fatal, runs>>
    PROVE  Unmarks(t) \/ QueuesToNotify(t)
  <1>. DEFINE c == Top(t).cls
              k == Released(Notified(OwnedBy(l, t)))
  <1>1. stack[t] # << >> /\ c \in Class
    BY TopTyped DEF Owns
  <1>2. k \in Monitor /\ k.waitQ = << >>
    <2>1. PICK o \in Monitor : o = OwnedBy(l, t)
      BY MonitorsAre
    <2>2. PICK n \in Monitor : n = Notified(o) /\ n.waitQ = << >>
      BY NotifiedIs
    <2>3. k = Released(n)
      BY <2>1, <2>2
    <2>. QED
      BY <2>2, <2>3, ReleasedIs
  <1>3. QueueFor(l, t) \in Monitor /\ QueueFor(l, t).waitQ = l.waitQ
    BY MonitorsAre
  <1>4. NoMoreWait(lock[c], k) /\ NoMoreWait(lock[c], QueueFor(l, t))
    BY <1>2, <1>3 DEF NoMoreWait, InSeq
  <1>. HIDE DEF k
  <1>5. CASE \E m \in {l, k} : UnmarkClass(t, c, m)
    <2>1. PICK m \in Monitor : UnmarkClass(t, c, m) /\ NoMoreWait(lock[c], m)
      BY <1>2, <1>4, <1>5
    <2>2. LockTo(t)
      BY <2>1 DEF UnmarkClass, SetLock, LockTo
    <2>. QED
      BY <2>1, <2>2 DEF UnmarkClass, PopFrame, Unmarks
  <1>6. CASE /\ SetLock(c, QueueFor(l, t))
             /\ stack' = [stack EXCEPT ![t] = WithState(@, 6)]
             /\ initThread' = [initThread EXCEPT ![c] = t]
             /\ UNCHANGED <<status, throwing>>
    <2>1. LockTo(t)
      BY <1>3, <1>4, <1>6 DEF SetLock, LockTo
    <2>. QED
      BY <1>6, <2>1 DEF QueuesToNotify
  <1>. QED
    BY <1>5, <1>6 DEF AfterClinit, k

LEMMA RunBodyIs ==
    ASSUME TypeOK, NEW t \in Thread, Owns(t), NEW l \in Monitor, NoMoreWait(lock[Top(t).cls], l),
           Top(t).state \in {1, 2, 4},
           RunBody(t, Top(t).cls, l), UNCHANGED <<program, intrVars, fatal>>
    PROVE  RunClinitOutcome(t)
  <1>. DEFINE c == Top(t).cls
              s == WithState(stack[t], 5)
              f == [cls |-> c, state |-> 0, todo |-> program.uses[c]]
  <1>1. CASE c \notin program.hasClinit
    BY <1>1, AfterClinitIs DEF RunBody, RunClinitOutcome
  <1>2. CASE c \in program.hasClinit
    <2>1. /\ PushFrame(t, s, f)
          /\ runs' = [runs EXCEPT ![c] = IF throwing' = NIL THEN @ + 1 ELSE @]
          /\ initThread' = [initThread EXCEPT ![c] = t] /\ SetLock(c, l) /\ UNCHANGED status
      BY <1>2 DEF RunBody
    <2>2. LockTo(t)
      BY <2>1 DEF SetLock, LockTo
    <2>3. CASE throwing' = NIL /\ stack' = [stack EXCEPT ![t] = Append(s, f)]
      <3>1. runs' = [runs EXCEPT ![c] = @ + 1]
        BY <2>1, <2>3
      <3>. QED
        BY <1>2, <2>1, <2>2, <2>3, <3>1 DEF Enters, RunClinitOutcome
    <2>4. CASE throwing' = t /\ stack' = [stack EXCEPT ![t] = s]
      <3>1. runs' = runs
        BY <2>1, <2>4, NothingIsNil DEF TypeOK
      <3>. QED
        BY <1>2, <2>1, <2>2, <2>4, <3>1 DEF FindsNoRoom, RunClinitOutcome
    <2>. QED
      BY <2>1, <2>3, <2>4 DEF PushFrame
  <1>. QED
    BY <1>1, <1>2

\* A thread that may begin does, or finds the class done.
LEMMA MarkClassIs ==
    ASSUME TypeOK, StackInv, NEW t \in Thread, Runs(t), stack[t] # << >>,
           Top(t).state \in {1, 2}, initThread[Top(t).cls] \in {NIL, t},
           NEW l \in Monitor, NoMoreWait(lock[Top(t).cls], l),
           MarkClass(t, Top(t).cls, l), UNCHANGED <<program, intrVars, fatal>>
    PROVE  RunClinitOutcome(t)
  <1>. DEFINE c == Top(t).cls
  <1>1. CASE initThread[c] = t \/ status[c] \in {"READY", "ERROR"}
    <2>1. PopFrame(t) /\ SetLock(c, l) /\ UNCHANGED <<classVars, throwing, runs>>
      BY <1>1 DEF MarkClass
    <2>2. LockTo(t)
      BY <2>1 DEF SetLock, LockTo
    <2>. QED
      BY <2>1, <2>2 DEF PopFrame, LeavesItToOthers, RunClinitOutcome
  <1>2. CASE ~(initThread[c] = t \/ status[c] \in {"READY", "ERROR"})
    <2>1. /\ stack[t] \in Seq(Frame) /\ c \in Class /\ c = stack[t][Len(stack[t])].cls
          /\ StackOK(t, stack[t], initThread, status) /\ Len(stack[t]) \in 1..Len(stack[t])
          /\ status[c] \in {"LINKED", "VERIFIED", "READY", "ERROR"}
      BY TopTyped DEF StackInv
    <2>2. Fresh(stack[t], c)
      BY <1>2, <2>1, StackFresh
    <2>3. initThread[c] = NIL /\ status[c] = "VERIFIED"
      BY <1>2, <2>1 DEF StackOK, Verified
    <2>4. Owns(t)
      BY <2>2, <2>3 DEF Owns
    <2>5. CASE HasInitializedSuper(c)
      <3>1. RunBody(t, c, l)
        BY <1>2, <2>5 DEF MarkClass
      <3>. QED
        BY <2>4, <3>1, RunBodyIs
    <2>6. CASE ~HasInitializedSuper(c)
      <3>1. /\ InitializeClass(t, WithState(stack[t], 4), program.superClass[c])
            /\ initThread' = [initThread EXCEPT ![c] = t]
            /\ SetLock(c, l) /\ UNCHANGED runs
        BY <1>2, <2>6 DEF MarkClass
      <3>2. program.superClass[c] \in Class
        BY <2>1, <2>6, ProgramTyped DEF HasInitializedSuper
      <3>3. LockTo(t)
        BY <3>1 DEF SetLock, LockTo
      <3>. QED
        BY <2>4, <3>1, <3>2, <3>3 DEF CallsForSuper, RunClinitOutcome
    <2>. QED
      BY <2>5, <2>6
  <1>. QED
    BY <1>1, <1>2

LEMMA WithMonitorIs ==
    ASSUME TypeOK, StackInv, NEW t \in Thread, Runs(t), stack[t] # << >>,
           Top(t).state \in {1, 2},
           NEW l \in Monitor, NoMoreWait(lock[Top(t).cls], l),
           WithMonitor(t, Top(t).cls, l), UNCHANGED program
    PROVE  RunClinitOutcome(t)
  <1>. DEFINE c == Top(t).cls
  <1>1. CASE initThread[c] \notin {NIL, t}
    <2>1. WaitForInitializer(t, c, l)
      BY <1>1 DEF WithMonitor
    <2>2. /\ Waited(l, t) \in Monitor
          /\ \A u \in Thread : InSeq(u, Waited(l, t).waitQ) => InSeq(u, l.waitQ) \/ u = t
      BY WaitedIs
    <2>. QED
      BY <2>1, <2>2
         DEF WaitForInitializer, SetLock, NoMoreWait, WaitsForOther, RunClinitOutcome
  <1>2. CASE initThread[c] \in {NIL, t}
    <2>1. MarkClass(t, c, Released(l)) /\ UNCHANGED <<intrVars, fatal>>
      BY <1>2 DEF WithMonitor
    <2>2. PICK k \in Monitor : k = Released(l) /\ k.waitQ = l.waitQ
      BY ReleasedIs
    <2>3. NoMoreWait(lock[c], k)
      BY <2>2 DEF NoMoreWait
    <2>. QED
      BY <1>2, <2>1, <2>2, <2>3, MarkClassIs
  <1>. QED
    BY <1>1, <1>2

LEMMA RunClinitIs ==
    ASSUME TypeOK, StackInv, NEW t \in Thread, RunClinit(t)
    PROVE  RunClinitOutcome(t)
  <1>. DEFINE c == Top(t).cls
  <1>1. stack[t] # << >> /\ Runs(t)
    BY DEF RunClinit, RunClinit1, RunClinit2, RunClinit4, RunClinit5, RunClinit6, Running
  <1>2. /\ stack[t] \in Seq(Frame) /\ c \in Class /\ c = stack[t][Len(stack[t])].cls
        /\ Top(t) = stack[t][Len(stack[t])] /\ lock[c] \in Monitor
        /\ StackOK(t, stack[t], initThread, status) /\ Len(stack[t]) \in 1..Len(stack[t])
    BY <1>1, TopTyped DEF StackInv
  <1>3. NoMoreWait(lock[c], lock[c])
    BY DEF NoMoreWait
  <1>4. Top(t).state \in {4, 5, 6} => Owns(t)
    <2>1. ASSUME Top(t).state \in {4, 5, 6} PROVE initThread[c] = t /\ Fresh(stack[t], c)
      <3>1. Begun(Top(t))
        BY <2>1 DEF Begun
      <3>2. initThread[c] = t
        BY <1>2, <3>1 DEF StackOK, Mine
      <3>3. Fresh(stack[t], c)
        BY <1>1, <1>2, <2>1, StackFresh
      <3>. QED
        BY <3>2, <3>3
    <2>. QED
      BY <1>1, <2>1 DEF Owns
  <1>5. CASE RunClinit1(t)
    <2>1. Top(t).state = 1 /\ UNCHANGED program
      BY <1>2, <1>5 DEF RunClinit1, Running
    <2>2. CASE /\ initThread[c] = NIL /\ MarkClass(t, c, lock[c])
               /\ UNCHANGED <<intrVars, fatal>>
      BY <1>1, <1>2, <1>3, <2>1, <2>2, MarkClassIs
    <2>3. CASE WithMonitor(t, c, OwnedBy(lock[c], t))
      <3>1. PICK k \in Monitor : k = OwnedBy(lock[c], t) /\ k.waitQ = lock[c].waitQ
        BY <1>2, MonitorsAre
      <3>2. NoMoreWait(lock[c], k)
        BY <3>1 DEF NoMoreWait
      <3>. QED
        BY <1>1, <2>1, <2>3, <3>1, <3>2, WithMonitorIs
    <2>4. CASE /\ SetLock(c, QueueFor(lock[c], t))
               /\ stack' = [stack EXCEPT ![t] = WithState(@, 2)]
               /\ UNCHANGED <<classVars, intrVars, throwing, fatal, runs>>
      <3>1. PICK k \in Monitor : k = QueueFor(lock[c], t) /\ k.waitQ = lock[c].waitQ
        BY <1>2, MonitorsAre
      <3>2. NoMoreWait(lock[c], k)
        BY <3>1 DEF NoMoreWait
      <3>3. LockTo(t)
        BY <2>4, <3>1, <3>2 DEF SetLock, LockTo
      <3>. QED
        BY <1>1, <2>1, <2>4, <3>3 DEF QueuesToLook, RunClinitOutcome
    <2>. QED
      BY <1>5, <2>2, <2>3, <2>4 DEF RunClinit1
  <1>6. CASE RunClinit2(t)
    <2>1. Top(t).state = 2 /\ UNCHANGED program /\ WithMonitor(t, c, lock[c])
      BY <1>2, <1>6 DEF RunClinit2, Running
    <2>. QED
      BY <1>1, <1>2, <1>3, <2>1, WithMonitorIs
  <1>7. CASE RunClinit4(t)
    <2>1. Top(t).state = 4 /\ RunBody(t, c, lock[c]) /\ UNCHANGED <<program, intrVars, fatal>>
      BY <1>2, <1>7 DEF RunClinit4, Running
    <2>. QED
      BY <1>2, <1>3, <1>4, <2>1, RunBodyIs
  <1>8. CASE RunClinit5(t)
    <2>1. /\ Top(t).state = 5 /\ AfterClinit(t, c, lock[c])
          /\ UNCHANGED <<program, intrVars, fatal, runs>>
      BY <1>2, <1>8 DEF RunClinit5, Running
    <2>. QED
      BY <1>2, <1>3, <1>4, <2>1, AfterClinitIs DEF RunClinitOutcome
  <1>9. CASE RunClinit6(t)
    <2>1. /\ Top(t).state = 6 /\ UnmarkClass(t, c, Released(Notified(lock[c])))
          /\ UNCHANGED <<program, intrVars, fatal, runs>>
      BY <1>2, <1>9 DEF RunClinit6, Running
    <2>a. PICK n \in Monitor : n = Notified(lock[c]) /\ n.waitQ = << >>
      BY <1>2, NotifiedIs
    <2>2. PICK k \in Monitor : k = Released(Notified(lock[c])) /\ k.waitQ = << >>
      BY <2>a, ReleasedIs
    <2>3. NoMoreWait(lock[c], k)
      BY <2>2 DEF NoMoreWait, InSeq
    <2>4. LockTo(t)
      BY <2>1, <2>2, <2>3 DEF UnmarkClass, SetLock, LockTo
    <2>. QED
      BY <1>4, <2>1, <2>4 DEF UnmarkClass, PopFrame, Unmarks, RunClinitOutcome
  <1>. QED
    BY <1>5, <1>6, <1>7, <1>8, <1>9 DEF RunClinit

-----------------------------------------------------------------------------
(***************************************************************************)
(* The invariant, piece by piece, when one thread's stack changes.         *)
(***************************************************************************)
Core == TypeOK /\ StackInv /\ ThrowInv /\ RunsInv /\ ErrorInv

LEMMA StacksStep ==
    ASSUME TypeOK, StackInv, NEW t \in Thread, NEW s2,
           stack' = [stack EXCEPT ![t] = s2], StackOK(t, s2, initThread', status'),
           \A d \in Class : initThread'[d] # initThread[d] => initThread[d] \in {NIL, t},
           \A d \in Class : status[d] # "LINKED" => status'[d] # "LINKED"
    PROVE  StackInv'
  <1>1. PICK it2, st2 : it2 = initThread' /\ st2 = status'
    OBVIOUS
  <1>2. stack'[t] = s2 /\ \A u \in Thread : u # t => stack'[u] = stack[u]
    BY DEF TypeOK
  <1>3. ASSUME NEW u \in Thread, u # t PROVE StackOK(u, stack[u], it2, st2)
    <2>1. \A d \in Class : initThread[d] = u => it2[d] = u
      BY <1>1, <1>3, NothingIsNil
    <2>2. stack[u] \in Seq(Frame) /\ StackOK(u, stack[u], initThread, status)
      BY DEF TypeOK, StackInv
    <2>. QED
      BY <1>1, <2>1, <2>2, OtherStack
  <1>4. \A u \in Thread : StackOK(u, stack'[u], it2, st2)
    BY <1>1, <1>2, <1>3
  <1>. QED
    BY <1>1, <1>4 DEF StackInv

\* Nobody waits who did not, t apart if it may.
LEMMA NobodyNewWaits ==
    ASSUME TypeOK, NEW t \in Thread, stack[t] # << >>, LockTo(t)
    PROVE  /\ lock' \in [Class -> Monitor]
           /\ \A u \in Thread : Waiting(u)' => Waiting(u)
  <1>1. PICK l \in Monitor : /\ lock' = [lock EXCEPT ![Top(t).cls] = l]
                             /\ NoMoreWait(lock[Top(t).cls], l)
    BY DEF LockTo
  <1>2. Top(t).cls \in Class
    BY TopTyped
  <1>3. ASSUME NEW u \in Thread, NEW c \in Class, InSeq(u, lock'[c].waitQ)
        PROVE  InSeq(u, lock[c].waitQ)
    BY <1>1, <1>2, <1>3 DEF TypeOK, NoMoreWait
  <1>. QED
    BY <1>1, <1>2, <1>3 DEF TypeOK, Waiting

LEMMA ThrowStep ==
    ASSUME TypeOK, ThrowInv, NEW t \in Thread, NEW s2,
           stack' = [stack EXCEPT ![t] = s2],
           throwing' = t => TopState(s2) \in {0, 2, 4, 5, 7},
           throwing' \in {throwing, t, NIL},
           pendingException'[t] \/ Waiting(t)' => throwing' # t /\ TopState(s2) = 2,
           \A u \in Thread : u # t => /\ pendingException'[u] => pendingException[u]
                                      /\ Waiting(u)' => Waiting(u)
    PROVE  ThrowInv'
  <1>1. stack'[t] = s2 /\ \A u \in Thread : u # t => stack'[u] = stack[u]
    BY DEF TypeOK
  <1>2. PICK th, st2, pe : th = throwing' /\ st2 = stack' /\ pe = pendingException'
    OBVIOUS
  <1>3. ASSUME NEW u \in Thread
        PROVE  /\ th = u => TopState(st2[u]) \in {0, 2, 4, 5, 7}
               /\ pe[u] \/ Waiting(u)' => th # u /\ TopState(st2[u]) = 2
    BY <1>1, <1>2, NothingIsNil DEF ThrowInv
  <1>. QED
    BY <1>2, <1>3 DEF ThrowInv, TopState

LEMMA RunsStep ==
    ASSUME TypeOK, StackInv, RunsInv, NEW t \in Thread, NEW s2,
           stack' = [stack EXCEPT ![t] = s2], UNCHANGED program,
           throwing' \in {throwing, t, NIL}, throwing \in {NIL, t},
           NEW c \in Class, \A d \in Class : d # c => runs'[d] = runs[d],
           runs'[c] = runs[c] \/ initThread[c] \in {NIL, t},
           FrameRuns(s2, runs', program.hasClinit, throwing' = t),
           \A d \in Class : ClassRuns(d)'
    PROVE  RunsInv'
  <1>1. stack'[t] = s2 /\ \A u \in Thread : u # t => stack'[u] = stack[u]
    BY DEF TypeOK
  <1>2. PICK r2, th, k2 : r2 = runs' /\ th = throwing' /\ k2 = stack'
    OBVIOUS
  <1>3. ASSUME NEW u \in Thread, u # t
        PROVE  FrameRuns(stack[u], r2, program.hasClinit, th = u)
    <2>1. (th = u) = FALSE /\ (throwing = u) = FALSE
      BY <1>2, <1>3, NothingIsNil
    <2>2. FrameRuns(stack[u], runs, program.hasClinit, FALSE)
      BY <2>1 DEF RunsInv
    <2>3. stack[u] \in Seq(Frame) /\ Mine(u, stack[u], initThread)
      BY DEF TypeOK, StackInv, StackOK
    <2>4. CASE r2[c] = runs[c]
      <3>1. \A d \in Class : r2[d] = runs[d]
        BY <1>2, <2>4
      <3>. QED
        BY <2>1, <2>2, <2>3, <3>1, ClassesTyped DEF FrameRuns
    <2>5. CASE initThread[c] \in {NIL, t}
      <3>1. initThread[c] # u
        BY <1>3, <2>5, NothingIsNil
      <3>a. \A d \in Class : d # c => r2[d] = runs[d]
        BY <1>2
      <3>b. PICK h, it, r1, s, b : /\ h = program.hasClinit /\ it = initThread /\ r1 = runs
                                 /\ s = stack[u] /\ b = FALSE
        OBVIOUS
      <3>c. /\ s \in Seq(Frame) /\ FrameRuns(s, r1, h, b) /\ Mine(u, s, it) /\ it[c] # u
            /\ \A d \in Class : d # c => r2[d] = r1[d]
        BY <2>2, <2>3, <3>1, <3>a, <3>b
      <3>d. FrameRuns(s, r2, h, b)
        BY <3>c, RunsOther
      <3>2. FrameRuns(stack[u], r2, program.hasClinit, FALSE)
        BY <3>b, <3>d
      <3>. QED
        BY <2>1, <3>2
    <2>. QED
      BY <1>2, <2>4, <2>5
  <1>4. \A u \in Thread : FrameRuns(k2[u], r2, program.hasClinit, th = u)
    BY <1>1, <1>2, <1>3
  <1>. QED
    BY <1>2, <1>4 DEF RunsInv, FrameRuns

LEMMA NeverInterruptedStep ==
    ASSUME TypeOK, NeverInterrupted, NEW t \in Thread, NEW s2,
           stack' = [stack EXCEPT ![t] = s2], UNCHANGED program,
           throwing' = t => TopState(s2) # 2, throwing' \in {throwing, t, NIL},
           UNCHANGED <<fatal, intrVars>>
    PROVE  NeverInterrupted'
  <1>1. stack'[t] = s2 /\ \A u \in Thread : u # t => stack'[u] = stack[u]
    BY DEF TypeOK
  <1>2. PICK th, k2 : th = throwing' /\ k2 = stack'
    OBVIOUS
  <1>3. ASSUME NEW u \in Thread, program.interruptible = {}, th = u
        PROVE  TopState(k2[u]) # 2
    BY <1>1, <1>2, <1>3, NothingIsNil DEF NeverInterrupted
  <1>. QED
    BY <1>2, <1>3 DEF NeverInterrupted, TopState, intrVars

LEMMA TopOf ==
    ASSUME NEW s \in Seq(Frame)
    PROVE  /\ \A n \in State : s # << >> => TopState(WithState(s, n)) = n
           /\ \A f \in Frame : TopState(Append(s, f)) = f.state
           /\ (s # << >> /\ CallersBegun(s) => TopState(Popped(s)) \in {0, 4, 5, 7})
  <1>1. ASSUME NEW n \in State, s # << >> PROVE TopState(WithState(s, n)) = n
    BY <1>1, WithStateIs DEF TopState
  <1>2. ASSUME NEW f \in Frame PROVE TopState(Append(s, f)) = f.state
    BY PushedIs DEF TopState
  <1>3. ASSUME s # << >>, CallersBegun(s) PROVE TopState(Popped(s)) \in {0, 4, 5, 7}
    <2>1. PICK p \in Seq(Frame) : p = Popped(s)
      BY <1>3, PoppedIs
    <2>2. CASE p = << >>
      BY <2>1, <2>2 DEF TopState
    <2>3. CASE p # << >>
      <3>1. /\ Len(p) = Len(s) - 1 /\ Len(s) \in Nat \ {0} /\ Len(p) \in 1..Len(p)
            /\ \A i \in 1..(Len(s) - 1) : p[i] = s[i]
        BY <1>3, <2>1, <2>3, PoppedIs
      <3>2. Len(p) \in 1..Len(s) /\ Len(p) < Len(s) /\ p[Len(p)] = s[Len(p)]
        BY <3>1
      <3>. QED
        BY <1>3, <2>1, <2>3, <3>2 DEF CallersBegun, TopState
    <2>. QED
      BY <2>2, <2>3
  <1>. QED
    BY <1>1, <1>2, <1>3

-----------------------------------------------------------------------------
(***************************************************************************)
(* The steps of runClinit().                                               *)
(***************************************************************************)
\* What Owns(t) says, in one place.
LEMMA OwnerIs ==
    ASSUME Core, NEW t \in Thread, Owns(t)
    PROVE  LET s == stack[t]
               c == Top(t).cls
           IN /\ s \in Seq(Frame) /\ s # << >> /\ c \in Class /\ c = s[Len(s)].cls
              /\ Top(t).state = s[Len(s)].state /\ Fresh(s, c)
              /\ StackOK(t, s, initThread, status) /\ initThread[c] \in {NIL, t}
              /\ throwing = NIL /\ ~pendingException[t] /\ ~Waiting(t)
              /\ FrameRuns(s, runs, program.hasClinit, FALSE)
              /\ t # NIL
              /\ (EnoughRoom => status[c] # "ERROR")
              /\ status[c] # "LINKED"
  <1>1. /\ stack[t] \in Seq(Frame) /\ stack[t] # << >> /\ Top(t).cls \in Class
        /\ Top(t) = stack[t][Len(stack[t])] /\ Len(stack[t]) \in 1..Len(stack[t])
    BY TopTyped DEF Owns, Core
  <1>2. StackOK(t, stack[t], initThread, status)
    BY DEF Core, StackInv
  <1>3. throwing = NIL /\ ~pendingException[t] /\ ~Waiting(t) /\ t # NIL
    BY NothingIsNil DEF Owns, Runs
  <1>4. FrameRuns(stack[t], runs, program.hasClinit, FALSE)
    <2>1. (throwing = t) = FALSE
      BY <1>3
    <2>. QED
      BY <2>1 DEF Core, RunsInv
  <1>5. status[Top(t).cls] # "LINKED"
    BY <1>1, <1>2 DEF StackOK, Verified
  <1>6. /\ initThread[Top(t).cls] \in {NIL, t} /\ Fresh(stack[t], Top(t).cls)
        /\ (EnoughRoom => status[Top(t).cls] # "ERROR")
    BY <1>1, <1>3 DEF Owns, Core, ErrorInv, ErrorsStay
  <1>. QED
    BY <1>1, <1>2, <1>3, <1>4, <1>5, <1>6

LEMMA UnmarksStep ==
    ASSUME Core, NEW t \in Thread, Unmarks(t)
    PROVE  Core'
  <1>. DEFINE c == Top(t).cls
  <1>1. PICK s \in Seq(Frame) : s = stack[t]
    BY DEF Core, TypeOK
  <1>2. PICK d \in Class : d = c
    BY OwnerIs DEF Unmarks
  <1>3. /\ s # << >> /\ d = s[Len(s)].cls /\ Fresh(s, d) /\ StackOK(t, s, initThread, status)
        /\ Top(t).state = s[Len(s)].state
        /\ initThread[d] \in {NIL, t} /\ throwing = NIL /\ ~pendingException[t] /\ ~Waiting(t)
        /\ FrameRuns(s, runs, program.hasClinit, FALSE) /\ t # NIL
    BY <1>1, <1>2, OwnerIs DEF Unmarks
  <1>4. /\ stack' = [stack EXCEPT ![t] = Popped(s)]
        /\ initThread' = [initThread EXCEPT ![d] = NIL]
        /\ status' = [status EXCEPT ![d] = "READY"]
        /\ UNCHANGED <<program, intrVars, throwing, fatal, runs>>
    BY <1>1, <1>2 DEF Unmarks
  <1>5. /\ lock' \in [Class -> Monitor]
        /\ \A u \in Thread : Waiting(u)' => Waiting(u)
    BY <1>1, <1>3, NobodyNewWaits DEF Core, Unmarks
  <1>6. Popped(s) \in Seq(Frame) /\ TopState(Popped(s)) \in {0, 4, 5, 7}
    BY <1>3, PoppedIs, TopOf DEF StackOK
  <1>7. TypeOK'
    BY <1>4, <1>5, <1>6 DEF Core, TypeOK, intrVars
  <1>8. /\ \A e \in Class : e # d => initThread'[e] = initThread[e] /\ status'[e] = status[e]
        /\ initThread'[d] = NIL /\ status'[d] = "READY"
    BY <1>4 DEF Core, TypeOK
  <1>9. StackInv'
    <2>1. PICK it2, st2 : it2 = initThread' /\ st2 = status'
      OBVIOUS
    <2>2. /\ \A e \in Class : e # d => it2[e] = initThread[e]
          /\ \A e \in Class : status[e] # "LINKED" => st2[e] # "LINKED"
      BY <1>8, <2>1
    <2>3. StackOK(t, Popped(s), it2, st2)
      BY <1>3, <2>2, StackPopOwn
    <2>. QED
      BY <1>3, <1>4, <1>8, <2>1, <2>3, StacksStep DEF Core
  <1>10. ThrowInv'
    BY <1>3, <1>4, <1>5, <1>6, ThrowStep DEF Core, intrVars
  <1>11. RunsInv'
    <2>1. FrameRuns(Popped(s), runs, program.hasClinit, throwing' = t)
      BY <1>3, RunsPop
    <2>2. FrameRuns(Popped(s), runs', program.hasClinit, throwing' = t)
      BY <1>4, <2>1
    <2>3. d \in program.hasClinit => runs[d] = 1
      <3>1. Len(s) \in 1..Len(s)
        BY <1>3, TopStates
      <3>. QED
        BY <1>2, <1>3, <3>1 DEF Unmarks, FrameRuns
    <2>4. \A e \in Class : ClassRuns(e)'
      BY <1>4, <1>8, <2>3 DEF Core, RunsInv, ClassRuns
    <2>. QED
      BY <1>3, <1>4, <2>2, <2>4, RunsStep DEF Core
  <1>12. ErrorsStay'
    BY <1>4, <1>8 DEF Core, ErrorInv, ErrorsStay, EnoughRoom
  <1>13. NeverInterrupted'
    BY <1>3, <1>4, <1>6, NeverInterruptedStep DEF Core, ErrorInv
  <1>. QED
    BY <1>7, <1>9, <1>10, <1>11, <1>12, <1>13 DEF Core, ErrorInv

\* The same when t begins with the class, or goes on with it, and its frames become s2.
Begins(t, s2) ==
    LET c == Top(t).cls IN
    /\ Owns(t) /\ LockTo(t)
    /\ stack' = [stack EXCEPT ![t] = s2]
    /\ initThread' = [initThread EXCEPT ![c] = t]
    /\ throwing' \in {NIL, t}
    /\ \A d \in Class : d # c => runs'[d] = runs[d]
    /\ runs' \in [Class -> Nat] /\ runs'[c] <= 1
    /\ UNCHANGED <<program, status, intrVars, fatal>>

LEMMA BeginStep ==
    ASSUME Core, NEW t \in Thread, NEW s2 \in Seq(Frame), Begins(t, s2),
           TopState(s2) \in {0, 4, 5, 6}, throwing' = t => TopState(s2) = 5,
           NEW it2, it2 = initThread', StackOK(t, s2, it2, status),
           FrameRuns(s2, runs', program.hasClinit, throwing' = t)
    PROVE  Core'
  <1>1. PICK s \in Seq(Frame) : s = stack[t]
    BY DEF Core, TypeOK
  <1>2. PICK d \in Class : d = Top(t).cls
    BY OwnerIs DEF Begins
  <1>3. /\ initThread[d] \in {NIL, t} /\ throwing = NIL /\ ~pendingException[t] /\ ~Waiting(t)
        /\ t # NIL /\ (EnoughRoom => status[d] # "ERROR") /\ status[d] # "LINKED" /\ stack[t] # << >>
    BY <1>1, <1>2, OwnerIs DEF Begins
  <1>4. /\ stack' = [stack EXCEPT ![t] = s2] /\ initThread' = [initThread EXCEPT ![d] = t]
        /\ throwing' \in {NIL, t}
        /\ \A e \in Class : e # d => runs'[e] = runs[e]
        /\ runs' \in [Class -> Nat] /\ runs'[d] <= 1
        /\ UNCHANGED <<program, status, intrVars, fatal>>
    BY <1>2 DEF Begins
  <1>5. /\ lock' \in [Class -> Monitor]
        /\ \A u \in Thread : Waiting(u)' => Waiting(u)
    BY <1>3, NobodyNewWaits DEF Core, Begins
  <1>7. TypeOK'
    BY <1>4, <1>5 DEF Core, TypeOK, intrVars
  <1>8. initThread'[d] = t /\ \A e \in Class : e # d => initThread'[e] = initThread[e]
    BY <1>4 DEF Core, TypeOK
  <1>9. StackInv'
    <2>1. PICK st2 : st2 = status' /\ st2 = status
      BY <1>4
    <2>2. StackOK(t, s2, initThread', status')
      BY <2>1
    <2>3. \A e \in Class : initThread'[e] # initThread[e] => initThread[e] \in {NIL, t}
      BY <1>3, <1>8
    <2>4. \A e \in Class : status[e] # "LINKED" => status'[e] # "LINKED"
      BY <1>4
    <2>. QED
      BY <1>4, <2>2, <2>3, <2>4, StacksStep DEF Core
  <1>10. ThrowInv'
    BY <1>3, <1>4, <1>5, ThrowStep DEF Core, intrVars
  <1>11. RunsInv'
    <2>1. ClassRuns(d)
      BY DEF Core, RunsInv
    <2>2. ClassRuns(d)'
      <3>1. status[d] = "READY" => d \notin program.hasClinit
        BY <1>2, <1>3, <2>1 DEF Begins, Owns, ClassRuns
      <3>. QED
        BY <1>3, <1>4, <1>8, <3>1 DEF ClassRuns
    <2>3. ASSUME NEW e \in Class, e # d PROVE ClassRuns(e)'
      <3>1. ClassRuns(e)
        BY DEF Core, RunsInv
      <3>. QED
        BY <1>4, <1>8, <2>3, <3>1 DEF ClassRuns
    <2>4. \A e \in Class : ClassRuns(e)'
      BY <2>2, <2>3
    <2>5. throwing' \in {throwing, t, NIL} /\ throwing \in {NIL, t} /\ UNCHANGED program
      BY <1>3, <1>4
    <2>6. runs'[d] = runs[d] \/ initThread[d] \in {NIL, t}
      BY <1>3
    <2>. QED
      BY <1>4, <2>4, <2>5, <2>6, RunsStep DEF Core
  <1>12. ErrorsStay'
    BY <1>3, <1>4, <1>8 DEF Core, ErrorInv, ErrorsStay, EnoughRoom
  <1>13. NeverInterrupted'
    <2>1. throwing' = t => TopState(s2) # 2
      OBVIOUS
    <2>. QED
      BY <1>3, <1>4, <2>1, NeverInterruptedStep DEF Core, ErrorInv
  <1>. QED
    BY <1>7, <1>9, <1>10, <1>11, <1>12, <1>13 DEF Core, ErrorInv

LEMMA QueuesToNotifyStep ==
    ASSUME Core, NEW t \in Thread, QueuesToNotify(t)
    PROVE  Core'
  <1>0. PICK it2, b : it2 = initThread' /\ b = (throwing' = t)
    OBVIOUS
  <1>1. PICK s \in Seq(Frame), d \in Class : s = stack[t] /\ d = Top(t).cls
    BY OwnerIs DEF Core, TypeOK, QueuesToNotify
  <1>2. /\ s # << >> /\ d = s[Len(s)].cls /\ Fresh(s, d) /\ StackOK(t, s, initThread, status)
        /\ Top(t).state = s[Len(s)].state /\ throwing = NIL /\ t # NIL
        /\ FrameRuns(s, runs, program.hasClinit, FALSE)
    BY <1>1, OwnerIs DEF QueuesToNotify
  <1>3. /\ stack' = [stack EXCEPT ![t] = WithState(s, 6)]
        /\ initThread' = [initThread EXCEPT ![d] = t]
        /\ UNCHANGED <<program, status, intrVars, throwing, fatal, runs>>
        /\ d \in program.hasClinit => s[Len(s)].state = 5
    BY <1>1, <1>2 DEF QueuesToNotify
  <1>. 6 \in State
    BY DEF State
  <1>4. /\ WithState(s, 6) \in Seq(Frame)
        /\ TopState(WithState(s, 6)) = 6
    BY <1>2, WithStateIs, TopOf
  <1>5. it2[d] = t /\ \A e \in Class : e # d => it2[e] = initThread[e]
    BY <1>0, <1>1, <1>3 DEF Core, TypeOK
  <1>6. StackOK(t, WithState(s, 6), it2, status)
    BY <1>2, <1>5, StackBegin
  <1>7. d \in program.hasClinit => runs[d] = 1
    BY <1>1, <1>2, <1>3, TopStates DEF FrameRuns
  <1>8. FrameRuns(WithState(s, 6), runs, program.hasClinit, b)
    <2>1. PICK r, h, no : r = runs /\ h = program.hasClinit /\ no = FALSE
      OBVIOUS
    <2>2. FrameRuns(s, r, h, no) /\ SameElse(d, r, r) /\ RunsAt(6, d, r, h, b)
      <3>1. FrameRuns(s, r, h, no)
        BY <1>2, <2>1
      <3>2. SameElse(d, r, r) /\ RunsAt(6, d, r, h, b)
        BY <1>7, <2>1 DEF SameElse, RunsAt
      <3>. QED
        BY <3>1, <3>2
    <2>3. FrameRuns(WithState(s, 6), r, h, b)
      BY <1>2, <2>2, RunsTop
    <2>. QED
      BY <2>1, <2>3
  <1>9. FrameRuns(WithState(s, 6), runs', program.hasClinit, throwing' = t)
    BY <1>0, <1>1, <1>3, <1>8
  <1>10. Begins(t, WithState(s, 6))
    BY <1>1, <1>2, <1>3 DEF QueuesToNotify, Begins, Core, TypeOK, RunsInv, ClassRuns
  <1>11. throwing' # t
    BY <1>2, <1>3
  <1>. QED
    BY <1>0, <1>1, <1>4, <1>6, <1>9, <1>10, <1>11, BeginStep

LEMMA NotYetRun ==
    ASSUME Core, NEW t \in Thread, Owns(t), Top(t).state \in {1, 2, 4}
    PROVE  runs[Top(t).cls] = 0
  <1>1. PICK s \in Seq(Frame), d \in Class : s = stack[t] /\ d = Top(t).cls
    BY OwnerIs DEF Core, TypeOK
  <1>2. /\ s # << >> /\ d = s[Len(s)].cls /\ Top(t).state = s[Len(s)].state
        /\ FrameRuns(s, runs, program.hasClinit, FALSE)
    BY <1>1, OwnerIs
  <1>3. CASE Top(t).state = 4
    <2>1. Len(s) \in 1..Len(s) /\ s[Len(s)].state = 4
      BY <1>2, <1>3, TopStates
    <2>2. runs[s[Len(s)].cls] = 0
      BY <1>2, <2>1 DEF FrameRuns
    <2>. QED
      BY <1>1, <1>2, <2>2
  <1>4. CASE Top(t).state \in {1, 2}
    <2>1. ClassRuns(d) /\ runs[d] \in Nat
      BY DEF Core, TypeOK, RunsInv
    <2>2. initThread[d] = NIL /\ status[d] = "VERIFIED"
      BY <1>1, <1>4 DEF Owns
    <2>3. runs[d] <= 1 /\ runs[d] # 1 /\ runs[d] \in Nat
      BY <2>1, <2>2 DEF ClassRuns
    <2>4. runs[d] = 0
      BY <2>3
    <2>. QED
      BY <1>1, <2>4
  <1>. QED
    BY <1>3, <1>4

\* The frame of <clinit> is pushed, or there is no room for it.
LEMMA EntersStep ==
    ASSUME Core, NEW t \in Thread, Enters(t) \/ FindsNoRoom(t)
    PROVE  Core'
  <1>. PICK it2, b : it2 = initThread' /\ b = (throwing' = t)
    OBVIOUS
  <1>1. PICK s \in Seq(Frame), d \in Class : s = stack[t] /\ d = Top(t).cls
    BY OwnerIs DEF Core, TypeOK, Enters, FindsNoRoom
  <1>2. /\ s # << >> /\ d = s[Len(s)].cls /\ Fresh(s, d) /\ StackOK(t, s, initThread, status)
        /\ Top(t).state = s[Len(s)].state /\ throwing = NIL /\ t # NIL
        /\ FrameRuns(s, runs, program.hasClinit, FALSE)
    BY <1>1, OwnerIs DEF Enters, FindsNoRoom
  <1>3. PICK w : w = WithState(s, 5)
    OBVIOUS
  <1>. 5 \in State
    BY DEF State
  <1>4. /\ w \in Seq(Frame) /\ w # << >> /\ Len(w) = Len(s) /\ w[Len(w)].cls = d /\ w[Len(w)].state = 5
        /\ TopState(w) = 5
    BY <1>2, <1>3, WithStateIs, TopOf
  <1>5. initThread' = [initThread EXCEPT ![d] = t]
    BY <1>1 DEF Enters, FindsNoRoom
  <1>6. it2[d] = t /\ \A e \in Class : e # d => it2[e] = initThread[e]
    BY <1>1, <1>5 DEF Core, TypeOK
  <1>7. StackOK(t, w, it2, status)
    BY <1>2, <1>3, <1>6, StackBegin
  <1>8. runs[d] = 0
    BY <1>1, NotYetRun DEF Enters, FindsNoRoom
  <1>9. CASE Enters(t)
    <2>1. PICK f \in Frame : f = [cls |-> d, state |-> 0, todo |-> program.uses[d]]
      BY ProgramTyped DEF Core, Frame, State
    <2>2. f.cls = d /\ f.state = 0
      BY <2>1
    <2>3. /\ stack' = [stack EXCEPT ![t] = Append(w, f)] /\ throwing' = NIL
          /\ runs' = [runs EXCEPT ![d] = @ + 1]
      BY <1>1, <1>3, <1>9, <2>1 DEF Enters
    <2>4. Append(w, f) \in Seq(Frame) /\ TopState(Append(w, f)) = 0
      BY <1>4, <2>2, TopOf
    <2>5. Fresh(w, d)
      <3>1. \A i \in 1..Len(s) : i # Len(s) => w[i] = s[i]
        BY <1>2, <1>3, WithStateIs
      <3>. QED
        BY <1>2, <1>4, <3>1 DEF Fresh
    <2>6. StackOK(t, Append(w, f), it2, status)
      BY <1>4, <1>7, <2>2, <2>5, StackEnter
    <2>7. PICK r2 : r2 = runs'
      OBVIOUS
    <2>8. r2[d] = 1 /\ (\A e \in Class : e # d => r2[e] = runs[e]) /\ r2 \in [Class -> Nat]
      BY <1>8, <2>3, <2>7 DEF Core, TypeOK
    <2>a. PICK r, h, no : r = runs /\ h = program.hasClinit /\ no = FALSE
      OBVIOUS
    <2>b. FrameRuns(s, r, h, no) /\ SameElse(d, r, r2) /\ RunsAt(5, d, r2, h, no)
      <3>1. FrameRuns(s, r, h, no)
        BY <1>2, <2>a
      <3>2. SameElse(d, r, r2) /\ RunsAt(5, d, r2, h, no)
        BY <2>8, <2>a DEF SameElse, RunsAt
      <3>. QED
        BY <3>1, <3>2
    <2>9. FrameRuns(WithState(s, 5), r2, h, no)
      BY <1>2, <2>b, RunsTop
    <2>10. FrameRuns(Append(w, f), r2, program.hasClinit, b)
      BY <1>3, <1>4, <2>2, <2>9, <2>a, RunsPush
    <2>11. FrameRuns(Append(w, f), runs', program.hasClinit, throwing' = t)
      BY <1>1, <2>7, <2>10
    <2>c. runs'[d] <= 1 /\ runs' \in [Class -> Nat] /\ \A e \in Class : e # d => runs'[e] = runs[e]
      BY <2>7, <2>8
    <2>d. Owns(t) /\ LockTo(t) /\ UNCHANGED <<program, status, intrVars, fatal>>
      BY <1>9 DEF Enters
    <2>12. Begins(t, Append(w, f))
      BY <1>1, <1>5, <2>3, <2>c, <2>d DEF Begins
    <2>13. throwing' # t
      BY <1>2, <2>3
    <2>. QED
      BY <1>1, <2>4, <2>6, <2>11, <2>12, <2>13, BeginStep
  <1>10. CASE FindsNoRoom(t)
    <2>1. stack' = [stack EXCEPT ![t] = w] /\ throwing' = t /\ UNCHANGED runs
      BY <1>1, <1>3, <1>10 DEF FindsNoRoom
    <2>2. b
      BY <1>1, <2>1
    <2>a. PICK r, h, no : r = runs /\ h = program.hasClinit /\ no = FALSE
      OBVIOUS
    <2>b. FrameRuns(s, r, h, no) /\ SameElse(d, r, r) /\ RunsAt(5, d, r, h, b)
      <3>1. FrameRuns(s, r, h, no)
        BY <1>2, <2>a
      <3>2. SameElse(d, r, r) /\ RunsAt(5, d, r, h, b)
        BY <2>2, <2>a DEF SameElse, RunsAt
      <3>. QED
        BY <3>1, <3>2
    <2>c. FrameRuns(WithState(s, 5), r, h, b)
      BY <1>2, <2>b, RunsTop
    <2>3. FrameRuns(w, runs, program.hasClinit, b)
      BY <1>3, <2>a, <2>c
    <2>4. FrameRuns(w, runs', program.hasClinit, throwing' = t)
      BY <1>1, <2>1, <2>3
    <2>5. Begins(t, w)
      <3>1. runs \in [Class -> Nat] /\ runs[d] <= 1
        BY <1>8 DEF Core, TypeOK
      <3>. QED
        BY <1>1, <1>5, <1>10, <2>1, <3>1 DEF FindsNoRoom, Begins
    <2>. QED
      BY <1>1, <1>4, <1>7, <2>4, <2>5, BeginStep
  <1>. QED
    BY <1>9, <1>10

-----------------------------------------------------------------------------
(***************************************************************************)
(* initializeClass().                                                      *)
(***************************************************************************)
\* A thread that calls is behind a <clinit> or a superclass with each of its frames,
\* and with a class in two of them at most.
LEMMA StackBound ==
    ASSUME NEW t, NEW s \in Seq(Frame), NEW it, NEW st, StackOK(t, s, it, st),
           TopState(s) \in {0, 4, 7}
    PROVE  Len(s) <= 2 * Cardinality(Class)
  <1>1. \A i \in 1..Len(s) : s[i].state \in {0, 4, 5} /\ s[i].cls \in Class
    <2>1. ASSUME NEW i \in 1..Len(s) PROVE s[i].state \in {0, 4, 5}
      <3>1. CASE i < Len(s)
        BY <3>1 DEF StackOK, CallersBegun
      <3>2. CASE i = Len(s)
        <4>1. s # << >>
          BY <2>1
        <4>2. TopState(s) = s[Len(s)].state /\ TopState(s) \in State
          BY <4>1, TopStates
        <4>. QED
          BY <3>2, <4>2 DEF State
      <3>. QED
        BY <3>1, <3>2
    <2>. QED
      BY <2>1, ClassesTyped
  <1>. DEFINE Part(i) == IF s[i].state = 0 THEN 0 ELSE 1
              f == [i \in 1..Len(s) |-> <<s[i].cls, Part(i)>>]
  <1>2. f \in [1..Len(s) -> Class \X (0..1)]
    BY <1>1
  <1>3. ASSUME NEW i \in 1..Len(s), NEW j \in 1..Len(s), i # j, f[i] = f[j]
        PROVE  FALSE
    <2>1. s[i].cls = s[j].cls /\ Part(i) = Part(j)
      BY <1>3
    <2>2. i < j \/ j < i
      BY <1>3
    <2>3. Begun(s[i]) /\ Begun(s[j])
      BY <1>1 DEF Begun
    <2>. QED
      BY <2>1, <2>2, <2>3 DEF StackOK, BegunOnce
  <1>4. /\ IsFiniteSet(Class) /\ IsFiniteSet(0..1) /\ Cardinality(0..1) = 2
        /\ IsFiniteSet(1..Len(s)) /\ Cardinality(1..Len(s)) = Len(s)
    <2>1. IsFiniteSet(0..1) /\ Cardinality(0..1) = 2
      <3>1. PICK a \in Int, b \in Int : a = 0 /\ b = 1
        OBVIOUS
      <3>2. IsFiniteSet(a..b) /\ Cardinality(a..b) = IF a > b THEN 0 ELSE b - a + 1
        BY FS_Interval
      <3>3. ~(a > b) /\ b - a + 1 = 2
        BY <3>1
      <3>. QED
        BY <3>1, <3>2, <3>3
    <2>2. PICK n \in Nat : n = Len(s)
      OBVIOUS
    <2>3. IsFiniteSet(1..n) /\ Cardinality(1..n) = IF 1 > n THEN 0 ELSE n - 1 + 1
      BY FS_Interval
    <2>4. IsFiniteSet(1..n) /\ Cardinality(1..n) = n
      BY <2>3
    <2>. QED
      BY <2>1, <2>2, <2>4, ProgramsAssumption
  <1>5. /\ IsFiniteSet(Class \X (0..1)) /\ Cardinality(Class) \in Nat
        /\ Cardinality(Class \X (0..1)) = Cardinality(Class) * 2
    BY <1>4, FS_Product, FS_CardinalityType
  <1>. HIDE DEF f
  <1>6. ASSUME Cardinality(Class \X (0..1)) < Cardinality(1..Len(s)) PROVE FALSE
    <2>1. \E i, j \in 1..Len(s) : i # j /\ f[i] = f[j]
      <3>1. PICK A, B, g : A = 1..Len(s) /\ B = Class \X (0..1) /\ g = f
        OBVIOUS
      <3>2. g \in [A -> B] /\ IsFiniteSet(A) /\ IsFiniteSet(B) /\ Cardinality(B) < Cardinality(A)
        BY <1>2, <1>4, <1>5, <1>6, <3>1
      <3>3. \E i, j \in A : i # j /\ g[i] = g[j]
        BY <3>2, FS_PigeonHole
      <3>. QED
        BY <3>1, <3>3
    <2>. QED
      BY <1>3, <2>1
  <1>. QED
    BY <1>4, <1>5, <1>6

Failing(t, s, c) ==
    /\ stack' = [stack EXCEPT ![t] = s] /\ throwing' = t
    /\ status' = [status EXCEPT ![c] = "ERROR"]
    /\ EnoughRoom => status[c] \in {"LINKED", "ERROR"}

ReadyAtOnce(t, s, c) ==
    /\ stack' = [stack EXCEPT ![t] = s] /\ throwing' = throwing
    /\ status' = [status EXCEPT ![c] = "READY"]
    /\ status[c] \in {"LINKED", "VERIFIED"} /\ c \notin program.hasClinit

Calling(t, s, c) ==
    /\ stack' = [stack EXCEPT ![t] = Append(s, [cls |-> c, state |-> 1, todo |-> {}])]
    /\ throwing' = NIL
    /\ status' = [status EXCEPT ![c] = "VERIFIED"]
    /\ status[c] \in {"LINKED", "VERIFIED"}

LEMMA InitializeClassIs ==
    ASSUME TypeOK, NEW t \in Thread, NEW s \in Seq(Frame), NEW c \in Class,
           NEW it, NEW st, StackOK(t, s, it, st), TopState(s) \in {0, 4, 7},
           InitializeClass(t, s, c)
    PROVE  Failing(t, s, c) \/ ReadyAtOnce(t, s, c) \/ Calling(t, s, c)
  <1>1. CASE status[c] = "ERROR" /\ Throws(t, s) /\ UNCHANGED status
    BY <1>1 DEF Throws, Failing, TypeOK
  <1>2. CASE /\ status[c] = "LINKED" /\ c \in program.unverifiable
             /\ status' = [status EXCEPT ![c] = "ERROR"] /\ Throws(t, s)
    BY <1>2 DEF Throws, Failing
  <1>3. CASE /\ status[c] \in {"LINKED", "VERIFIED"}
             /\ HasInitializedSuper(c) /\ c \notin program.hasClinit
             /\ status' = [status EXCEPT ![c] = "READY"]
             /\ stack' = [stack EXCEPT ![t] = s] /\ UNCHANGED throwing
    BY <1>3 DEF ReadyAtOnce
  <1>4. CASE /\ status[c] \in {"LINKED", "VERIFIED"}
             /\ PushFrame(t, s, [cls |-> c, state |-> 1, todo |-> {}])
             /\ status' = [status EXCEPT ![c] = IF throwing' = NIL THEN "VERIFIED" ELSE "ERROR"]
    <2>1. CASE Len(s) < program.room[t]
      BY <1>4, <2>1 DEF PushFrame, Calling
    <2>2. CASE ~(Len(s) < program.room[t])
      <3>1. stack' = [stack EXCEPT ![t] = s] /\ throwing' = t
        BY <1>4, <2>2 DEF PushFrame
      <3>2. status' = [status EXCEPT ![c] = "ERROR"]
        BY <1>4, <3>1, NothingIsNil
      <3>3. ~EnoughRoom
        <4>1. Len(s) <= 2 * Cardinality(Class)
          BY StackBound
        <4>2. PICK m \in Nat, n \in Nat : m = program.room[t] /\ n = Cardinality(Class)
          BY ProgramTyped, ProgramsAssumption, FS_CardinalityType
        <4>. QED
          BY <2>2, <4>1, <4>2 DEF EnoughRoom
      <3>. QED
        BY <3>1, <3>2, <3>3 DEF Failing
    <2>. QED
      BY <2>1, <2>2
  <1>. QED
    BY <1>1, <1>2, <1>3, <1>4 DEF InitializeClass

\* Whose frames may be s when initializeClass() is called.
LocksKept ==
    /\ lock' \in [Class -> Monitor]
    /\ \A u \in Thread : Waiting(u)' => Waiting(u)

TakesOnly(t) ==
    \A d \in Class : initThread'[d] = initThread[d]
                   \/ (initThread[d] \in {NIL, t} /\ initThread'[d] = t /\ status[d] = "VERIFIED")

LEMMA CallStep ==
    ASSUME Core, NEW t \in Thread, Runs(t), NEW s \in Seq(Frame), TopState(s) \in {0, 4, 7},
           NEW c \in Class, InitializeClass(t, s, c), LocksKept, TakesOnly(t),
           UNCHANGED <<program, intrVars, fatal, runs>>,
           NEW it2, it2 = initThread', it2 \in [Class -> Thread \cup {NIL}],
           StackOK(t, s, it2, status), FrameRuns(s, runs, program.hasClinit, FALSE)
    PROVE  Core'
  <1>1. PICK f \in Frame : f = [cls |-> c, state |-> 1, todo |-> {}]
    BY DEF Frame, State
  <1>2. f.cls = c /\ f.state = 1
    BY <1>1
  <1>3. Failing(t, s, c) \/ ReadyAtOnce(t, s, c) \/ Calling(t, s, c)
    BY InitializeClassIs DEF Core
  <1>4. PICK s2 \in {s, Append(s, f)}, n \in {"ERROR", "READY", "VERIFIED"} :
          /\ stack' = [stack EXCEPT ![t] = s2]
          /\ status' = [status EXCEPT ![c] = n]
    BY <1>1, <1>3 DEF Failing, ReadyAtOnce, Calling
  <1>5. status' \in [Class -> {"LINKED", "VERIFIED", "READY", "ERROR"}]
        /\ status'[c] = n /\ \A d \in Class : d # c => status'[d] = status[d]
    BY <1>4 DEF Core, TypeOK
  <1>6. throwing = NIL /\ t # NIL /\ ~pendingException[t] /\ ~Waiting(t)
    BY NothingIsNil DEF Runs
  <1>7. /\ s2 \in Seq(Frame) /\ throwing' \in {NIL, t}
        /\ TopState(s2) \in {0, 1, 4, 7} /\ (throwing' = t => s2 = s)
        /\ (s2 # s => n = "VERIFIED")
    <2>1. Append(s, f) \in Seq(Frame) /\ TopState(Append(s, f)) = 1 /\ Append(s, f) # s
      BY <1>2, PushedIs, TopOf
    <2>2. stack'[t] = s2
      BY <1>4 DEF Core, TypeOK
    <2>3. CASE Failing(t, s, c) \/ ReadyAtOnce(t, s, c)
      <3>1. s2 = s
        BY <2>2, <2>3 DEF Failing, ReadyAtOnce, Core, TypeOK
      <3>. QED
        BY <1>6, <2>3, <3>1 DEF Failing, ReadyAtOnce
    <2>4. CASE Calling(t, s, c)
      <3>1. s2 = Append(s, f)
        BY <1>1, <2>2, <2>4 DEF Calling, Core, TypeOK
      <3>2. n = "VERIFIED"
        BY <1>5, <2>4 DEF Calling, Core, TypeOK
      <3>. QED
        BY <1>6, <2>1, <2>4, <3>1, <3>2 DEF Calling
    <2>. QED
      BY <1>3, <2>3, <2>4
  <1>8. TypeOK'
    BY <1>4, <1>5, <1>6, <1>7 DEF Core, TypeOK, LocksKept, intrVars
  <1>9. StackInv'
    <2>1. PICK st2 : st2 = status'
      OBVIOUS
    <2>2. \A d \in Class : status[d] # "LINKED" => st2[d] # "LINKED"
      BY <1>5, <2>1
    <2>3. StackOK(t, s, it2, st2)
      <3>1. \A d \in Class : it2[d] = t => it2[d] = t
        OBVIOUS
      <3>. QED
        BY <2>2, <3>1, OtherStack
    <2>4. StackOK(t, s2, it2, st2)
      <3>1. CASE s2 = Append(s, f) /\ s2 # s
        <4>1. st2[f.cls] # "LINKED"
          BY <1>2, <1>5, <1>7, <2>1, <3>1
        <4>2. s = << >> \/ s[Len(s)].state \in {0, 4}
          BY TopStates DEF State
        <4>3. StackOK(t, Append(s, f), it2, st2)
          BY <1>2, <2>2, <4>1, <4>2, StackCall
        <4>. QED
          BY <3>1, <4>3
      <3>. QED
        BY <1>4, <2>3, <3>1
    <2>5. StackOK(t, s2, initThread', status')
      BY <2>1, <2>4
    <2>6. \A d \in Class : initThread'[d] # initThread[d] => initThread[d] \in {NIL, t}
      BY DEF TakesOnly
    <2>7. \A d \in Class : status[d] # "LINKED" => status'[d] # "LINKED"
      BY <2>1, <2>2
    <2>. QED
      BY <1>4, <2>5, <2>6, <2>7, StacksStep DEF Core
  <1>10. ThrowInv'
    <2>1. throwing' = t => TopState(s2) \in {0, 2, 4, 5, 7}
      BY <1>7
    <2>2. /\ pendingException' = pendingException
          /\ \A u \in Thread : Waiting(u)' => Waiting(u)
      BY DEF LocksKept, intrVars
    <2>3. s2 \in Seq(Frame) /\ throwing' \in {NIL, t}
      BY <1>7
    <2>4. TypeOK /\ ThrowInv
      BY DEF Core
    <2>. QED
      BY <1>4, <1>6, <2>1, <2>2, <2>3, <2>4, ThrowStep
  <1>11. RunsInv'
    <2>1. PICK r, h, no, b : r = runs /\ h = program.hasClinit /\ no = FALSE /\ b = (throwing' = t)
      OBVIOUS
    <2>2. FrameRuns(s, r, h, no)
      BY <2>1
    <2>3. FrameRuns(s2, r, h, b)
      <3>1. CASE s2 = s
        BY <2>2, <2>1, <3>1 DEF FrameRuns
      <3>2. CASE s2 = Append(s, f)
        BY <1>2, <2>1, <2>2, <3>2, RunsPush
      <3>. QED
        BY <1>4, <3>1, <3>2
    <2>4. FrameRuns(s2, runs', program.hasClinit, throwing' = t)
      BY <2>1, <2>3
    <2>5. ASSUME NEW d \in Class PROVE ClassRuns(d)'
      <3>1. ClassRuns(d)
        BY DEF Core, RunsInv
      <3>2. initThread'[d] = initThread[d] \/ (initThread'[d] = t /\ status[d] = "VERIFIED")
        BY DEF TakesOnly
      <3>3. CASE d # c
        BY <1>5, <1>6, <3>1, <3>2, <3>3 DEF ClassRuns
      <3>4. CASE d = c
        <4>1. n = "READY" => c \notin program.hasClinit \/ status[c] = "READY"
          BY <1>3, <1>5 DEF Failing, ReadyAtOnce, Calling, Core, TypeOK
        <4>2. n = "VERIFIED" => status[c] \in {"LINKED", "VERIFIED"}
          BY <1>3, <1>5 DEF Failing, ReadyAtOnce, Calling, Core, TypeOK
        <4>. QED
          BY <1>5, <1>6, <3>1, <3>2, <3>4, <4>1, <4>2 DEF ClassRuns
      <3>. QED
        BY <3>3, <3>4
    <2>6. runs' = runs /\ UNCHANGED program /\ throwing \in {NIL, t} /\ throwing' \in {throwing, t, NIL}
      BY <1>6, <1>7
    <2>7. (\A d \in Class : d # c => runs'[d] = runs[d]) /\ runs'[c] = runs[c]
      BY <2>6
    <2>. QED
      BY <1>4, <2>4, <2>5, <2>6, <2>7, RunsStep DEF Core
  <1>12. ErrorsStay'
    <2>. SUFFICES ASSUME EnoughRoom', NEW d \in Class, status'[d] = "ERROR"
                  PROVE  initThread'[d] = NIL
      BY DEF ErrorsStay
    <2>1. EnoughRoom
      BY DEF EnoughRoom
    <2>2. status[d] = "ERROR" \/ (status[d] = "LINKED" /\ d = c)
      BY <1>3, <1>5, <2>1 DEF Failing, ReadyAtOnce, Calling, Core, TypeOK
    <2>3. initThread[d] = NIL
      BY <2>1, <2>2 DEF Core, ErrorInv, ErrorsStay, RunsInv, ClassRuns
    <2>. QED
      BY <2>2, <2>3 DEF TakesOnly
  <1>13. NeverInterrupted'
    <2>1. throwing' = t => TopState(s2) # 2
      BY <1>7
    <2>. QED
      BY <1>4, <1>6, <1>7, <2>1, NeverInterruptedStep DEF Core, ErrorInv
  <1>. QED
    BY <1>8, <1>9, <1>10, <1>11, <1>12, <1>13 DEF Core, ErrorInv

LEMMA CallsForSuperStep ==
    ASSUME Core, NEW t \in Thread, CallsForSuper(t)
    PROVE  Core'
  <1>. PICK it2 : it2 = initThread'
    OBVIOUS
  <1>1. PICK s \in Seq(Frame), d \in Class : s = stack[t] /\ d = Top(t).cls
    BY OwnerIs DEF Core, TypeOK, CallsForSuper
  <1>2. /\ s # << >> /\ d = s[Len(s)].cls /\ Fresh(s, d) /\ StackOK(t, s, initThread, status)
        /\ FrameRuns(s, runs, program.hasClinit, FALSE)
    BY <1>1, OwnerIs DEF CallsForSuper
  <1>3. PICK w : w = WithState(s, 4)
    OBVIOUS
  <1>. 4 \in State
    BY DEF State
  <1>4. w \in Seq(Frame) /\ TopState(w) = 4
    BY <1>2, <1>3, WithStateIs, TopOf
  <1>5. initThread' = [initThread EXCEPT ![d] = t]
    BY <1>1 DEF CallsForSuper
  <1>6. /\ it2[d] = t /\ \A e \in Class : e # d => it2[e] = initThread[e]
        /\ it2 \in [Class -> Thread \cup {NIL}]
    BY <1>1, <1>5 DEF Core, TypeOK
  <1>7. StackOK(t, w, it2, status)
    BY <1>2, <1>3, <1>6, StackBegin
  <1>8. FrameRuns(w, runs, program.hasClinit, FALSE)
    <2>1. runs[d] = 0
      BY <1>1, NotYetRun DEF CallsForSuper
    <2>2. PICK r, h, no : r = runs /\ h = program.hasClinit /\ no = FALSE
      OBVIOUS
    <2>3. FrameRuns(s, r, h, no)
      BY <1>2, <2>2
    <2>4. SameElse(d, r, r) /\ RunsAt(4, d, r, h, no)
      BY <2>1, <2>2 DEF SameElse, RunsAt
    <2>5. FrameRuns(WithState(s, 4), r, h, no)
      BY <1>2, <2>3, <2>4, RunsTop
    <2>. QED
      BY <1>3, <2>2, <2>5
  <1>9. TakesOnly(t)
    <2>1. initThread[d] = NIL /\ status[d] = "VERIFIED"
      BY <1>1 DEF CallsForSuper, Owns
    <2>2. ASSUME NEW e \in Class
          PROVE  initThread'[e] = initThread[e]
              \/ (initThread[e] \in {NIL, t} /\ initThread'[e] = t /\ status[e] = "VERIFIED")
      BY <1>1, <1>6, <2>1
    <2>. QED
      BY <2>2 DEF TakesOnly
  <1>10. LocksKept
    BY <1>1, <1>2, NobodyNewWaits DEF CallsForSuper, Core, LocksKept
  <1>11. PICK c \in Class : c = program.superClass[d]
    BY <1>1 DEF CallsForSuper
  <1>12. Runs(t) /\ InitializeClass(t, w, c) /\ UNCHANGED <<program, intrVars, fatal, runs>>
    BY <1>1, <1>3, <1>11 DEF CallsForSuper, Owns
  <1>. QED
    BY <1>1, <1>4, <1>6, <1>7, <1>8, <1>9, <1>10, <1>12, CallStep

-----------------------------------------------------------------------------
(***************************************************************************)
(* Steps that leave the classes alone.                                     *)
(***************************************************************************)
\* Who waits and who has been interrupted, when t's frames become s2.
WaitsStep(t, s2) ==
    /\ lock' \in [Class -> Monitor]
    /\ pendingException' \in [Thread -> BOOLEAN]
    /\ \A u \in Thread : u # t => /\ pendingException'[u] => pendingException[u]
                                  /\ Waiting(u)' => Waiting(u)
    /\ pendingException'[t] \/ Waiting(t)' => throwing' # t /\ TopState(s2) = 2

InterruptsStep ==
    /\ isPendingInterrupt' \in [Thread -> BOOLEAN] /\ fatal' \in BOOLEAN
    /\ program.interruptible = {} =>
         ~fatal' /\ \A u \in Thread : ~isPendingInterrupt'[u] /\ ~pendingException'[u]

ThrowsStep(t, s2) ==
    /\ throwing \in {NIL, t} /\ throwing' \in {NIL, t}
    /\ throwing' = t => /\ TopState(s2) \in {0, 2, 4, 5, 7}
                        /\ program.interruptible = {} => TopState(s2) # 2

LEMMA FramesStep ==
    ASSUME Core, NEW t \in Thread, NEW s2 \in Seq(Frame), stack' = [stack EXCEPT ![t] = s2],
           StackOK(t, s2, initThread, status),
           FrameRuns(s2, runs, program.hasClinit, throwing' = t),
           UNCHANGED <<program, classVars, runs>>,
           WaitsStep(t, s2), InterruptsStep, ThrowsStep(t, s2)
    PROVE  Core'
  <1>1. /\ UNCHANGED program /\ UNCHANGED status /\ UNCHANGED initThread /\ UNCHANGED runs
    BY DEF classVars
  <1>2. TypeOK'
    BY <1>1 DEF Core, TypeOK, WaitsStep, InterruptsStep, ThrowsStep
  <1>3. StackInv'
    <2>1. StackOK(t, s2, initThread', status')
      BY <1>1
    <2>. QED
      BY <1>1, <2>1, StacksStep DEF Core
  <1>4. stack'[t] = s2 /\ \A u \in Thread : u # t => stack'[u] = stack[u]
    BY DEF Core, TypeOK
  <1>5. PICK st2, th : st2 = stack' /\ th = throwing'
    OBVIOUS
  <1>6. \A u \in Thread : u # t => throwing # u /\ throwing' # u
    BY NothingIsNil DEF ThrowsStep
  <1>7. ThrowInv'
    <2>1. ASSUME NEW u \in Thread, u # t
          PROVE  /\ th # u
                 /\ pendingException'[u] \/ Waiting(u)' => th # u /\ TopState(st2[u]) = 2
      BY <1>4, <1>5, <1>6, <2>1 DEF Core, ThrowInv, WaitsStep
    <2>2. /\ th = t => TopState(st2[t]) \in {0, 2, 4, 5, 7}
          /\ pendingException'[t] \/ Waiting(t)' => th # t /\ TopState(st2[t]) = 2
      BY <1>4, <1>5 DEF WaitsStep, ThrowsStep
    <2>. QED
      BY <1>5, <2>1, <2>2 DEF ThrowInv, TopState
  <1>8. RunsInv'
    <2>1. FrameRuns(s2, runs', program.hasClinit, throwing' = t)
      BY <1>1
    <2>2. \A d \in Class : ClassRuns(d)'
      BY <1>1 DEF Core, RunsInv, ClassRuns
    <2>3. throwing' \in {throwing, t, NIL} /\ throwing \in {NIL, t}
      BY DEF ThrowsStep
    <2>4. ASSUME NEW c \in Class PROVE RunsInv'
      BY <1>1, <2>1, <2>2, <2>3, RunsStep DEF Core
    <2>5. CASE Class = {}
      BY <1>1, <1>4, <1>6, <2>1, <2>5, ClassesTyped
         DEF Core, RunsInv, FrameRuns, TypeOK
    <2>. QED
      BY <2>4, <2>5
  <1>9. ErrorsStay'
    BY <1>1 DEF Core, ErrorInv, ErrorsStay, EnoughRoom
  <1>10. NeverInterrupted'
    <2>1. ASSUME NEW u \in Thread, program.interruptible = {}, th = u
          PROVE  TopState(st2[u]) # 2
      BY <1>4, <1>5, <1>6, <2>1 DEF ThrowsStep
    <2>. QED
      BY <1>1, <1>5, <2>1 DEF NeverInterrupted, InterruptsStep, TopState
  <1>. QED
    BY <1>2, <1>3, <1>7, <1>8, <1>9, <1>10 DEF Core, ErrorInv

\* What holds of the frames of a thread that runs.
LEMMA FramesAre ==
    ASSUME Core, NEW t \in Thread
    PROVE  /\ stack[t] \in Seq(Frame) /\ StackOK(t, stack[t], initThread, status)
           /\ throwing # t => FrameRuns(stack[t], runs, program.hasClinit, FALSE)
           /\ Runs(t) => throwing = NIL /\ ~pendingException[t] /\ ~Waiting(t)
           /\ t # NIL
  <1>1. stack[t] \in Seq(Frame) /\ StackOK(t, stack[t], initThread, status)
    BY DEF Core, TypeOK, StackInv
  <1>2. ASSUME throwing # t PROVE FrameRuns(stack[t], runs, program.hasClinit, FALSE)
    <2>1. (throwing = t) = FALSE
      BY <1>2
    <2>. QED
      BY <2>1 DEF Core, RunsInv
  <1>. QED
    BY <1>1, <1>2, NothingIsNil DEF Runs

\* A monitor changes, and nobody begins to wait.
LEMMA NothingNew ==
    ASSUME Core, NEW t \in Thread, NEW s2, LocksKept,
           ~pendingException[t] /\ ~Waiting(t), UNCHANGED <<program, intrVars, fatal>>
    PROVE  WaitsStep(t, s2) /\ InterruptsStep
  BY DEF Core, TypeOK, LocksKept, WaitsStep, InterruptsStep, intrVars, ErrorInv, NeverInterrupted

LEMMA LeavesItToOthersStep ==
    ASSUME Core, NEW t \in Thread, LeavesItToOthers(t) \/ QueuesToLook(t)
    PROVE  Core'
  <1>1. PICK s \in Seq(Frame) : s = stack[t]
    BY DEF Core, TypeOK
  <1>2. /\ s # << >> /\ s[Len(s)].state \in {1, 2} /\ Runs(t) /\ LockTo(t)
        /\ UNCHANGED <<program, classVars, intrVars, throwing, fatal, runs>>
    BY <1>1 DEF LeavesItToOthers, QueuesToLook, Top
  <1>3. PICK s2 \in {Popped(s), WithState(s, 2)} : stack' = [stack EXCEPT ![t] = s2]
    BY <1>1 DEF LeavesItToOthers, QueuesToLook
  <1>4. /\ StackOK(t, s, initThread, status) /\ FrameRuns(s, runs, program.hasClinit, FALSE)
        /\ throwing = NIL /\ ~pendingException[t] /\ ~Waiting(t) /\ t # NIL
    BY <1>1, <1>2, FramesAre
  <1>5. s2 \in Seq(Frame)
    BY <1>2, <1>3, PoppedIs, WithStateIs DEF State
  <1>6. StackOK(t, s2, initThread, status)
    BY <1>2, <1>3, <1>4, StackPop, StackWait
  <1>7. FrameRuns(s2, runs, program.hasClinit, throwing' = t)
    BY <1>2, <1>3, <1>4, RunsPop, RunsStay
  <1>8. LocksKept
    BY <1>1, <1>2, NobodyNewWaits DEF Core, LocksKept
  <1>9. throwing' # t
    BY <1>2, <1>4
  <1>10. WaitsStep(t, s2) /\ InterruptsStep
    BY <1>2, <1>4, <1>8, <1>9, NothingNew
  <1>11. ThrowsStep(t, s2)
    BY <1>2, <1>4 DEF ThrowsStep
  <1>. QED
    BY <1>2, <1>3, <1>5, <1>6, <1>7, <1>10, <1>11, FramesStep

LEMMA WaitsForOtherStep ==
    ASSUME Core, NEW t \in Thread, WaitsForOther(t)
    PROVE  Core'
  <1>1. PICK s \in Seq(Frame), c \in Class, l \in Monitor :
          /\ s = stack[t] /\ s # << >> /\ c = Top(t).cls
          /\ lock' = [lock EXCEPT ![c] = l]
          /\ \A u \in Thread : InSeq(u, l.waitQ) => InSeq(u, lock[c].waitQ) \/ u = t
    BY TopTyped DEF Core, WaitsForOther
  <1>2. /\ s[Len(s)].state \in {1, 2} /\ Runs(t) /\ stack' = [stack EXCEPT ![t] = WithState(s, 2)]
        /\ pendingException' = [pendingException EXCEPT ![t] = isPendingInterrupt[t]]
        /\ isPendingInterrupt' = [isPendingInterrupt EXCEPT ![t] = FALSE]
        /\ fatal' \in {FALSE, isPendingInterrupt[t]}
        /\ UNCHANGED <<program, classVars, runs>> /\ throwing' = throwing
    BY <1>1 DEF WaitsForOther, Top
  <1>3. /\ StackOK(t, s, initThread, status) /\ FrameRuns(s, runs, program.hasClinit, FALSE)
        /\ throwing = NIL /\ t # NIL
    BY <1>1, <1>2, FramesAre
  <1>. 2 \in State
    BY DEF State
  <1>4. WithState(s, 2) \in Seq(Frame) /\ TopState(WithState(s, 2)) = 2
    BY <1>1, WithStateIs, TopOf
  <1>5. StackOK(t, WithState(s, 2), initThread, status)
    BY <1>1, <1>2, <1>3, StackWait
  <1>6. FrameRuns(WithState(s, 2), runs, program.hasClinit, throwing' = t)
    BY <1>1, <1>2, <1>3, RunsStay
  <1>7. lock' \in [Class -> Monitor] /\ \A u \in Thread : u # t => (Waiting(u)' => Waiting(u))
    BY <1>1 DEF Core, TypeOK, Waiting
  <1>8. \A u \in Thread : u # t => pendingException'[u] = pendingException[u]
    BY <1>2 DEF Core, TypeOK
  <1>9. pendingException' \in [Thread -> BOOLEAN] /\ isPendingInterrupt' \in [Thread -> BOOLEAN]
    BY <1>2 DEF Core, TypeOK
  <1>10. WaitsStep(t, WithState(s, 2))
    BY <1>2, <1>3, <1>4, <1>7, <1>8, <1>9 DEF WaitsStep
  <1>11. InterruptsStep
    <2>1. isPendingInterrupt[t] \in BOOLEAN
      BY DEF Core, TypeOK
    <2>2. fatal' \in BOOLEAN
      BY <1>2, <2>1
    <2>3. ASSUME program.interruptible = {}
          PROVE  ~fatal' /\ \A u \in Thread : ~isPendingInterrupt'[u] /\ ~pendingException'[u]
      <3>1. \A u \in Thread : ~isPendingInterrupt[u] /\ ~pendingException[u]
        BY <2>3 DEF Core, ErrorInv, NeverInterrupted
      <3>. QED
        BY <1>2, <3>1 DEF Core, TypeOK
    <2>. QED
      BY <1>9, <2>2, <2>3 DEF InterruptsStep
  <1>12. ThrowsStep(t, WithState(s, 2))
    BY <1>2, <1>3 DEF ThrowsStep
  <1>. QED
    BY <1>2, <1>4, <1>5, <1>6, <1>10, <1>11, <1>12, FramesStep

LEMMA RunClinitStep ==
    ASSUME Core, NEW t \in Thread, RunClinit(t)
    PROVE  Core'
  <1>1. RunClinitOutcome(t)
    BY RunClinitIs DEF Core
  <1>. QED
    BY <1>1, UnmarksStep, QueuesToNotifyStep, EntersStep, CallsForSuperStep,
       LeavesItToOthersStep, WaitsForOtherStep DEF RunClinitOutcome

-----------------------------------------------------------------------------
(***************************************************************************)
(* Bytecodes that need a class, and locks on class objects.                *)
(***************************************************************************)
\* lock stays, or one monitor changes without anybody waiting for it.
LEMMA LocksKeptWhen ==
    ASSUME TypeOK, lock' = lock \/ \E c \in Class, l \in Monitor :
                      lock' = [lock EXCEPT ![c] = l] /\ NoMoreWait(lock[c], l)
    PROVE  LocksKept
  <1>1. CASE lock' = lock
    BY <1>1 DEF LocksKept, TypeOK, Waiting
  <1>2. ASSUME NEW c \in Class, NEW l \in Monitor, lock' = [lock EXCEPT ![c] = l],
               NoMoreWait(lock[c], l)
        PROVE  LocksKept
    <2>1. lock' \in [Class -> Monitor]
      BY <1>2 DEF TypeOK
    <2>2. ASSUME NEW u \in Thread, NEW d \in Class, InSeq(u, lock'[d].waitQ)
          PROVE  InSeq(u, lock[d].waitQ)
      BY <1>2, <2>2 DEF TypeOK, NoMoreWait
    <2>. QED
      BY <2>1, <2>2 DEF LocksKept, Waiting
  <1>. QED
    BY <1>1, <1>2

LEMMA CallsFrom ==
    ASSUME Core, NEW t \in Thread, Runs(t), NEW c \in Class, TopState(stack[t]) \in {0, 7},
           InitializeClass(t, stack[t], c),
           UNCHANGED <<program, initThread, lock, intrVars, fatal, runs>>
    PROVE  Core'
  <1>. PICK it2 : it2 = initThread'
    OBVIOUS
  <1>1. PICK s \in Seq(Frame) : s = stack[t]
    BY DEF Core, TypeOK
  <1>2. /\ StackOK(t, s, initThread, status) /\ FrameRuns(s, runs, program.hasClinit, FALSE)
    BY <1>1, FramesAre, NothingIsNil DEF Runs
  <1>3. it2 = initThread /\ it2 \in [Class -> Thread \cup {NIL}]
    BY <1>1 DEF Core, TypeOK
  <1>4. StackOK(t, s, it2, status)
    BY <1>2, <1>3
  <1>5. LocksKept /\ TakesOnly(t)
    BY LocksKeptWhen DEF Core, TakesOnly
  <1>6. TopState(s) \in {0, 4, 7} /\ InitializeClass(t, s, c)
    BY <1>1
  <1>7. UNCHANGED <<program, intrVars, fatal, runs>>
    OBVIOUS
  <1>. QED
    BY <1>1, <1>2, <1>3, <1>4, <1>5, <1>6, <1>7, CallStep

LEMMA TouchStep ==
    ASSUME Core, NEW t \in Thread, NEW c \in Class, Touch(t, c)
    PROVE  Core'
  <1>1. stack[t] = << >> /\ Runs(t)
    BY DEF Touch, AtRest
  <1>2. TopState(stack[t]) = 7 /\ InitializeClass(t, stack[t], c)
    BY <1>1 DEF Touch, TopState
  <1>. QED
    BY <1>1, <1>2, CallsFrom DEF Touch

\* A frame of <clinit> goes on: only what it has still to do changes.
WithTodo(s, todo) == [s EXCEPT ![Len(s)].todo = todo]

LEMMA SameFrames ==
    ASSUME NEW s \in Seq(Frame), s # << >>, NEW todo, todo \subseteq Class
    PROVE  /\ WithTodo(s, todo) \in Seq(Frame) /\ WithTodo(s, todo) # << >>
           /\ Len(WithTodo(s, todo)) = Len(s) /\ Len(s) \in Nat
           /\ TopState(WithTodo(s, todo)) = TopState(s)
           /\ \A i \in 1..Len(s) : WithTodo(s, todo)[i].cls = s[i].cls /\ WithTodo(s, todo)[i].state = s[i].state
  <1>1. PICK k \in 1..Len(s) : k = Len(s)
    BY TopStates
  <1>2. PICK f \in Frame : f = s[k]
    OBVIOUS
  <1>3. PICK g : g = [f EXCEPT !.todo = todo]
    OBVIOUS
  <1>4. g \in Frame /\ g.cls = f.cls /\ g.state = f.state
    BY <1>3 DEF Frame
  <1>5. WithTodo(s, todo) = [s EXCEPT ![k] = g]
    BY <1>1, <1>2, <1>3 DEF WithTodo
  <1>6. /\ [s EXCEPT ![k] = g] \in Seq(Frame) /\ Len([s EXCEPT ![k] = g]) = Len(s)
        /\ \A j \in 1..Len(s) : [s EXCEPT ![k] = g][j] = IF j = k THEN g ELSE s[j]
    BY <1>4, ExceptSeq
  <1>7. PICK w \in Seq(Frame) : w = WithTodo(s, todo)
    BY <1>5, <1>6
  <1>8. /\ Len(w) = Len(s) /\ w[k].state = s[k].state
        /\ \A i \in 1..Len(s) : w[i].cls = s[i].cls /\ w[i].state = s[i].state
    BY <1>2, <1>4, <1>5, <1>6, <1>7
  <1>9. w # << >> /\ Len(s) \in Nat
    BY <1>1, <1>8
  <1>10. TopState(w) = TopState(s)
    BY <1>1, <1>8, <1>9 DEF TopState
  <1>. QED
    BY <1>7, <1>8, <1>9, <1>10

LEMMA TopOfSame ==
    ASSUME NEW s \in Seq(Frame), s # << >>, NEW todo, todo \subseteq Class
    PROVE  TopState(WithTodo(s, todo)) = TopState(s)
  <1>1. PICK w \in Seq(Frame) : w = WithTodo(s, todo)
    BY SameFrames
  <1>2. w # << >> /\ Len(w) = Len(s) /\ Len(s) \in 1..Len(s)
    BY <1>1, SameFrames, TopStates
  <1>3. w[Len(s)].state = s[Len(s)].state
    BY <1>1, <1>2, SameFrames
  <1>. QED
    BY <1>1, <1>2, <1>3 DEF TopState

LEMMA SameStackOK ==
    ASSUME NEW t, NEW s \in Seq(Frame), NEW s2 \in Seq(Frame), Len(s2) = Len(s),
           \A i \in 1..Len(s) : s2[i].cls = s[i].cls /\ s2[i].state = s[i].state
    PROVE  /\ \A it, st : StackOK(t, s, it, st) => StackOK(t, s2, it, st)
           /\ \A r, h, b, b2 : FrameRuns(s, r, h, b) /\ (b => b2 \/ TopState(s) = 0) => FrameRuns(s2, r, h, b2)
  <1>1. ASSUME NEW it, NEW st, StackOK(t, s, it, st) PROVE StackOK(t, s2, it, st)
    BY <1>1 DEF StackOK, CallersBegun, BegunOnce, Mine, Verified, Begun
  <1>2. ASSUME NEW r, NEW h, NEW b, NEW b2, FrameRuns(s, r, h, b), b => b2 \/ TopState(s) = 0
        PROVE  FrameRuns(s2, r, h, b2)
    <2>1. \A i \in 1..Len(s) : i = Len(s) => TopState(s) = s[i].state
      BY DEF TopState
    <2>. QED
      BY <1>2, <2>1 DEF FrameRuns
  <1>. QED
    BY <1>1, <1>2

\* A thread goes on in its <clinit>, or returns from it, and touches no class.
LEMMA ClinitStep ==
    ASSUME Core, NEW t \in Thread, Runs(t), TopState(stack[t]) = 0,
           NEW s2 \in Seq(Frame), stack' = [stack EXCEPT ![t] = s2],
           StackOK(t, s2, initThread, status), FrameRuns(s2, runs, program.hasClinit, FALSE),
           throwing' = NIL \/ (throwing' = t /\ s2 = stack[t]),
           UNCHANGED <<program, classVars, lock, intrVars, fatal, runs>>
    PROVE  Core'
  <1>1. throwing = NIL /\ ~pendingException[t] /\ ~Waiting(t) /\ t # NIL
    BY FramesAre
  <1>2. LocksKept
    BY LocksKeptWhen DEF Core
  <1>3. WaitsStep(t, s2) /\ InterruptsStep
    BY <1>1, <1>2, NothingNew
  <1>4. ThrowsStep(t, s2)
    BY <1>1 DEF ThrowsStep
  <1>5. FrameRuns(s2, runs, program.hasClinit, throwing' = t)
    BY DEF FrameRuns
  <1>. QED
    BY <1>3, <1>4, <1>5, FramesStep

LEMMA ClinitActions ==
    ASSUME Core, NEW t \in Thread, Clinit(t)
    PROVE  Core'
  <1>1. Running(t, 0)
    BY DEF Clinit, ClinitUses, ClinitReturns, ClinitThrows
  <1>2. PICK s \in Seq(Frame) : s = stack[t] /\ s # << >>
    BY <1>1 DEF Core, TypeOK, Running
  <1>3. Runs(t) /\ TopState(s) = 0 /\ TopState(stack[t]) = 0
    BY <1>1, <1>2 DEF Running, TopState
  <1>4. StackOK(t, s, initThread, status) /\ FrameRuns(s, runs, program.hasClinit, FALSE)
        /\ throwing = NIL
    BY <1>2, <1>3, FramesAre
  <1>5. ASSUME NEW c \in Class, ClinitUses(t, c) PROVE Core'
    <2>1. CASE /\ stack' = [stack EXCEPT ![t][Len(stack[t])].todo = @ \ {c}]
               /\ UNCHANGED <<status, throwing>>
      <3>1. PICK s2, todo : /\ todo = s[Len(s)].todo \ {c}
                            /\ s2 = WithTodo(s, todo)
        OBVIOUS
      <3>2. todo \subseteq Class
        BY <1>2, <3>1, TopStates DEF Frame
      <3>3. /\ s2 \in Seq(Frame) /\ Len(s2) = Len(s)
            /\ \A i \in 1..Len(s) : s2[i].cls = s[i].cls /\ s2[i].state = s[i].state
        BY <1>2, <3>1, <3>2, SameFrames
      <3>4. StackOK(t, s2, initThread, status) /\ FrameRuns(s2, runs, program.hasClinit, FALSE)
        BY <1>4, <3>3, SameStackOK
      <3>5. stack' = [stack EXCEPT ![t] = s2]
        BY <1>2, <2>1, <3>1 DEF WithTodo
      <3>6. throwing' = NIL /\ UNCHANGED <<program, classVars, lock, intrVars, fatal, runs>>
        BY <1>4, <1>5, <2>1 DEF ClinitUses, classVars
      <3>. QED
        BY <1>3, <3>3, <3>4, <3>5, <3>6, ClinitStep
    <2>2. CASE status[c] = "ERROR" /\ Throws(t, stack[t]) /\ UNCHANGED status
      <3>1. stack' = [stack EXCEPT ![t] = s] /\ throwing' = t /\ s = stack[t]
        BY <1>2, <2>2 DEF Throws
      <3>2. UNCHANGED <<program, classVars, lock, intrVars, fatal, runs>>
        BY <1>5, <2>2 DEF ClinitUses, classVars
      <3>. QED
        BY <1>3, <1>4, <3>1, <3>2, ClinitStep
    <2>3. CASE InitializeClass(t, stack[t], c)
      BY <1>3, <1>5, <2>3, CallsFrom DEF ClinitUses
    <2>. QED
      BY <1>5, <2>1, <2>2, <2>3 DEF ClinitUses, UseClass
  <1>6. CASE ClinitReturns(t)
    <2>1. stack' = [stack EXCEPT ![t] = Popped(s)]
          /\ UNCHANGED <<program, classVars, lock, intrVars, throwing, fatal, runs>>
      BY <1>2, <1>6 DEF ClinitReturns, PopFrame
    <2>2. Popped(s) \in Seq(Frame) /\ StackOK(t, Popped(s), initThread, status)
      BY <1>2, <1>4, PoppedIs, StackPop
    <2>3. FrameRuns(Popped(s), runs, program.hasClinit, FALSE)
      BY <1>2, <1>4, RunsPop
    <2>4. throwing' = NIL /\ UNCHANGED <<program, classVars, lock, intrVars, fatal, runs>>
      BY <1>4, <2>1
    <2>. QED
      BY <1>3, <2>1, <2>2, <2>3, <2>4, ClinitStep
  <1>7. CASE ClinitThrows(t)
    <2>1. stack' = [stack EXCEPT ![t] = s] /\ throwing' = t /\ s = stack[t]
          /\ UNCHANGED <<program, classVars, lock, intrVars, fatal, runs>>
      BY <1>2, <1>7 DEF ClinitThrows, Core, TypeOK
    <2>. QED
      BY <1>3, <1>4, <2>1, ClinitStep
  <1>. QED
    BY <1>5, <1>6, <1>7 DEF Clinit

\* Steps that leave the frames of t alone.
LEMMA RestStep ==
    ASSUME Core, NEW t \in Thread, UNCHANGED <<program, classVars, stack, runs>>,
           FrameRuns(stack[t], runs, program.hasClinit, throwing' = t),
           WaitsStep(t, stack[t]), InterruptsStep, ThrowsStep(t, stack[t])
    PROVE  Core'
  <1>1. PICK s2 \in Seq(Frame) : s2 = stack[t]
    BY DEF Core, TypeOK
  <1>2. StackOK(t, s2, initThread, status) /\ stack' = [stack EXCEPT ![t] = s2]
    BY <1>1 DEF Core, StackInv, TypeOK
  <1>. QED
    BY <1>1, <1>2, FramesStep

LEMMA LockClassStep ==
    ASSUME Core, NEW t \in Thread, NEW c \in Class, LockClass(t, c) \/ UnlockClass(t, c)
    PROVE  Core'
  <1>1. /\ Runs(t) /\ UNCHANGED <<program, classVars, stack, intrVars, throwing, fatal, runs>>
    BY DEF LockClass, UnlockClass, AtRest
  <1>2. throwing = NIL /\ ~pendingException[t] /\ ~Waiting(t) /\ t # NIL
        /\ FrameRuns(stack[t], runs, program.hasClinit, FALSE)
    BY <1>1, FramesAre
  <1>3. lock[c] \in Monitor
    BY DEF Core, TypeOK
  <1>4. PICK l \in {OwnedBy(lock[c], t), QueueFor(lock[c], t), Released(lock[c])} :
          lock' = [lock EXCEPT ![c] = l]
    BY DEF LockClass, UnlockClass, SetLock
  <1>5. l \in Monitor /\ l.waitQ = lock[c].waitQ
    BY <1>3, <1>4, MonitorsAre, ReleasedIs
  <1>6. NoMoreWait(lock[c], l)
    BY <1>5 DEF NoMoreWait
  <1>7. LocksKept
    BY <1>4, <1>5, <1>6, LocksKeptWhen DEF Core
  <1>8. throwing' # t
    BY <1>1, <1>2
  <1>9. WaitsStep(t, stack[t]) /\ InterruptsStep
    BY <1>1, <1>2, <1>7, <1>8, NothingNew
  <1>10. ThrowsStep(t, stack[t])
    BY <1>1, <1>2 DEF ThrowsStep
  <1>11. FrameRuns(stack[t], runs, program.hasClinit, throwing' = t)
    BY <1>2, <1>8
  <1>. QED
    BY <1>1, <1>9, <1>10, <1>11, RestStep

-----------------------------------------------------------------------------
(***************************************************************************)
(* Exceptions and interrupts.                                              *)
(***************************************************************************)
\* runClinitException() for a superclass or a <clinit> that failed.
GivesUp(t) ==
    LET c == Top(t).cls IN
    /\ throwing = t /\ stack[t] # << >> /\ Top(t).state \in {4, 5}
    /\ stack' = [stack EXCEPT ![t] = Popped(stack[t])]
    /\ initThread' = [initThread EXCEPT ![c] = NIL]
    /\ status' = [status EXCEPT ![c] = "ERROR"]
    /\ LockTo(t) /\ UNCHANGED <<program, intrVars, throwing, fatal, runs>>

GivesUpFatally(t) ==
    /\ throwing = t /\ TopState(stack[t]) = 2 /\ fatal' = TRUE
    /\ UNCHANGED <<program, classVars, lock, stack, intrVars, throwing, runs>>

LEMMA UnwindRunClinitIs ==
    ASSUME Core, NEW t \in Thread, UnwindRunClinit(t)
    PROVE  GivesUp(t) \/ GivesUpFatally(t)
  <1>. DEFINE c == Top(t).cls
  <1>1. /\ throwing = t /\ stack[t] # << >> /\ Top(t).state # 0
        /\ UNCHANGED <<program, intrVars, throwing, runs>>
    BY DEF UnwindRunClinit
  <1>2. c \in Class /\ lock[c] \in Monitor /\ TopState(stack[t]) = Top(t).state /\ Top(t).state \in State
    BY <1>1, TopTyped DEF Core
  <1>3. Top(t).state \in {2, 4, 5}
    BY <1>1, <1>2 DEF Core, ThrowInv, State
  <1>4. CASE Top(t).state = 2
    BY <1>1, <1>2, <1>4 DEF UnwindRunClinit, ExpectedStates, GivesUpFatally
  <1>5. CASE Top(t).state \in {4, 5}
    <2>1. /\ status' = [status EXCEPT ![c] = "ERROR"]
          /\ initThread' = [initThread EXCEPT ![c] = NIL]
          /\ SetLock(c, IF HasMonitor(lock[c]) /\ lock[c].owner \in {NIL, t}
                        THEN Released(Notified(OwnedBy(lock[c], t)))
                        ELSE lock[c])
          /\ PopFrame(t) /\ UNCHANGED fatal
      BY <1>5 DEF UnwindRunClinit, ExpectedStates
    <2>2. PICK l \in {Released(Notified(OwnedBy(lock[c], t))), lock[c]} : lock' = [lock EXCEPT ![c] = l]
      BY <2>1 DEF SetLock
    <2>3. OwnedBy(lock[c], t) \in Monitor
      BY <1>2, MonitorsAre
    <2>4. Notified(OwnedBy(lock[c], t)) \in Monitor /\ Notified(OwnedBy(lock[c], t)).waitQ = << >>
      BY <2>3, NotifiedIs
    <2>5. l \in Monitor /\ (l.waitQ = << >> \/ l.waitQ = lock[c].waitQ)
      BY <1>2, <2>2, <2>4, ReleasedIs
    <2>6. LockTo(t)
      BY <2>2, <2>5, NoMoreWaitWhen DEF LockTo
    <2>. QED
      BY <1>1, <1>5, <2>1, <2>6 DEF GivesUp, PopFrame
  <1>. QED
    BY <1>3, <1>4, <1>5

LEMMA GivesUpStep ==
    ASSUME Core, NEW t \in Thread, GivesUp(t)
    PROVE  Core'
  <1>1. PICK s \in Seq(Frame), d \in Class : s = stack[t] /\ s # << >> /\ d = Top(t).cls
    BY TopTyped DEF Core, GivesUp
  <1>2. /\ d = s[Len(s)].cls /\ s[Len(s)].state \in {4, 5} /\ Len(s) \in 1..Len(s)
        /\ StackOK(t, s, initThread, status) /\ t # NIL
    BY <1>1, FramesAre, TopTyped DEF GivesUp, Core
  <1>3. Fresh(s, d) /\ initThread[d] = t
    <2>1. Begun(s[Len(s)])
      BY <1>2 DEF Begun
    <2>2. initThread[d] = t
      BY <1>2, <2>1 DEF StackOK, Mine
    <2>. QED
      BY <1>1, <1>2, <2>2, StackFresh
  <1>4. /\ stack' = [stack EXCEPT ![t] = Popped(s)]
        /\ initThread' = [initThread EXCEPT ![d] = NIL]
        /\ status' = [status EXCEPT ![d] = "ERROR"]
        /\ throwing = t
        /\ UNCHANGED <<program, intrVars, throwing, fatal, runs>>
    BY <1>1 DEF GivesUp
  <1>5. /\ lock' \in [Class -> Monitor]
        /\ \A u \in Thread : Waiting(u)' => Waiting(u)
    BY <1>1, NobodyNewWaits DEF Core, GivesUp
  <1>6. Popped(s) \in Seq(Frame) /\ TopState(Popped(s)) \in {0, 4, 5, 7}
    BY <1>1, <1>2, PoppedIs, TopOf DEF StackOK
  <1>7. TypeOK'
    BY <1>4, <1>5, <1>6 DEF Core, TypeOK, intrVars
  <1>8. /\ \A e \in Class : e # d => initThread'[e] = initThread[e] /\ status'[e] = status[e]
        /\ initThread'[d] = NIL /\ status'[d] = "ERROR"
    BY <1>4 DEF Core, TypeOK
  <1>9. StackInv'
    <2>1. PICK it2, st2 : it2 = initThread' /\ st2 = status'
      OBVIOUS
    <2>2. /\ \A e \in Class : e # d => it2[e] = initThread[e]
          /\ \A e \in Class : status[e] # "LINKED" => st2[e] # "LINKED"
      BY <1>8, <2>1
    <2>3. StackOK(t, Popped(s), it2, st2)
      BY <1>1, <1>2, <1>3, <2>2, StackPopOwn
    <2>. QED
      BY <1>3, <1>4, <1>8, <2>1, <2>3, StacksStep DEF Core
  <1>a. ~pendingException[t] /\ ~Waiting(t)
    BY <1>4 DEF Core, ThrowInv
  <1>10. ThrowInv'
    BY <1>4, <1>5, <1>6, <1>a, ThrowStep DEF Core, intrVars
  <1>11. RunsInv'
    <2>1. FrameRuns(s, runs, program.hasClinit, throwing = t)
      BY <1>1 DEF Core, RunsInv
    <2>2. FrameRuns(Popped(s), runs, program.hasClinit, throwing' = t)
      BY <1>1, <2>1, RunsPop
    <2>3. FrameRuns(Popped(s), runs', program.hasClinit, throwing' = t)
      BY <1>4, <2>2
    <2>4. ASSUME NEW e \in Class PROVE ClassRuns(e)'
      <3>1. ClassRuns(e)
        BY DEF Core, RunsInv
      <3>. QED
        BY <1>4, <1>8, <3>1 DEF ClassRuns
    <2>. QED
      BY <1>3, <1>4, <2>3, <2>4, RunsStep DEF Core
  <1>12. ErrorsStay'
    BY <1>4, <1>8 DEF Core, ErrorInv, ErrorsStay, EnoughRoom
  <1>13. NeverInterrupted'
    <2>1. throwing' = t => TopState(Popped(s)) # 2
      BY <1>6
    <2>2. UNCHANGED <<fatal, intrVars>> /\ UNCHANGED program
      BY <1>4
    <2>. QED
      BY <1>4, <2>1, <2>2, NeverInterruptedStep DEF Core, ErrorInv
  <1>. QED
    BY <1>7, <1>9, <1>10, <1>11, <1>12, <1>13 DEF Core, ErrorInv

\* Nobody is interrupted, or this does not matter.
LEMMA WhileThrowing ==
    ASSUME Core, NEW t \in Thread, throwing = t
    PROVE  /\ ~pendingException[t] /\ ~Waiting(t) /\ t # NIL
           /\ TopState(stack[t]) \in {0, 2, 4, 5, 7}
           /\ program.interruptible = {} => TopState(stack[t]) # 2
           /\ FrameRuns(stack[t], runs, program.hasClinit, TRUE)
  <1>1. (throwing = t) = TRUE
    OBVIOUS
  <1>2. FrameRuns(stack[t], runs, program.hasClinit, TRUE)
    BY <1>1 DEF Core, RunsInv
  <1>. QED
    BY <1>2, NothingIsNil DEF Core, ThrowInv, ErrorInv, NeverInterrupted

LEMMA GivesUpFatallyStep ==
    ASSUME Core, NEW t \in Thread, GivesUpFatally(t)
    PROVE  Core'
  <1>1. /\ throwing = t /\ TopState(stack[t]) = 2 /\ fatal' = TRUE
        /\ UNCHANGED <<program, classVars, lock, stack, intrVars, throwing, runs>>
    BY DEF GivesUpFatally
  <1>2. /\ ~pendingException[t] /\ ~Waiting(t) /\ t # NIL
        /\ program.interruptible # {} /\ FrameRuns(stack[t], runs, program.hasClinit, TRUE)
    BY <1>1, WhileThrowing
  <1>3. LocksKept
    BY <1>1, LocksKeptWhen DEF Core
  <1>4. WaitsStep(t, stack[t])
    BY <1>1, <1>2, <1>3 DEF WaitsStep, LocksKept, Core, TypeOK, intrVars
  <1>5. InterruptsStep
    BY <1>1, <1>2 DEF InterruptsStep, Core, TypeOK, intrVars
  <1>6. ThrowsStep(t, stack[t])
    BY <1>1, <1>2 DEF ThrowsStep
  <1>7. (throwing' = t) = TRUE
    BY <1>1
  <1>8. FrameRuns(stack[t], runs, program.hasClinit, throwing' = t)
    BY <1>2, <1>7
  <1>. QED
    BY <1>1, <1>4, <1>5, <1>6, <1>8, RestStep

LEMMA UnwindStep ==
    ASSUME Core, NEW t \in Thread, UnwindClinit(t) \/ UnwindBottom(t)
    PROVE  Core'
  <1>1. PICK s \in Seq(Frame) : s = stack[t]
    BY DEF Core, TypeOK
  <1>2. /\ throwing = t /\ UNCHANGED <<program, classVars, lock, intrVars, fatal, runs>>
    BY DEF UnwindClinit, UnwindBottom
  <1>3. /\ ~pendingException[t] /\ ~Waiting(t) /\ t # NIL
        /\ StackOK(t, s, initThread, status) /\ FrameRuns(s, runs, program.hasClinit, TRUE)
    BY <1>1, <1>2, WhileThrowing, FramesAre
  <1>4. LocksKept
    BY <1>2, LocksKeptWhen DEF Core
  <1>5. \A s2 : WaitsStep(t, s2) /\ InterruptsStep
    BY <1>2, <1>3, <1>4, NothingNew
  <1>6. CASE /\ s # << >> /\ TopState(s) = 0 /\ throwing' = NIL
             /\ stack' = [stack EXCEPT ![t][Len(stack[t])].todo = {}]
    <2>1. stack' = [stack EXCEPT ![t] = WithTodo(s, {})]
      BY <1>1, <1>6 DEF WithTodo
    <2>2. PICK s2 : s2 = WithTodo(s, {})
      OBVIOUS
    <2>3. /\ s2 \in Seq(Frame) /\ Len(s2) = Len(s)
          /\ \A i \in 1..Len(s) : s2[i].cls = s[i].cls /\ s2[i].state = s[i].state
      BY <1>6, <2>2, SameFrames
    <2>4. StackOK(t, s2, initThread, status)
      BY <1>3, <2>3, SameStackOK
    <2>5. FrameRuns(s2, runs, program.hasClinit, throwing' = t)
      BY <1>3, <1>6, <2>3, SameStackOK
    <2>6. ThrowsStep(t, s2)
      BY <1>2, <1>3, <1>6 DEF ThrowsStep
    <2>7. WaitsStep(t, s2) /\ InterruptsStep
      BY <1>5
    <2>. QED
      BY <1>2, <2>1, <2>2, <2>3, <2>4, <2>5, <2>6, <2>7, FramesStep
  <1>7. CASE s # << >> /\ TopState(s) = 0 /\ stack' = [stack EXCEPT ![t] = Popped(s)] /\ UNCHANGED throwing
    <2>1. /\ Popped(s) \in Seq(Frame) /\ StackOK(t, Popped(s), initThread, status)
          /\ TopState(Popped(s)) \in {0, 4, 5, 7}
      BY <1>3, <1>7, PoppedIs, StackPop, TopOf DEF StackOK
    <2>2. FrameRuns(Popped(s), runs, program.hasClinit, throwing' = t)
      BY <1>3, <1>7, RunsPop
    <2>3. ThrowsStep(t, Popped(s))
      BY <1>2, <1>7, <2>1 DEF ThrowsStep
    <2>4. WaitsStep(t, Popped(s)) /\ InterruptsStep
      BY <1>5
    <2>. QED
      BY <1>2, <1>7, <2>1, <2>2, <2>3, <2>4, FramesStep
  <1>8. CASE s = << >> /\ throwing' = NIL /\ UNCHANGED stack
    <2>1. FrameRuns(stack[t], runs, program.hasClinit, throwing' = t)
      BY <1>1, <1>8 DEF FrameRuns
    <2>2. ThrowsStep(t, stack[t])
      BY <1>2, <1>3, <1>8 DEF ThrowsStep
    <2>3. WaitsStep(t, stack[t]) /\ InterruptsStep
      BY <1>5
    <2>. QED
      BY <1>2, <1>8, <2>1, <2>2, <2>3, RestStep
  <1>9. s # << >> => TopState(s) = Top(t).state
    BY <1>1 DEF TopState, Top
  <1>. QED
    BY <1>1, <1>6, <1>7, <1>8, <1>9 DEF UnwindClinit, UnwindBottom, PopFrame

LEMMA ThrowPendingStep ==
    ASSUME Core, NEW t \in Thread, ThrowPending(t)
    PROVE  Core'
  <1>1. /\ throwing = NIL /\ pendingException[t] /\ ~Waiting(t)
        /\ pendingException' = [pendingException EXCEPT ![t] = FALSE] /\ throwing' = t
        /\ UNCHANGED <<program, classVars, lock, stack, isPendingInterrupt, fatal, runs>>
    BY DEF ThrowPending
  <1>2. TopState(stack[t]) = 2 /\ program.interruptible # {} /\ t # NIL
    BY <1>1, NothingIsNil DEF Core, ThrowInv, ErrorInv, NeverInterrupted
  <1>3. LocksKept
    BY <1>1, LocksKeptWhen DEF Core
  <1>4. WaitsStep(t, stack[t])
    BY <1>1, <1>3 DEF WaitsStep, LocksKept, Core, TypeOK
  <1>5. InterruptsStep
    BY <1>1, <1>2 DEF InterruptsStep, Core, TypeOK
  <1>6. ThrowsStep(t, stack[t])
    BY <1>1, <1>2 DEF ThrowsStep
  <1>7. FrameRuns(stack[t], runs, program.hasClinit, FALSE)
    BY <1>1, <1>2, FramesAre
  <1>8. FrameRuns(stack[t], runs, program.hasClinit, throwing' = t)
    BY <1>7 DEF FrameRuns
  <1>. QED
    BY <1>1, <1>4, <1>5, <1>6, <1>8, RestStep

LEMMA RemovedIs ==
    ASSUME NEW q \in Seq(Thread), NEW t
    PROVE  /\ RemoveFromQueue(q, t) \in Seq(Thread)
           /\ \A u \in Thread : InSeq(u, RemoveFromQueue(q, t)) => InSeq(u, q)
  <1>1. CASE t \notin OnQueue(q)
    BY <1>1 DEF RemoveFromQueue
  <1>2. CASE t \in OnQueue(q)
    <2>1. PICK i \in 1..Len(q) : i = IndexOf(q, t)
      BY <1>2 DEF OnQueue, IndexOf
    <2>2. PICK a, b : a = SubSeq(q, 1, i - 1) /\ b = SubSeq(q, i + 1, Len(q))
      OBVIOUS
    <2>3. RemoveFromQueue(q, t) = a \o b
      BY <1>2, <2>1, <2>2 DEF RemoveFromQueue, WithoutIndex
    <2>4. /\ a \in Seq(Thread) /\ Len(a) = i - 1
          /\ \A k \in 1..(i - 1) : a[k] = q[k]
      BY <2>2, SubSeqProperties
    <2>5. /\ b \in Seq(Thread) /\ Len(b) = Len(q) - i
          /\ \A k \in 1..(Len(q) - i) : b[k] = q[i + k]
      BY <2>2, SubSeqProperties
    <2>6. /\ a \o b \in Seq(Thread) /\ Len(a \o b) = Len(a) + Len(b)
          /\ \A k \in 1..(Len(a) + Len(b)) :
               (a \o b)[k] = IF k <= Len(a) THEN a[k] ELSE b[k - Len(a)]
      BY <2>4, <2>5, ConcatProperties
    <2>7. ASSUME NEW k \in 1..(Len(a) + Len(b)) PROVE \E j \in 1..Len(q) : (a \o b)[k] = q[j]
      <3>1. CASE k <= Len(a)
        <4>1. k \in 1..(i - 1) /\ k \in 1..Len(q)
          BY <2>4, <3>1
        <4>. QED
          BY <2>4, <2>6, <3>1, <4>1
      <3>2. CASE ~(k <= Len(a))
        <4>1. k - Len(a) \in 1..(Len(q) - i) /\ i + (k - Len(a)) \in 1..Len(q)
          BY <2>4, <2>5, <3>2
        <4>2. (a \o b)[k] = b[k - Len(a)]
          BY <2>6, <3>2
        <4>. QED
          BY <2>5, <4>1, <4>2
      <3>. QED
        BY <3>1, <3>2
    <2>8. DOMAIN (a \o b) = 1..(Len(a) + Len(b)) /\ DOMAIN q = 1..Len(q)
      BY <2>6
    <2>. QED
      BY <2>3, <2>6, <2>7, <2>8 DEF InSeq
  <1>. QED
    BY <1>1, <1>2

LEMMA InterruptStep ==
    ASSUME Core, NEW t \in Thread, Interrupt(t)
    PROVE  Core'
  <1>1. /\ program.interruptible # {} /\ throwing = NIL /\ t # NIL
        /\ UNCHANGED <<program, classVars, stack, throwing, fatal, runs>>
    BY NothingIsNil DEF Interrupt
  <1>2. ThrowsStep(t, stack[t])
    BY <1>1 DEF ThrowsStep
  <1>3. FrameRuns(stack[t], runs, program.hasClinit, throwing' = t)
    <2>1. FrameRuns(stack[t], runs, program.hasClinit, FALSE)
      BY <1>1, FramesAre
    <2>. QED
      BY <2>1 DEF FrameRuns
  <1>4. CASE /\ isPendingInterrupt' = [isPendingInterrupt EXCEPT ![t] = TRUE]
             /\ UNCHANGED <<lock, pendingException>>
    <2>1. LocksKept
      BY <1>4, LocksKeptWhen DEF Core
    <2>2. WaitsStep(t, stack[t])
      BY <1>1, <1>4, <2>1 DEF WaitsStep, LocksKept, Core, TypeOK, ThrowInv
    <2>3. InterruptsStep
      BY <1>1, <1>4 DEF InterruptsStep, Core, TypeOK
    <2>. QED
      BY <1>1, <1>2, <1>3, <2>2, <2>3, RestStep
  <1>5. ASSUME NEW c \in Class, InSeq(t, lock[c].waitQ),
               LET l == [lock[c] EXCEPT !.waitQ = RemoveFromQueue(@, t)]
               IN  SetLock(c, IF l.owner = NIL THEN OwnedBy(l, t) ELSE QueueFor(l, t)),
               pendingException' = [pendingException EXCEPT ![t] = TRUE],
               UNCHANGED isPendingInterrupt
        PROVE  Core'
    <2>1. PICK q : q = RemoveFromQueue(lock[c].waitQ, t)
      OBVIOUS
    <2>2. PICK l : l = [lock[c] EXCEPT !.waitQ = q]
      OBVIOUS
    <2>3. lock[c] \in Monitor /\ lock[c].waitQ \in Seq(Thread)
      BY MonitorIs DEF Core, TypeOK
    <2>4. q \in Seq(Thread) /\ \A u \in Thread : InSeq(u, q) => InSeq(u, lock[c].waitQ)
      BY <2>1, <2>3, RemovedIs
    <2>5. l \in Monitor /\ l.waitQ = q
      BY <2>2, <2>3, <2>4 DEF Monitor
    <2>6. PICK k \in {OwnedBy(l, t), QueueFor(l, t)} : lock' = [lock EXCEPT ![c] = k]
      BY <1>5, <2>1, <2>2 DEF SetLock
    <2>7. k \in Monitor /\ k.waitQ = q
      BY <2>5, <2>6, MonitorsAre
    <2>8. LocksKept
      BY <2>4, <2>6, <2>7, LocksKeptWhen DEF Core, NoMoreWait
    <2>9. Waiting(t) /\ TopState(stack[t]) = 2
      BY <1>5 DEF Core, ThrowInv, Waiting
    <2>10. WaitsStep(t, stack[t])
      BY <1>1, <1>5, <2>8, <2>9 DEF WaitsStep, LocksKept, Core, TypeOK
    <2>11. InterruptsStep
      BY <1>1, <1>5 DEF InterruptsStep, Core, TypeOK
    <2>. QED
      BY <1>1, <1>2, <1>3, <2>10, <2>11, RestStep
  <1>. QED
    BY <1>4, <1>5 DEF Interrupt

-----------------------------------------------------------------------------
LEMMA CoreInit == Init => Core
  <1>. SUFFICES ASSUME Init PROVE Core
    OBVIOUS
  <1>1. /\ program \in Programs
        /\ \A c \in Class : /\ status[c] = "LINKED" /\ initThread[c] = NIL /\ runs[c] = 0
                            /\ lock[c] = [owner |-> NIL, entryQ |-> << >>, waitQ |-> << >>]
        /\ \A t \in Thread : /\ stack[t] = << >> /\ ~pendingException[t] /\ ~isPendingInterrupt[t]
        /\ throwing = NIL /\ fatal = FALSE
    BY DEF Init
  <1>2. << >> \in Seq(Frame) /\ [owner |-> NIL, entryQ |-> << >>, waitQ |-> << >>] \in Monitor
    BY DEF Monitor
  <1>3. TypeOK
    BY <1>2 DEF Init, TypeOK
  <1>4. \A c \in Class : lock[c].waitQ = << >>
    BY <1>1
  <1>5. \A t \in Thread : ~Waiting(t) /\ throwing # t
    BY <1>1, <1>4, NothingIsNil DEF Waiting, InSeq
  <1>6. StackInv
    BY <1>1 DEF StackInv, StackOK, CallersBegun, BegunOnce, Mine, Verified
  <1>7. ThrowInv
    BY <1>1, <1>5 DEF ThrowInv
  <1>8. RunsInv
    BY <1>1 DEF RunsInv, ClassRuns, FrameRuns
  <1>9. ErrorInv
    BY <1>1, <1>5 DEF ErrorInv, ErrorsStay, NeverInterrupted
  <1>. QED
    BY <1>3, <1>6, <1>7, <1>8, <1>9 DEF Core

LEMMA CoreSame == ASSUME Core, UNCHANGED vars PROVE Core'
  BY DEF Core, TypeOK, StackInv, ThrowInv, RunsInv, ClassRuns, ErrorInv, ErrorsStay, EnoughRoom,
         NeverInterrupted, Waiting, vars, classVars, intrVars

LEMMA CoreStep == Core /\ [Next]_vars => Core'
  <1>. SUFFICES ASSUME Core, [Next]_vars PROVE Core'
    OBVIOUS
  <1>1. CASE UNCHANGED vars
    BY <1>1, CoreSame
  <1>2. ASSUME NEW t \in Thread, Continue(t) PROVE Core'
    <2>1. CASE Unwind(t)
      BY <2>1, UnwindRunClinitIs, GivesUpStep, GivesUpFatallyStep, UnwindStep DEF Unwind
    <2>. QED
      BY <1>2, <2>1, RunClinitStep, ClinitActions, ThrowPendingStep DEF Continue
  <1>. QED
    BY <1>1, <1>2, InterruptStep, TouchStep, LockClassStep DEF Next

-----------------------------------------------------------------------------
(***************************************************************************)
(* Programs that neither interrupt nor lock class objects: what happens to *)
(* the monitors.                                                           *)
(***************************************************************************)
\* Nobody but t comes to the monitor or is lost from it.
SamePeople(t, l, k) ==
    \A u \in Thread : u # t =>
        /\ InQueue(u, k) => InQueue(u, l)
        /\ InQueue(u, l) \/ l.owner = u => InQueue(u, k) \/ k.owner = u

LEMMA InHead ==
    ASSUME NEW q \in Seq(Thread), q # << >>, NEW u
    PROVE  InSeq(u, q) <=> u = Head(q) \/ InSeq(u, Tail(q))
  <1>1. /\ Tail(q) \in Seq(Thread) /\ Len(q) \in Nat \ {0} /\ Len(Tail(q)) = Len(q) - 1
        /\ \A i \in 1..(Len(q) - 1) : Tail(q)[i] = q[i + 1]
        /\ Head(q) = q[1] /\ DOMAIN q = 1..Len(q)
    OBVIOUS
  <1>2. DOMAIN Tail(q) = 1..(Len(q) - 1)
    BY <1>1
  <1>3. ASSUME NEW i \in 1..Len(q), q[i] = u PROVE u = Head(q) \/ InSeq(u, Tail(q))
    <2>1. CASE i = 1
      BY <1>1, <1>3, <2>1
    <2>2. CASE i # 1
      <3>1. i - 1 \in 1..(Len(q) - 1) /\ (i - 1) + 1 = i
        BY <1>1, <2>2
      <3>2. Tail(q)[i - 1] = u
        BY <1>1, <1>3, <3>1
      <3>. QED
        BY <1>2, <3>1, <3>2 DEF InSeq
    <2>. QED
      BY <2>1, <2>2
  <1>4. ASSUME u = Head(q) PROVE InSeq(u, q)
    <2>1. 1 \in DOMAIN q
      BY <1>1
    <2>. QED
      BY <1>1, <1>4, <2>1 DEF InSeq
  <1>5. ASSUME NEW i \in 1..(Len(q) - 1), Tail(q)[i] = u PROVE InSeq(u, q)
    <2>1. i + 1 \in 1..Len(q) /\ q[i + 1] = u
      BY <1>1, <1>5
    <2>. QED
      BY <1>1, <2>1 DEF InSeq
  <1>6. InSeq(u, q) => u = Head(q) \/ InSeq(u, Tail(q))
    BY <1>1, <1>3 DEF InSeq
  <1>7. InSeq(u, Tail(q)) => InSeq(u, q)
    BY <1>2, <1>5 DEF InSeq
  <1>. QED
    BY <1>4, <1>6, <1>7

LEMMA InAppended ==
    ASSUME NEW q \in Seq(Thread), NEW t \in Thread, NEW u
    PROVE  InSeq(u, Append(q, t)) <=> InSeq(u, q) \/ u = t
  <1>1. /\ Append(q, t) \in Seq(Thread) /\ Len(Append(q, t)) = Len(q) + 1 /\ Len(q) \in Nat
        /\ \A i \in 1..Len(q) : Append(q, t)[i] = q[i]
        /\ Append(q, t)[Len(q) + 1] = t
    OBVIOUS
  <1>a. PICK p \in Seq(Thread) : p = Append(q, t)
    BY <1>1
  <1>2. PICK n \in Nat : p = Append(q, t) /\ n = Len(q)
    BY <1>1, <1>a
  <1>3. /\ DOMAIN p = 1..(n + 1) /\ DOMAIN q = 1..n
        /\ \A i \in 1..n : p[i] = q[i]
        /\ p[n + 1] = t
    BY <1>1, <1>2
  <1>4. \A i \in 1..(n + 1) : i \in 1..n \/ i = n + 1
    OBVIOUS
  <1>5. n + 1 \in 1..(n + 1) /\ \A i \in 1..n : i \in 1..(n + 1)
    OBVIOUS
  <1>6. InSeq(u, p) <=> InSeq(u, q) \/ u = t
    BY <1>3, <1>4, <1>5 DEF InSeq
  <1>. QED
    BY <1>2, <1>6

LEMMA NobodyIn == \A u : ~InSeq(u, << >>)
  BY DEF InSeq

\* t leaves the monitor it has taken.
LEMMA ReleasedPeople ==
    ASSUME NEW l \in Monitor, NEW t \in Thread, l.owner = t, l.waitQ = << >>
    PROVE  /\ Released(l) \in Monitor /\ SamePeople(t, l, Released(l))
           /\ Released(l).waitQ = << >>
           /\ Released(l).owner = NIL => Released(l).entryQ = << >>
           /\ InQueue(t, Released(l)) => InQueue(t, l)
  <1>1. l.entryQ \in Seq(Thread) /\ NIL \notin Thread
    BY MonitorIs, NothingIsNil
  <1>2. CASE l.entryQ = << >>
    BY <1>2, ReleasedIs, NobodyIn DEF SamePeople, InQueue
  <1>3. CASE l.entryQ # << >>
    <2>1. /\ Released(l).owner = Head(l.entryQ) /\ Released(l).entryQ = Tail(l.entryQ)
          /\ Head(l.entryQ) \in Thread /\ Released(l) \in Monitor /\ Released(l).waitQ = << >>
      BY <1>3, ReleasedIs
    <2>2. \A u : InSeq(u, l.entryQ) <=> u = Head(l.entryQ) \/ InSeq(u, Tail(l.entryQ))
      BY <1>1, <1>3, InHead
    <2>. QED
      BY <1>1, <2>1, <2>2, NobodyIn DEF SamePeople, InQueue
  <1>. QED
    BY <1>2, <1>3

\* t takes a free monitor for a moment.
LEMMA TakenPeople ==
    ASSUME NEW l \in Monitor, NEW t \in Thread, l.owner = NIL, l.entryQ = << >>,
           NEW k, k = Released(OwnedBy(l, t))
    PROVE  k \in Monitor /\ k.owner = NIL /\ k.entryQ = << >> /\ k.waitQ = l.waitQ
  <1>1. PICK n \in Monitor : n = OwnedBy(l, t) /\ n.entryQ = << >> /\ n.waitQ = l.waitQ
    BY MonitorsAre
  <1>. QED
    BY <1>1, ReleasedIs

\* Everybody who waits is let in.
LEMMA NotifiedPeople ==
    ASSUME NEW l \in Monitor, NEW t \in Thread, l.owner = NIL, l.entryQ = << >>,
           NEW k, k = Released(Notified(OwnedBy(l, t)))
    PROVE  /\ k \in Monitor /\ SamePeople(t, l, k) /\ k.waitQ = << >>
           /\ k.owner = NIL => k.entryQ = << >>
           /\ InQueue(t, k) => InQueue(t, l)
  <1>1. PICK n : n = Notified(OwnedBy(l, t))
    OBVIOUS
  <1>2. l.waitQ \in Seq(Thread) /\ NIL \notin Thread
    BY MonitorIs, NothingIsNil
  <1>3. OwnedBy(l, t) \in Monitor /\ OwnedBy(l, t).entryQ = << >> /\ OwnedBy(l, t).waitQ = l.waitQ
    BY MonitorsAre
  <1>4. << >> \o l.waitQ = l.waitQ
    BY <1>2
  <1>5. n \in Monitor /\ n.entryQ = l.waitQ /\ n.waitQ = << >>
    BY <1>1, <1>3, <1>4, NotifiedIs
  <1>6. k = Released(n)
    BY <1>1
  <1>7. CASE l.waitQ = << >>
    BY <1>2, <1>5, <1>6, <1>7, ReleasedIs, NobodyIn, NothingIsNil DEF SamePeople, InQueue
  <1>8. CASE l.waitQ # << >>
    <2>1. /\ k.owner = Head(l.waitQ) /\ k.entryQ = Tail(l.waitQ) /\ Head(l.waitQ) \in Thread
          /\ k \in Monitor /\ k.waitQ = << >>
      BY <1>5, <1>6, <1>8, ReleasedIs
    <2>2. \A u : InSeq(u, l.waitQ) <=> u = Head(l.waitQ) \/ InSeq(u, Tail(l.waitQ))
      BY <1>2, <1>8, InHead
    <2>3. \A u \in Thread : l.owner # u
      BY <1>2
    <2>. QED
      BY <1>2, <2>1, <2>2, <2>3, NobodyIn DEF SamePeople, InQueue
  <1>. QED
    BY <1>7, <1>8

LEMMA WaitedPeople ==
    ASSUME NEW l \in Monitor, NEW t \in Thread, l.owner = NIL, l.entryQ = << >>,
           NEW k, k = Waited(OwnedBy(l, t), t)
    PROVE  /\ k \in Monitor /\ SamePeople(t, l, k) /\ k.owner = NIL /\ k.entryQ = << >>
           /\ InQueue(t, k)
  <1>1. OwnedBy(l, t) \in Monitor /\ OwnedBy(l, t).entryQ = << >> /\ OwnedBy(l, t).waitQ = l.waitQ
    BY MonitorsAre
  <1>2. k \in Monitor /\ k.waitQ = Append(l.waitQ, t) /\ k.owner = NIL /\ k.entryQ = << >>
    BY <1>1, WaitedIs
  <1>3. l.waitQ \in Seq(Thread)
    BY MonitorIs
  <1>4. \A u : InSeq(u, Append(l.waitQ, t)) <=> InSeq(u, l.waitQ) \/ u = t
    BY <1>3, InAppended
  <1>. QED
    BY <1>2, <1>4, NobodyIn, NothingIsNil DEF SamePeople, InQueue

LEMMA QueuedPeople ==
    ASSUME NEW l \in Monitor, NEW t \in Thread
    PROVE  /\ QueueFor(l, t) \in Monitor /\ SamePeople(t, l, QueueFor(l, t))
           /\ QueueFor(l, t).owner = l.owner /\ QueueFor(l, t).waitQ = l.waitQ
           /\ InQueue(t, QueueFor(l, t))
  <1>1. /\ QueueFor(l, t) \in Monitor /\ QueueFor(l, t).owner = l.owner
        /\ QueueFor(l, t).entryQ = Append(l.entryQ, t) /\ QueueFor(l, t).waitQ = l.waitQ
    BY MonitorsAre
  <1>2. l.entryQ \in Seq(Thread)
    BY MonitorIs
  <1>3. \A u : InSeq(u, Append(l.entryQ, t)) <=> InSeq(u, l.entryQ) \/ u = t
    BY <1>2, InAppended
  <1>. QED
    BY <1>1, <1>3 DEF SamePeople, InQueue

Settled == {"READY", "ERROR"}

\* t's frames become s2 and the monitor of c becomes k.
LEMMA FitsKept ==
    ASSUME TypeOK, Fits(lock, stack, initThread, status), NEW t \in Thread, NEW c \in Class,
           NEW s2, NEW k, NEW it2, NEW st2,
           SamePeople(t, lock[c], k), MonitorFits(k, it2[c], st2[c]),
           \A d \in Class : d # c => it2[d] = initThread[d],
           \A d \in Class : status[d] \in Settled => st2[d] \in Settled,
           TopState(s2) # 6,
           InQueue(t, k) => LooksAt(s2, c),
           LooksAt(s2, c) => InQueue(t, k) \/ k.owner = t,
           \A d \in Class : d # c => ~LooksAt(s2, d) /\ ~InQueue(t, lock[d])
    PROVE  Fits([lock EXCEPT ![c] = k], [stack EXCEPT ![t] = s2], it2, st2)
  <1>1. PICK lk, sk : lk = [lock EXCEPT ![c] = k] /\ sk = [stack EXCEPT ![t] = s2]
    OBVIOUS
  <1>2. /\ lk[c] = k /\ \A d \in Class : d # c => lk[d] = lock[d]
        /\ sk[t] = s2 /\ \A u \in Thread : u # t => sk[u] = stack[u]
    BY <1>1 DEF TypeOK
  <1>3. ASSUME NEW d \in Class PROVE MonitorFits(lk[d], it2[d], st2[d])
    <2>1. CASE d = c
      BY <1>2, <2>1
    <2>2. CASE d # c
      <3>1. MonitorFits(lock[d], initThread[d], status[d])
        BY DEF Fits
      <3>. QED
        BY <1>2, <2>2, <3>1 DEF MonitorFits, Settled
    <2>. QED
      BY <2>1, <2>2
  <1>4. ASSUME NEW d \in Class, NEW u \in Thread
        PROVE  /\ InQueue(u, lk[d]) => LooksAt(sk[u], d)
               /\ LooksAt(sk[u], d) => InQueue(u, lk[d]) \/ lk[d].owner = u
    <2>1. /\ InQueue(u, lock[d]) => LooksAt(stack[u], d)
          /\ LooksAt(stack[u], d) => InQueue(u, lock[d]) \/ lock[d].owner = u
      BY DEF Fits
    <2>2. CASE u = t /\ d = c
      BY <1>2, <2>2
    <2>3. CASE u = t /\ d # c
      BY <1>2, <2>3
    <2>4. CASE u # t /\ d # c
      BY <1>2, <2>1, <2>4
    <2>5. CASE u # t /\ d = c
      <3>1. /\ InQueue(u, k) => InQueue(u, lock[c])
            /\ InQueue(u, lock[c]) \/ lock[c].owner = u => InQueue(u, k) \/ k.owner = u
        BY <2>5 DEF SamePeople
      <3>. QED
        BY <1>2, <2>1, <2>5, <3>1
    <2>. QED
      BY <2>2, <2>3, <2>4, <2>5
  <1>5. ASSUME NEW u \in Thread PROVE TopState(sk[u]) # 6
    BY <1>2 DEF Fits
  <1>6. Fits(lk, sk, it2, st2)
    BY <1>3, <1>4, <1>5 DEF Fits
  <1>. QED
    BY <1>1, <1>6

\* Only the frames of t change, which is not looking at a class.
LEMMA FitsSame ==
    ASSUME TypeOK, Fits(lock, stack, initThread, status), NEW t \in Thread, NEW s2,
           stack' = [stack EXCEPT ![t] = s2], UNCHANGED <<lock, initThread>>,
           \A d \in Class : status[d] \in Settled => status'[d] \in Settled,
           TopState(stack[t]) # 2, TopState(s2) \notin {2, 6}
    PROVE  Fits(lock, stack, initThread, status)'
  <1>1. PICK st2 : st2 = status'
    OBVIOUS
  <1>2. PICK sk : sk = stack'
    OBVIOUS
  <1>3. sk[t] = s2 /\ \A u \in Thread : u # t => sk[u] = stack[u]
    BY <1>2 DEF TypeOK
  <1>4. \A d \in Class : ~LooksAt(s2, d) /\ ~LooksAt(stack[t], d)
    BY DEF LooksAt
  <1>5. \A d \in Class : status[d] \in Settled => st2[d] \in Settled
    BY <1>1
  <1>6. ASSUME NEW d \in Class PROVE MonitorFits(lock[d], initThread[d], st2[d])
    BY <1>5 DEF Fits, MonitorFits, Settled
  <1>7. ASSUME NEW d \in Class, NEW u \in Thread
        PROVE  /\ InQueue(u, lock[d]) => LooksAt(sk[u], d)
               /\ LooksAt(sk[u], d) => InQueue(u, lock[d]) \/ lock[d].owner = u
    <2>1. /\ InQueue(u, lock[d]) => LooksAt(stack[u], d)
          /\ LooksAt(stack[u], d) => InQueue(u, lock[d]) \/ lock[d].owner = u
      BY DEF Fits
    <2>. QED
      BY <1>3, <1>4, <2>1
  <1>8. ASSUME NEW u \in Thread PROVE TopState(sk[u]) # 6
    BY <1>3 DEF Fits
  <1>9. Fits(lock, sk, initThread, st2)
    BY <1>6, <1>7, <1>8 DEF Fits
  <1>. QED
    BY <1>1, <1>2, <1>9

Calm == Quiet /\ Fits(lock, stack, initThread, status)

SettledStay == \A d \in Class : status[d] \in Settled => status'[d] \in Settled

LEMMA CallKeeps ==
    ASSUME TypeOK, NEW t \in Thread, NEW s \in Seq(Frame), NEW c \in Class,
           TopState(s) \notin {2, 6}, InitializeClass(t, s, c)
    PROVE  /\ SettledStay
           /\ \E s2 : stack' = [stack EXCEPT ![t] = s2] /\ TopState(s2) \notin {2, 6}
  <1>1. PICK f \in Frame : f = [cls |-> c, state |-> 1, todo |-> {}]
    BY DEF Frame, State
  <1>2. TopState(Append(s, f)) = 1
    BY <1>1, TopOf
  <1>3. PICK s2 \in {s, Append(s, f)} : stack' = [stack EXCEPT ![t] = s2]
    BY <1>1 DEF InitializeClass, Throws, PushFrame
  <1>a. TopState(s2) \notin {2, 6}
    <2>1. CASE s2 = s
      BY <2>1
    <2>2. CASE s2 = Append(s, f)
      BY <1>2, <2>2
    <2>. QED
      BY <1>3, <2>1, <2>2
  <1>b. SettledStay
    <2>1. CASE UNCHANGED status
      BY <2>1 DEF SettledStay
    <2>2. CASE status[c] \in {"LINKED", "VERIFIED"} /\ \E n : status' = [status EXCEPT ![c] = n]
      <3>1. \A d \in Class : d # c => status'[d] = status[d]
        BY <2>2 DEF TypeOK
      <3>. QED
        BY <2>2, <3>1 DEF SettledStay, Settled
    <2>. QED
      BY <2>1, <2>2 DEF InitializeClass
  <1>. QED
    BY <1>3, <1>a, <1>b

LEMMA NotQueued ==
    ASSUME Core, Calm, NEW t \in Thread, Runs(t) \/ throwing = t
    PROVE  \A d \in Class : ~InQueue(t, lock[d])
  <1>1. CASE Runs(t)
    BY <1>1 DEF Runs, Waiting, Queued, InQueue
  <1>2. CASE throwing = t
    <2>1. TopState(stack[t]) # 2
      BY <1>2, WhileThrowing DEF Calm, Quiet
    <2>. QED
      BY <2>1 DEF Calm, Fits, LooksAt
  <1>. QED
    BY <1>1, <1>2

\* What may be said of a thread that goes on with the frame on top.
LEMMA AtTop ==
    ASSUME Core, Calm, NEW t \in Thread, Runs(t) \/ throwing = t, stack[t] # << >>
    PROVE  /\ Top(t).cls \in Class /\ lock[Top(t).cls] \in Monitor
           /\ TopState(stack[t]) = Top(t).state /\ stack[t] \in Seq(Frame)
           /\ MonitorFits(lock[Top(t).cls], initThread[Top(t).cls], status[Top(t).cls])
           /\ \A d \in Class : ~InQueue(t, lock[d])
           /\ TopState(Popped(stack[t])) \in {0, 4, 5, 7}
           /\ t # NIL
           /\ Top(t).state \in {4, 5, 6} => initThread[Top(t).cls] = t
  <1>1. /\ Top(t).cls \in Class /\ lock[Top(t).cls] \in Monitor
        /\ TopState(stack[t]) = Top(t).state /\ stack[t] \in Seq(Frame)
        /\ Top(t) = stack[t][Len(stack[t])] /\ Len(stack[t]) \in 1..Len(stack[t])
    BY TopTyped DEF Core
  <1>2. StackOK(t, stack[t], initThread, status) /\ t # NIL
    BY FramesAre
  <1>3. TopState(Popped(stack[t])) \in {0, 4, 5, 7}
    BY <1>1, <1>2, TopOf DEF StackOK
  <1>4. Top(t).state \in {4, 5, 6} => initThread[Top(t).cls] = t
    BY <1>1, <1>2 DEF StackOK, Mine, Begun
  <1>5. MonitorFits(lock[Top(t).cls], initThread[Top(t).cls], status[Top(t).cls])
    BY <1>1 DEF Calm, Fits
  <1>. QED
    BY <1>1, <1>2, <1>3, <1>4, <1>5, NotQueued

\* t leaves its class ready or failed, and lets those in who wait.
LEMMA UnmarksFits ==
    ASSUME Core, Calm, NEW t \in Thread, Runs(t) \/ throwing = t, stack[t] # << >>,
           NEW c, c = Top(t).cls, lock[c].owner = NIL, NEW n \in Settled, NEW k,
           (k = lock[c] /\ lock[c].waitQ = << >>) \/ k = Released(Notified(OwnedBy(lock[c], t))),
           stack' = [stack EXCEPT ![t] = Popped(stack[t])],
           initThread' = [initThread EXCEPT ![c] = NIL],
           status' = [status EXCEPT ![c] = n],
           lock' = [lock EXCEPT ![c] = k]
    PROVE  Fits(lock, stack, initThread, status)'
  <1>1. /\ c \in Class /\ lock[c] \in Monitor
        /\ MonitorFits(lock[c], initThread[c], status[c])
        /\ \A d \in Class : ~InQueue(t, lock[d])
        /\ TopState(Popped(stack[t])) \in {0, 4, 5, 7}
    BY AtTop
  <1>2. lock[c].entryQ = << >>
    BY <1>1 DEF MonitorFits
  <1>3. /\ SamePeople(t, lock[c], k) /\ k.waitQ = << >>
        /\ k.owner = NIL => k.entryQ = << >>
        /\ InQueue(t, k) => InQueue(t, lock[c])
    <2>1. CASE k = lock[c] /\ lock[c].waitQ = << >>
      BY <1>2, <2>1 DEF SamePeople
    <2>2. CASE k = Released(Notified(OwnedBy(lock[c], t)))
      BY <1>1, <1>2, <2>2, NotifiedPeople
    <2>. QED
      BY <2>1, <2>2
  <1>4. PICK s2, it2, st2 : s2 = Popped(stack[t]) /\ it2 = initThread' /\ st2 = status'
    OBVIOUS
  <1>5. /\ it2[c] = NIL /\ st2[c] \in Settled
        /\ \A d \in Class : d # c => it2[d] = initThread[d] /\ st2[d] = status[d]
    BY <1>1, <1>4 DEF Core, TypeOK
  <1>6. MonitorFits(k, it2[c], st2[c])
    BY <1>3, <1>5 DEF MonitorFits, Settled
  <1>7. \A d \in Class : status[d] \in Settled => st2[d] \in Settled
    BY <1>5
  <1>8. TopState(s2) # 6 /\ \A d : ~LooksAt(s2, d)
    BY <1>1, <1>4 DEF LooksAt
  <1>9. ~InQueue(t, k)
    BY <1>1, <1>3
  <1>a. TypeOK /\ Fits(lock, stack, initThread, status)
    BY DEF Core, Calm
  <1>b. \A d \in Class : d # c => it2[d] = initThread[d]
    BY <1>5
  <1>10. Fits([lock EXCEPT ![c] = k], [stack EXCEPT ![t] = s2], it2, st2)
    BY <1>1, <1>3, <1>6, <1>7, <1>8, <1>9, <1>a, <1>b, FitsKept
  <1>. QED
    BY <1>4, <1>10

LEMMA AfterClinitFits ==
    ASSUME Core, Calm, NEW t \in Thread, Runs(t), stack[t] # << >>,
           NEW c, c = Top(t).cls, lock[c].owner = NIL, AfterClinit(t, c, lock[c])
    PROVE  Fits(lock, stack, initThread, status)'
  <1>1. MonitorFits(lock[c], initThread[c], status[c])
    BY AtTop
  <1>2. PICK k : UnmarkClass(t, c, k)
                 /\ ((k = lock[c] /\ lock[c].waitQ = << >>)
                        \/ k = Released(Notified(OwnedBy(lock[c], t))))
    BY <1>1 DEF AfterClinit, HasMonitor
  <1>3. /\ stack' = [stack EXCEPT ![t] = Popped(stack[t])]
        /\ initThread' = [initThread EXCEPT ![c] = NIL]
        /\ status' = [status EXCEPT ![c] = "READY"]
        /\ lock' = [lock EXCEPT ![c] = k]
    BY <1>2 DEF UnmarkClass, PopFrame, SetLock
  <1>. QED
    BY <1>2, <1>3, UnmarksFits DEF Settled

\* The class becomes t's own, or stays so.
LEMMA BeginsFits ==
    ASSUME Core, Calm, NEW t \in Thread, Runs(t), stack[t] # << >>,
           NEW c, c = Top(t).cls, lock[c].owner = NIL,
           NEW s2, TopState(s2) \notin {2, 6}, stack' = [stack EXCEPT ![t] = s2],
           initThread' = [initThread EXCEPT ![c] = t], SettledStay, lock' = [lock EXCEPT ![c] = lock[c]]
    PROVE  Fits(lock, stack, initThread, status)'
  <1>1. /\ c \in Class /\ lock[c] \in Monitor
        /\ MonitorFits(lock[c], initThread[c], status[c])
        /\ \A d \in Class : ~InQueue(t, lock[d]) /\ t # NIL
    BY AtTop
  <1>2. PICK it2, st2, k : it2 = initThread' /\ st2 = status' /\ k = lock[c]
    OBVIOUS
  <1>3. it2[c] = t /\ \A d \in Class : d # c => it2[d] = initThread[d]
    BY <1>1, <1>2 DEF Core, TypeOK
  <1>4. MonitorFits(k, it2[c], st2[c])
    BY <1>1, <1>2, <1>3 DEF MonitorFits
  <1>5. \A d \in Class : status[d] \in Settled => st2[d] \in Settled
    BY <1>2 DEF SettledStay
  <1>6. \A d : ~LooksAt(s2, d)
    BY DEF LooksAt
  <1>7. SamePeople(t, lock[c], k)
    BY <1>2 DEF SamePeople
  <1>8. TypeOK /\ Fits(lock, stack, initThread, status) /\ TopState(s2) # 6 /\ ~InQueue(t, k)
    BY <1>1, <1>2 DEF Core, Calm
  <1>9. Fits([lock EXCEPT ![c] = k], [stack EXCEPT ![t] = s2], it2, st2)
    BY <1>1, <1>3, <1>4, <1>5, <1>6, <1>7, <1>8, FitsKept
  <1>. QED
    BY <1>2, <1>9

LEMMA RunBodyFits ==
    ASSUME Core, Calm, NEW t \in Thread, Runs(t), stack[t] # << >>,
           NEW c, c = Top(t).cls, lock[c].owner = NIL, RunBody(t, c, lock[c])
    PROVE  Fits(lock, stack, initThread, status)'
  <1>1. CASE c \notin program.hasClinit
    BY <1>1, AfterClinitFits DEF RunBody
  <1>2. CASE c \in program.hasClinit
    <2>. 5 \in State /\ 0 \in State
      BY DEF State
    <2>1. stack[t] \in Seq(Frame) /\ c \in Class
      BY AtTop
    <2>2. PICK w \in Seq(Frame) : w = WithState(stack[t], 5) /\ TopState(w) = 5
      BY <2>1, WithStateIs, TopOf
    <2>3. PICK f \in Frame : f = [cls |-> c, state |-> 0, todo |-> program.uses[c]]
      BY <2>1, ProgramTyped DEF Frame, Core
    <2>4. TopState(Append(w, f)) = 0
      BY <2>3, TopOf
    <2>5. PICK s2 \in {w, Append(w, f)} : stack' = [stack EXCEPT ![t] = s2]
      BY <1>2, <2>2, <2>3 DEF RunBody, PushFrame
    <2>6. TopState(s2) \notin {2, 6}
      <3>1. CASE s2 = w
        BY <2>2, <3>1
      <3>2. CASE s2 = Append(w, f)
        BY <2>4, <3>2
      <3>. QED
        BY <2>5, <3>1, <3>2
    <2>7. /\ initThread' = [initThread EXCEPT ![c] = t] /\ lock' = [lock EXCEPT ![c] = lock[c]]
          /\ SettledStay
      BY <1>2 DEF RunBody, SetLock, SettledStay
    <2>. QED
      BY <2>5, <2>6, <2>7, BeginsFits
  <1>. QED
    BY <1>1, <1>2

LEMMA MarkClassFits ==
    ASSUME Core, Calm, NEW t \in Thread, Runs(t), stack[t] # << >>, Top(t).state \in {1, 2},
           NEW c, c = Top(t).cls, NEW k, MarkClass(t, c, k),
           \/ k = lock[c] /\ lock[c].owner = NIL
           \/ k = Released(lock[c]) /\ lock[c].owner = t
    PROVE  Fits(lock, stack, initThread, status)'
  <1>1. /\ c \in Class /\ lock[c] \in Monitor
        /\ MonitorFits(lock[c], initThread[c], status[c])
        /\ \A d \in Class : ~InQueue(t, lock[d]) /\ t # NIL
        /\ TopState(Popped(stack[t])) \in {0, 4, 5, 7} /\ stack[t] \in Seq(Frame)
    BY AtTop
  <1>2. CASE initThread[c] = t \/ status[c] \in {"READY", "ERROR"}
    <2>1. /\ stack' = [stack EXCEPT ![t] = Popped(stack[t])] /\ lock' = [lock EXCEPT ![c] = k]
          /\ UNCHANGED classVars
      BY <1>2 DEF MarkClass, PopFrame, SetLock
    <2>2. /\ SamePeople(t, lock[c], k) /\ ~InQueue(t, k)
          /\ MonitorFits(k, initThread[c], status[c])
      <3>1. CASE k = lock[c]
        BY <1>1, <3>1 DEF SamePeople
      <3>2. CASE k = Released(lock[c]) /\ lock[c].owner = t
        <4>1. lock[c].waitQ = << >> /\ initThread[c] = NIL /\ status[c] \in {"READY", "ERROR"}
          BY <1>1, <3>2 DEF MonitorFits
        <4>2. PICK l \in Monitor : l = lock[c] /\ l.owner = t /\ l.waitQ = << >>
          BY <1>1, <3>2, <4>1
        <4>3. /\ SamePeople(t, l, Released(l)) /\ Released(l).waitQ = << >>
              /\ Released(l).owner = NIL => Released(l).entryQ = << >>
              /\ InQueue(t, Released(l)) => InQueue(t, l)
          BY <4>2, ReleasedPeople
        <4>. QED
          BY <1>1, <3>2, <4>1, <4>2, <4>3 DEF MonitorFits
      <3>. QED
        BY <3>1, <3>2
    <2>3. PICK s2, it2, st2 : s2 = Popped(stack[t]) /\ it2 = initThread /\ st2 = status
      OBVIOUS
    <2>4. TopState(s2) # 6 /\ \A d : ~LooksAt(s2, d)
      BY <1>1, <2>3 DEF LooksAt
    <2>5. /\ TypeOK /\ Fits(lock, stack, initThread, status)
          /\ MonitorFits(k, it2[c], st2[c])
          /\ \A d \in Class : d # c => it2[d] = initThread[d]
          /\ \A d \in Class : status[d] \in Settled => st2[d] \in Settled
      BY <2>2, <2>3 DEF Core, Calm
    <2>6. Fits([lock EXCEPT ![c] = k], [stack EXCEPT ![t] = s2], it2, st2)
      BY <1>1, <2>2, <2>4, <2>5, FitsKept
    <2>. QED
      BY <2>1, <2>3, <2>6 DEF classVars
  <1>3. CASE ~(initThread[c] = t \/ status[c] \in {"READY", "ERROR"})
    <2>1. k = lock[c] /\ lock[c].owner = NIL
      BY <1>1, <1>3 DEF MonitorFits
    <2>2. CASE HasInitializedSuper(c)
      BY <1>3, <2>1, <2>2, RunBodyFits DEF MarkClass
    <2>3. CASE ~HasInitializedSuper(c)
      <3>1. /\ InitializeClass(t, WithState(stack[t], 4), program.superClass[c])
            /\ initThread' = [initThread EXCEPT ![c] = t]
            /\ lock' = [lock EXCEPT ![c] = lock[c]]
        BY <1>3, <2>1, <2>3 DEF MarkClass, SetLock
      <3>2. PICK e \in Class : e = program.superClass[c]
        BY <1>1, <2>3, ProgramTyped DEF HasInitializedSuper, Core
      <3>. 4 \in State
        BY DEF State
      <3>3. PICK w \in Seq(Frame) : w = WithState(stack[t], 4) /\ TopState(w) = 4
        BY <1>1, WithStateIs, TopOf
      <3>4. InitializeClass(t, w, e) /\ TopState(w) \notin {2, 6}
        BY <3>1, <3>2, <3>3
      <3>5. SettledStay /\ \E s2 : stack' = [stack EXCEPT ![t] = s2] /\ TopState(s2) \notin {2, 6}
        BY <3>4, CallKeeps DEF Core
      <3>. QED
        BY <2>1, <3>1, <3>5, BeginsFits
    <2>. QED
      BY <2>2, <2>3
  <1>. QED
    BY <1>2, <1>3

\* t comes to the monitor and is to look again.
LEMMA LooksFits ==
    ASSUME Core, Calm, NEW t \in Thread, Runs(t), stack[t] # << >>,
           NEW c, c = Top(t).cls, NEW k, SamePeople(t, lock[c], k), InQueue(t, k),
           MonitorFits(k, initThread[c], status[c]),
           lock' = [lock EXCEPT ![c] = k], stack' = [stack EXCEPT ![t] = WithState(@, 2)],
           UNCHANGED classVars
    PROVE  Fits(lock, stack, initThread, status)'
  <1>. 2 \in State
    BY DEF State
  <1>1. /\ c \in Class /\ stack[t] \in Seq(Frame) /\ c = stack[t][Len(stack[t])].cls
        /\ \A d \in Class : ~InQueue(t, lock[d])
    BY AtTop DEF Top
  <1>2. PICK s2, it2, st2 : s2 = WithState(stack[t], 2) /\ it2 = initThread /\ st2 = status
    OBVIOUS
  <1>3. /\ TopState(s2) = 2 /\ Len(s2) = Len(stack[t])
        /\ s2[Len(stack[t])].cls = stack[t][Len(stack[t])].cls
    BY <1>1, <1>2, WithStateIs, TopOf
  <1>4. s2[Len(s2)].cls = c
    BY <1>1, <1>3
  <1>5. LooksAt(s2, c) /\ \A d \in Class : d # c => ~LooksAt(s2, d)
    BY <1>3, <1>4 DEF LooksAt
  <1>6. /\ TypeOK /\ Fits(lock, stack, initThread, status)
        /\ MonitorFits(k, it2[c], st2[c]) /\ TopState(s2) # 6
        /\ \A d \in Class : d # c => it2[d] = initThread[d]
        /\ \A d \in Class : status[d] \in Settled => st2[d] \in Settled
    BY <1>2, <1>3 DEF Core, Calm
  <1>7. Fits([lock EXCEPT ![c] = k], [stack EXCEPT ![t] = s2], it2, st2)
    BY <1>1, <1>5, <1>6, FitsKept
  <1>8. stack' = [stack EXCEPT ![t] = s2]
    BY <1>2
  <1>. QED
    BY <1>2, <1>7, <1>8 DEF classVars

LEMMA RunClinitFits ==
    ASSUME Core, Calm, NEW t \in Thread, RunClinit(t)
    PROVE  Fits(lock, stack, initThread, status)'
  <1>1. stack[t] # << >> /\ Runs(t)
    BY DEF RunClinit, RunClinit1, RunClinit2, RunClinit4, RunClinit5, RunClinit6, Running
  <1>2. PICK c : c = Top(t).cls
    OBVIOUS
  <1>3. /\ c \in Class /\ lock[c] \in Monitor
        /\ TopState(stack[t]) = Top(t).state /\ stack[t] \in Seq(Frame)
        /\ MonitorFits(lock[c], initThread[c], status[c])
        /\ \A d \in Class : ~InQueue(t, lock[d]) /\ t # NIL
        /\ Top(t).state \in {4, 5, 6} => initThread[c] = t
    BY <1>1, <1>2, AtTop
  <1>4. Top(t).state \in {4, 5, 6} => lock[c].owner = NIL
    BY <1>3 DEF MonitorFits
  <1>5. CASE RunClinit1(t)
    <2>1. Top(t).state = 1
      BY <1>5 DEF RunClinit1, Running, Top
    <2>2. CASE ~HasMonitor(lock[c]) /\ MarkClass(t, c, lock[c])
      BY <1>1, <1>2, <2>1, <2>2, MarkClassFits DEF HasMonitor
    <2>3. CASE lock[c].owner = NIL /\ WithMonitor(t, c, OwnedBy(lock[c], t))
      <3>1. lock[c].entryQ = << >>
        BY <1>3, <2>3 DEF MonitorFits
      <3>2. CASE initThread[c] \notin {NIL, t}
        <4>1. PICK k : k = Waited(OwnedBy(lock[c], t), t)
          OBVIOUS
        <4>2. /\ lock' = [lock EXCEPT ![c] = k] /\ stack' = [stack EXCEPT ![t] = WithState(@, 2)]
              /\ UNCHANGED classVars
          BY <2>3, <3>2, <4>1 DEF WithMonitor, WaitForInitializer, SetLock
        <4>3. SamePeople(t, lock[c], k) /\ k.owner = NIL /\ k.entryQ = << >> /\ InQueue(t, k)
          BY <1>3, <2>3, <3>1, <4>1, WaitedPeople
        <4>4. MonitorFits(k, initThread[c], status[c])
          BY <3>2, <4>3 DEF MonitorFits
        <4>. QED
          BY <1>1, <1>2, <4>2, <4>3, <4>4, LooksFits
      <3>3. CASE initThread[c] \in {NIL, t}
        <4>1. PICK k : k = Released(OwnedBy(lock[c], t))
          OBVIOUS
        <4>2. k \in Monitor /\ k.owner = NIL /\ k.entryQ = << >> /\ k.waitQ = lock[c].waitQ
          BY <1>3, <2>3, <3>1, <4>1, TakenPeople
        <4>3. k = lock[c]
          BY <1>3, <2>3, <3>1, <4>2, MonitorIs
        <4>4. MarkClass(t, c, k)
          BY <2>3, <3>3, <4>1 DEF WithMonitor
        <4>. QED
          BY <1>1, <1>2, <2>1, <2>3, <4>3, <4>4, MarkClassFits
      <3>. QED
        BY <3>2, <3>3
    <2>4. CASE /\ lock[c].owner # NIL /\ SetLock(c, QueueFor(lock[c], t))
               /\ stack' = [stack EXCEPT ![t] = WithState(@, 2)] /\ UNCHANGED classVars
      <3>1. PICK k : k = QueueFor(lock[c], t)
        OBVIOUS
      <3>2. /\ SamePeople(t, lock[c], k) /\ InQueue(t, k)
            /\ k.owner = lock[c].owner /\ k.waitQ = lock[c].waitQ
        BY <1>3, <3>1, QueuedPeople
      <3>3. MonitorFits(k, initThread[c], status[c])
        BY <1>3, <2>4, <3>2 DEF MonitorFits
      <3>4. lock' = [lock EXCEPT ![c] = k]
        BY <2>4, <3>1 DEF SetLock
      <3>. QED
        BY <1>1, <1>2, <2>4, <3>2, <3>3, <3>4, LooksFits
    <2>. QED
      BY <1>2, <1>5, <2>2, <2>3, <2>4 DEF RunClinit1
  <1>6. CASE RunClinit2(t)
    <2>1. Top(t).state = 2 /\ WithMonitor(t, c, lock[c])
      BY <1>2, <1>6 DEF RunClinit2, Running, Top
    <2>2. LooksAt(stack[t], c)
      BY <1>2, <1>3, <2>1 DEF LooksAt, Top
    <2>3. lock[c].owner = t
      BY <1>3, <2>2 DEF Calm, Fits
    <2>4. initThread[c] = NIL
      BY <1>3, <2>3 DEF MonitorFits
    <2>5. MarkClass(t, c, Released(lock[c]))
      BY <2>1, <2>4 DEF WithMonitor
    <2>. QED
      BY <1>1, <1>2, <2>1, <2>3, <2>5, MarkClassFits
  <1>7. CASE RunClinit4(t)
    <2>1. Top(t).state = 4 /\ RunBody(t, c, lock[c])
      BY <1>2, <1>7 DEF RunClinit4, Running, Top
    <2>. QED
      BY <1>1, <1>2, <1>4, <2>1, RunBodyFits
  <1>8. CASE RunClinit5(t)
    <2>1. Top(t).state = 5 /\ AfterClinit(t, c, lock[c])
      BY <1>2, <1>8 DEF RunClinit5, Running, Top
    <2>. QED
      BY <1>1, <1>2, <1>4, <2>1, AfterClinitFits
  <1>9. CASE RunClinit6(t)
    <2>1. Top(t).state = 6
      BY <1>9 DEF RunClinit6, Running, Top
    <2>2. TopState(stack[t]) # 6
      BY DEF Calm, Fits
    <2>. QED
      BY <1>3, <2>1, <2>2
  <1>. QED
    BY <1>5, <1>6, <1>7, <1>8, <1>9 DEF RunClinit

LEMMA CallFits ==
    ASSUME Core, Calm, NEW t \in Thread, NEW c \in Class, TopState(stack[t]) \in {0, 7},
           InitializeClass(t, stack[t], c), UNCHANGED <<initThread, lock>>
    PROVE  Fits(lock, stack, initThread, status)'
  <1>1. PICK s \in Seq(Frame) : s = stack[t]
    BY DEF Core, TypeOK
  <1>2. SettledStay /\ \E s2 : stack' = [stack EXCEPT ![t] = s2] /\ TopState(s2) \notin {2, 6}
    BY <1>1, CallKeeps DEF Core
  <1>3. PICK s2 : stack' = [stack EXCEPT ![t] = s2] /\ TopState(s2) \notin {2, 6}
    BY <1>2
  <1>4. TypeOK /\ Fits(lock, stack, initThread, status) /\ TopState(stack[t]) # 2
    BY DEF Core, Calm
  <1>5. \A d \in Class : status[d] \in Settled => status'[d] \in Settled
    BY <1>2 DEF SettledStay
  <1>. QED
    BY <1>3, <1>4, <1>5, FitsSame

LEMMA OwnFramesFit ==
    ASSUME Core, Calm, NEW t \in Thread, TopState(stack[t]) \in {0, 7},
           NEW s2, stack' = [stack EXCEPT ![t] = s2], TopState(s2) \notin {2, 6},
           status' = status, initThread' = initThread, lock' = lock
    PROVE  Fits(lock, stack, initThread, status)'
  <1>1. TypeOK /\ Fits(lock, stack, initThread, status) /\ TopState(stack[t]) # 2
    BY DEF Core, Calm
  <1>2. \A d \in Class : status[d] \in Settled => status'[d] \in Settled
    OBVIOUS
  <1>3. UNCHANGED <<lock, initThread>>
    OBVIOUS
  <1>. QED
    BY <1>1, <1>2, <1>3, FitsSame

LEMMA ClinitFits ==
    ASSUME Core, Calm, NEW t \in Thread, Clinit(t)
    PROVE  Fits(lock, stack, initThread, status)'
  <1>1. Running(t, 0)
    BY DEF Clinit, ClinitUses, ClinitReturns, ClinitThrows
  <1>2. PICK s \in Seq(Frame) : s = stack[t] /\ s # << >>
    BY <1>1 DEF Core, TypeOK, Running
  <1>3. Runs(t) /\ TopState(s) = 0 /\ TopState(stack[t]) \in {0, 7}
    BY <1>1, <1>2 DEF Running, TopState
  <1>4. TopState(Popped(s)) \notin {2, 6}
    BY <1>2, <1>3, AtTop
  <1>5. ASSUME NEW c \in Class, ClinitUses(t, c) PROVE Fits(lock, stack, initThread, status)'
    <2>1. UNCHANGED <<initThread, lock>>
      BY <1>5 DEF ClinitUses
    <2>2. CASE /\ stack' = [stack EXCEPT ![t][Len(stack[t])].todo = @ \ {c}] /\ UNCHANGED status
      <3>1. PICK s2, todo : todo = s[Len(s)].todo \ {c} /\ s2 = WithTodo(s, todo)
        OBVIOUS
      <3>2. todo \subseteq Class
        BY <1>2, <3>1, TopStates DEF Frame
      <3>3. TopState(s2) = 0
        BY <1>2, <1>3, <3>1, <3>2, TopOfSame
      <3>4. stack' = [stack EXCEPT ![t] = s2]
        BY <1>2, <2>2, <3>1 DEF WithTodo
      <3>5. TopState(s2) \notin {2, 6} /\ status' = status /\ initThread' = initThread /\ lock' = lock
        BY <2>1, <2>2, <3>3
      <3>. QED
        BY <1>3, <3>4, <3>5, OwnFramesFit
    <2>3. CASE Throws(t, stack[t]) /\ UNCHANGED status
      <3>1. /\ stack' = [stack EXCEPT ![t] = s] /\ TopState(s) \notin {2, 6}
            /\ status' = status /\ initThread' = initThread /\ lock' = lock
        BY <1>2, <1>3, <2>1, <2>3 DEF Throws
      <3>. QED
        BY <1>3, <3>1, OwnFramesFit
    <2>4. CASE InitializeClass(t, stack[t], c)
      BY <1>3, <2>1, <2>4, CallFits
    <2>. QED
      BY <1>5, <2>2, <2>3, <2>4 DEF ClinitUses, UseClass
  <1>6. CASE ClinitReturns(t)
    <2>1. /\ stack' = [stack EXCEPT ![t] = Popped(s)]
          /\ status' = status /\ initThread' = initThread /\ lock' = lock
      BY <1>2, <1>6 DEF ClinitReturns, PopFrame, classVars
    <2>. QED
      BY <1>3, <1>4, <2>1, OwnFramesFit
  <1>7. CASE ClinitThrows(t)
    <2>1. /\ stack' = [stack EXCEPT ![t] = s] /\ TopState(s) \notin {2, 6}
          /\ status' = status /\ initThread' = initThread /\ lock' = lock
      BY <1>2, <1>3, <1>7 DEF ClinitThrows, Core, TypeOK, classVars
    <2>. QED
      BY <1>3, <2>1, OwnFramesFit
  <1>. QED
    BY <1>5, <1>6, <1>7 DEF Clinit

LEMMA UnwindFits ==
    ASSUME Core, Calm, NEW t \in Thread, Unwind(t)
    PROVE  Fits(lock, stack, initThread, status)'
  <1>1. throwing = t
    BY DEF Unwind, UnwindRunClinit, UnwindClinit, UnwindBottom
  <1>2. TopState(stack[t]) # 2 /\ TopState(stack[t]) \in {0, 2, 4, 5, 7}
    BY <1>1, WhileThrowing DEF Calm, Quiet
  <1>3. PICK s \in Seq(Frame) : s = stack[t]
    BY DEF Core, TypeOK
  <1>4. CASE UnwindRunClinit(t)
    <2>1. stack[t] # << >> /\ Top(t).state # 0
      BY <1>4 DEF UnwindRunClinit
    <2>2. PICK c : c = Top(t).cls
      OBVIOUS
    <2>3. /\ TopState(stack[t]) = Top(t).state
          /\ MonitorFits(lock[c], initThread[c], status[c]) /\ t # NIL
          /\ Top(t).state \in {4, 5, 6} => initThread[c] = t
      BY <1>1, <2>1, <2>2, AtTop
    <2>4. Top(t).state \in {4, 5}
      <3>1. Top(t).state # 7
        BY <1>1, <2>1, AtTop, TopTyped DEF Core, State
      <3>. QED
        BY <1>2, <2>1, <2>3, <3>1
    <2>5. lock[c].owner = NIL /\ lock[c].entryQ = << >>
      BY <2>3, <2>4 DEF MonitorFits
    <2>6. /\ status' = [status EXCEPT ![c] = "ERROR"]
          /\ initThread' = [initThread EXCEPT ![c] = NIL]
          /\ stack' = [stack EXCEPT ![t] = Popped(stack[t])]
          /\ SetLock(c, IF HasMonitor(lock[c]) /\ lock[c].owner \in {NIL, t}
                        THEN Released(Notified(OwnedBy(lock[c], t))) ELSE lock[c])
      BY <1>4, <2>2, <2>4 DEF UnwindRunClinit, ExpectedStates, PopFrame
    <2>7. PICK k : /\ lock' = [lock EXCEPT ![c] = k]
                   /\ \/ k = lock[c] /\ lock[c].waitQ = << >>
                      \/ k = Released(Notified(OwnedBy(lock[c], t)))
      BY <2>5, <2>6 DEF SetLock, HasMonitor
    <2>. QED
      BY <1>1, <2>1, <2>2, <2>5, <2>6, <2>7, UnmarksFits DEF Settled
  <1>5. CASE UnwindClinit(t)
    <2>1. /\ stack[t] # << >> /\ Top(t).state = 0
          /\ status' = status /\ initThread' = initThread /\ lock' = lock
      BY <1>5 DEF UnwindClinit, classVars
    <2>2. TopState(s) = 0 /\ TopState(stack[t]) \in {0, 7} /\ TopState(Popped(s)) \notin {2, 6}
      BY <1>1, <1>3, <2>1, AtTop
    <2>3. TopState(WithTodo(s, {})) = 0
      BY <1>3, <2>1, <2>2, TopOfSame
    <2>4. stack' = [stack EXCEPT ![t] = WithTodo(s, {})] \/ stack' = [stack EXCEPT ![t] = Popped(s)]
      BY <1>3, <1>5 DEF UnwindClinit, WithTodo, PopFrame
    <2>5. TopState(WithTodo(s, {})) \notin {2, 6}
      BY <2>3
    <2>. QED
      BY <2>1, <2>2, <2>4, <2>5, OwnFramesFit
  <1>6. CASE UnwindBottom(t)
    BY <1>6 DEF UnwindBottom, Calm, classVars
  <1>. QED
    BY <1>4, <1>5, <1>6 DEF Unwind

LEMMA UnlockFits ==
    ASSUME Core, Calm, NEW t \in Thread, NEW c \in Class, UnlockClass(t, c)
    PROVE  Fits(lock, stack, initThread, status)'
  <1>1. /\ Runs(t) /\ stack[t] = << >> /\ lock[c].owner = t
        /\ lock' = [lock EXCEPT ![c] = Released(lock[c])] /\ UNCHANGED <<classVars, stack>>
    BY DEF UnlockClass, SetLock
  <1>2. lock[c] \in Monitor /\ t # NIL /\ \A d \in Class : ~InQueue(t, lock[d])
    BY <1>1, NotQueued, NothingIsNil DEF Core, TypeOK
  <1>3. MonitorFits(lock[c], initThread[c], status[c])
    BY DEF Calm, Fits
  <1>4. lock[c].waitQ = << >> /\ initThread[c] = NIL /\ status[c] \in {"READY", "ERROR"}
    BY <1>1, <1>2, <1>3 DEF MonitorFits
  <1>5. PICK l \in Monitor : l = lock[c] /\ l.owner = t /\ l.waitQ = << >>
    BY <1>1, <1>2, <1>4
  <1>6. PICK k : k = Released(l)
    OBVIOUS
  <1>7. /\ SamePeople(t, lock[c], k) /\ ~InQueue(t, k) /\ k.waitQ = << >>
        /\ k.owner = NIL => k.entryQ = << >>
    BY <1>2, <1>5, <1>6, ReleasedPeople
  <1>8. PICK s2, it2, st2 : s2 = stack[t] /\ it2 = initThread /\ st2 = status
    OBVIOUS
  <1>9. TopState(s2) # 6 /\ \A d : ~LooksAt(s2, d)
    BY <1>1, <1>8 DEF LooksAt, TopState
  <1>10. /\ TypeOK /\ Fits(lock, stack, initThread, status)
         /\ MonitorFits(k, it2[c], st2[c])
         /\ \A d \in Class : d # c => it2[d] = initThread[d]
         /\ \A d \in Class : status[d] \in Settled => st2[d] \in Settled
    BY <1>4, <1>7, <1>8 DEF Core, Calm, MonitorFits
  <1>11. Fits([lock EXCEPT ![c] = k], [stack EXCEPT ![t] = s2], it2, st2)
    BY <1>2, <1>7, <1>9, <1>10, FitsKept
  <1>12. lock' = [lock EXCEPT ![c] = k] /\ stack' = [stack EXCEPT ![t] = s2]
    BY <1>1, <1>5, <1>6, <1>8 DEF Core, TypeOK
  <1>. QED
    BY <1>1, <1>8, <1>11, <1>12 DEF classVars

LEMMA QuietInit == Init => QuietInv
  <1>. SUFFICES ASSUME Init PROVE Fits(lock, stack, initThread, status)
    BY DEF QuietInv
  <1>1. /\ \A c \in Class : lock[c] = [owner |-> NIL, entryQ |-> << >>, waitQ |-> << >>]
        /\ \A t \in Thread : stack[t] = << >>
    BY DEF Init
  <1>2. \A c \in Class : /\ lock[c].owner = NIL /\ lock[c].entryQ = << >> /\ lock[c].waitQ = << >>
                          /\ MonitorFits(lock[c], initThread[c], status[c])
    BY <1>1 DEF MonitorFits
  <1>3. \A t \in Thread : TopState(stack[t]) = 7
    BY <1>1 DEF TopState
  <1>. QED
    BY <1>2, <1>3, NobodyIn DEF Fits, InQueue, LooksAt

LEMMA ProgramStays == ASSUME [Next]_vars PROVE UNCHANGED program
  BY DEF Next, vars, Continue, RunClinit, Clinit, Unwind, RunClinit1, RunClinit2, RunClinit4,
         RunClinit5, RunClinit6, ClinitUses, ClinitReturns, ClinitThrows, UnwindRunClinit,
         UnwindClinit, UnwindBottom, ThrowPending, Interrupt, Touch, LockClass, UnlockClass

LEMMA QuietStep == Core /\ QuietInv /\ [Next]_vars => QuietInv'
  <1>. SUFFICES ASSUME Core, QuietInv, [Next]_vars, Quiet' PROVE Fits(lock, stack, initThread, status)'
    BY DEF QuietInv
  <1>1. UNCHANGED program
    BY ProgramStays
  <1>2. Calm /\ program.interruptible = {} /\ program.lockers = {}
    BY <1>1 DEF Quiet, QuietInv, Calm
  <1>3. CASE UNCHANGED vars
    BY <1>2, <1>3 DEF vars, classVars, Calm
  <1>4. ASSUME NEW t \in Thread, Continue(t) PROVE Fits(lock, stack, initThread, status)'
    <2>1. ~ThrowPending(t)
      BY <1>2 DEF ThrowPending, Core, ErrorInv, NeverInterrupted
    <2>. QED
      BY <1>2, <1>4, <2>1, RunClinitFits, ClinitFits, UnwindFits DEF Continue
  <1>5. ASSUME NEW t \in Thread, NEW c \in Class, Touch(t, c)
        PROVE  Fits(lock, stack, initThread, status)'
    <2>1. stack[t] = << >> /\ UNCHANGED <<initThread, lock>>
      BY <1>5 DEF Touch, AtRest
    <2>2. InitializeClass(t, stack[t], c) /\ TopState(stack[t]) \in {0, 7}
      BY <1>5, <2>1 DEF Touch, TopState
    <2>. QED
      BY <1>2, <2>1, <2>2, CallFits
  <1>6. ASSUME NEW t \in Thread, NEW c \in Class PROVE ~Interrupt(t) /\ ~LockClass(t, c)
    BY <1>2 DEF Interrupt, LockClass
  <1>7. ASSUME NEW t \in Thread, NEW c \in Class, UnlockClass(t, c)
        PROVE  Fits(lock, stack, initThread, status)'
    BY <1>2, <1>7, UnlockFits
  <1>8. ASSUME NEW t \in Thread PROVE ~Interrupt(t)
    BY <1>2 DEF Interrupt
  <1>. QED
    BY <1>3, <1>4, <1>5, <1>6, <1>7, <1>8 DEF Next

-----------------------------------------------------------------------------
(***************************************************************************)
(* A failed class stays failed.                                            *)
(***************************************************************************)
FailedStay == \A c \in Class : status[c] = "ERROR" => status'[c] = "ERROR"

LEMMA CallKeepsFailed ==
    ASSUME TypeOK, NEW t, NEW s, NEW c \in Class, InitializeClass(t, s, c)
    PROVE  FailedStay
  <1>1. CASE UNCHANGED status
    BY <1>1 DEF FailedStay
  <1>2. CASE status[c] \in {"LINKED", "VERIFIED"} /\ \E n : status' = [status EXCEPT ![c] = n]
    <2>1. \A d \in Class : d # c => status'[d] = status[d]
      BY <1>2 DEF TypeOK
    <2>. QED
      BY <1>2, <2>1 DEF FailedStay
  <1>. QED
    BY <1>1, <1>2 DEF InitializeClass

LEMMA RunClinitKeepsFailed ==
    ASSUME Core, EnoughRoom, NEW t \in Thread, RunClinit(t)
    PROVE  FailedStay
  <1>1. RunClinitOutcome(t)
    BY RunClinitIs DEF Core
  <1>2. CASE Unmarks(t)
    <2>1. PICK c \in Class : c = Top(t).cls /\ status[c] # "ERROR"
      BY <1>2, OwnerIs DEF Unmarks
    <2>2. \A d \in Class : d # c => status'[d] = status[d]
      BY <1>2, <2>1 DEF Unmarks, Core, TypeOK
    <2>. QED
      BY <2>1, <2>2 DEF FailedStay
  <1>3. CASE CallsForSuper(t)
    BY <1>3, CallKeepsFailed DEF CallsForSuper, Core
  <1>4. CASE status' = status
    BY <1>4 DEF FailedStay
  <1>. QED
    BY <1>1, <1>2, <1>3, <1>4
       DEF RunClinitOutcome, QueuesToNotify, Enters, FindsNoRoom, LeavesItToOthers, QueuesToLook,
           WaitsForOther, classVars

LEMMA FailedStep ==
    ASSUME Core, EnoughRoom, [Next]_vars
    PROVE  FailedStay
  <1>1. CASE status' = status
    BY <1>1 DEF FailedStay
  <1>2. ASSUME NEW t \in Thread, Clinit(t) PROVE FailedStay
    <2>1. ASSUME NEW c \in Class, InitializeClass(t, stack[t], c) PROVE FailedStay
      BY <2>1, CallKeepsFailed DEF Core
    <2>. QED
      BY <1>1, <1>2, <2>1 DEF Clinit, ClinitUses, UseClass, ClinitReturns, ClinitThrows, classVars
  <1>3. ASSUME NEW t \in Thread, Unwind(t) PROVE FailedStay
    <2>1. CASE GivesUp(t)
      BY <2>1 DEF GivesUp, FailedStay, Core, TypeOK
    <2>2. CASE UnwindRunClinit(t)
      BY <1>1, <2>1, <2>2, UnwindRunClinitIs DEF GivesUpFatally, classVars
    <2>. QED
      BY <1>1, <1>3, <2>2 DEF Unwind, UnwindClinit, UnwindBottom, classVars
  <1>4. ASSUME NEW t \in Thread, Continue(t) PROVE FailedStay
    BY <1>1, <1>2, <1>3, <1>4, RunClinitKeepsFailed DEF Continue, ThrowPending, classVars
  <1>5. ASSUME NEW t \in Thread, NEW c \in Class, Touch(t, c) PROVE FailedStay
    BY <1>5, CallKeepsFailed DEF Touch, Core
  <1>6. ASSUME NEW t \in Thread, NEW c \in Class, LockClass(t, c) \/ UnlockClass(t, c) PROVE FailedStay
    BY <1>1, <1>6 DEF LockClass, UnlockClass, classVars
  <1>7. ASSUME NEW t \in Thread, Interrupt(t) PROVE FailedStay
    BY <1>1, <1>7 DEF Interrupt, classVars
  <1>8. CASE UNCHANGED vars
    BY <1>1, <1>8 DEF vars, classVars
  <1>. QED
    BY <1>4, <1>5, <1>6, <1>7, <1>8 DEF Next

-----------------------------------------------------------------------------
Inv == Core /\ QuietInv

THEOREM Invariant == Spec => []Inv
  <1>1. Init => Inv
    BY CoreInit, QuietInit DEF Inv
  <1>2. Inv /\ [Next]_vars => Inv'
    BY CoreStep, QuietStep DEF Inv
  <1>. QED
    BY <1>1, <1>2, PTL DEF Spec

LEMMA FramesMine ==
    ASSUME Core, NEW t \in Thread, NEW f \in Frames(t)
    PROVE  Begun(f) => initThread[f.cls] = t /\ f.cls \in Class
  <1>1. PICK s \in Seq(Frame) : s = stack[t] /\ StackOK(t, s, initThread, status)
    BY DEF Core, TypeOK, StackInv
  <1>2. PICK i \in 1..Len(s) : f = s[i]
    BY <1>1 DEF Frames
  <1>. QED
    BY <1>1, <1>2, ClassesTyped DEF StackOK, Mine

\* However threads interleave in runClinit(), wait for one another, are
\* interrupted, run out of stack or fail, a class is initialized by one thread
\* at a time, the one its initThread names.
THEOREM InitializedByOne == Spec => []OneInitializer
  <1>1. Inv => OneInitializer
    BY FramesMine DEF Inv, OneInitializer, Begun
  <1>. QED
    BY <1>1, Invariant, PTL

\* class.c enters a <clinit> once, however often and by however many threads
\* the class is asked for, and the class is ready only when it has returned.
THEOREM ClinitRunsOnce == Spec => []RunOnceBeforeReady
  <1>1. Inv => RunOnceBeforeReady
    <2>. SUFFICES ASSUME Inv, NEW c \in Class PROVE
                    /\ runs[c] <= 1
                    /\ status[c] = "READY" /\ c \in program.hasClinit =>
                         /\ runs[c] = 1
                         /\ \A t \in Thread : \A f \in Frames(t) : f.cls = c => f.state \notin {0, 4, 5}
      BY DEF RunOnceBeforeReady
    <2>1. ClassRuns(c) /\ Core
      BY DEF Inv, Core, RunsInv
    <2>2. ASSUME NEW t \in Thread, NEW f \in Frames(t), f.cls = c, f.state \in {0, 4, 5}
          PROVE  initThread[c] # NIL
      <3>1. Begun(f)
        BY <2>2 DEF Begun
      <3>. QED
        BY <2>1, <2>2, <3>1, FramesMine, NothingIsNil
    <2>. QED
      BY <2>1, <2>2 DEF ClassRuns
  <1>. QED
    BY <1>1, Invariant, PTL

\* class.c wakes whoever waits for an initialization that ends, well or not,
\* if no other thread can hold the monitor of the class meanwhile.
THEOREM WaitersAreWoken == Spec => []NobodyLeftWaiting
  <1>1. Inv => NobodyLeftWaiting
    BY DEF Inv, QuietInv, Quiet, Fits, MonitorFits, NobodyLeftWaiting
  <1>. QED
    BY <1>1, Invariant, PTL

\* class.c leaves a class failed for good where there is room on the stacks,
\* and runClinitException() never finds a frame in a state it does not expect
\* unless somebody interrupts.
THEOREM FailureIsFinal == Spec => ErrorIsFinal
  <1>1. Inv /\ Inv' /\ [Next]_vars =>
          [/\ EnoughRoom =>
                \A c \in Class : status[c] = "ERROR" => status'[c] = "ERROR"
           /\ program.interruptible = {} => ~fatal']_vars
    <2>. SUFFICES ASSUME Inv, Inv', [Next]_vars
                  PROVE  [/\ EnoughRoom =>
                                \A c \in Class : status[c] = "ERROR" => status'[c] = "ERROR"
                          /\ program.interruptible = {} => ~fatal']_vars
      OBVIOUS
    <2>1. EnoughRoom => \A c \in Class : status[c] = "ERROR" => status'[c] = "ERROR"
      BY FailedStep DEF Inv, FailedStay
    <2>2. UNCHANGED program
      BY ProgramStays
    <2>3. program.interruptible = {} => ~fatal'
      BY <2>2 DEF Inv, Core, ErrorInv, NeverInterrupted
    <2>. QED
      BY <2>1, <2>3
  <1>. QED
    BY <1>1, Invariant, PTL DEF Spec, ErrorIsFinal

=============================================================================
