------------------------ MODULE AsyncNatives_proofs ------------------------
(***************************************************************************)
(* The collector never moves objects while native code uses them, every    *)
(* IOCB has one user, no fatal error is reached and the calls of a VM that *)
(* has ended touch nothing of the next, for any number of Java threads,    *)
(* I/O threads, IOCBs and restarts.                                        *)
(***************************************************************************)
EXTENDS AsyncNatives, FiniteSetTheorems, TLAPS

\* A call handed over, or about to be, has been counted by asyncFunctionProlog().
OnItsWay == IF vm = "hand" \/ nextIocb # NIL THEN 1 ELSE 0

\* Whoever has an IOCB has a real one.
PoolInv ==
    /\ IocbFreeList \in Seq(Iocb)
    /\ vm \in {"prolog", "hand"} => aiocb \in Iocb
    /\ nextIocb \in Iocb \cup {NIL}
    /\ DOMAIN ioIocb = IoThread
    /\ \A i \in IoThread : io[i] \notin {"idle", "released"} => ioIocb[i] \in Iocb

\* CollectorAlone with what makes it inductive: the counter counts the functions that
\* use the heap and the call on its way to one, and the VM, which is where the
\* collector runs, waits until the call has been taken.
HeapInv ==
    /\ vm \in {"run", "acquire", "prolog", "hand", "spin", "rundown", "collect", "restart"}
    /\ DOMAIN io = IoThread
    /\ AsyncThreadCount = Cardinality(UsesHeap) + OnItsWay
    /\ collectorIsRunning <=> vm = "collect"
    /\ nextIocb # NIL => vm = "spin"
    /\ collectorIsRunning => UsesHeap = {}
    /\ PoolInv

LEMMA UsersFinite == IsFiniteSet(UsesHeap)
  <1>1. UsesHeap \subseteq IoThread
    BY DEF UsesHeap
  <1>. QED
    BY <1>1, FS_Subset, ConstantsAssumption DEF ConstantsAssumption

\* A step of an I/O thread that begins or ceases to use the heap.
LEMMA OneMore ==
    ASSUME NEW i \in IoThread, NEW to, DOMAIN io = IoThread, i \notin UsesHeap,
           io' = [io EXCEPT ![i] = to], to \in {"arguments", "result", "epilog"}
    PROVE  /\ UsesHeap' # {} /\ Cardinality(UsesHeap') = Cardinality(UsesHeap) + 1
           /\ Cardinality(UsesHeap) \in Nat
  <1>1. UsesHeap' = UsesHeap \cup {i}
    BY DEF UsesHeap
  <1>. QED
    BY <1>1, UsersFinite, FS_AddElement, FS_CardinalityType

LEMMA OneLess ==
    ASSUME NEW i \in IoThread, NEW to, DOMAIN io = IoThread, i \in UsesHeap,
           io' = [io EXCEPT ![i] = to], to \notin {"arguments", "result", "epilog"}
    PROVE  /\ UsesHeap # {} /\ Cardinality(UsesHeap') = Cardinality(UsesHeap) - 1
           /\ Cardinality(UsesHeap) \in Nat
  <1>1. UsesHeap' = UsesHeap \ {i}
    BY DEF UsesHeap
  <1>. QED
    BY <1>1, UsersFinite, FS_RemoveElement, FS_CardinalityType

LEMMA NoneMore ==
    ASSUME NEW i \in IoThread, NEW to, DOMAIN io = IoThread,
           io' = [io EXCEPT ![i] = to],
           to \in {"arguments", "result", "epilog"} <=> i \in UsesHeap
    PROVE  UsesHeap' = UsesHeap
  BY DEF UsesHeap

LEMMA InitHeapInv == Init => HeapInv
  <1>. SUFFICES ASSUME Init
                PROVE  HeapInv
    OBVIOUS
  <1>1. UsesHeap = {}
    BY DEF Init, UsesHeap
  <1>2. IocbFreeList \in Seq(Iocb)
    <2>1. IocbCount \in Nat /\ IocbFreeList = [k \in 1..IocbCount |-> IocbCount + 1 - k]
      BY ConstantsAssumption DEF Init, ConstantsAssumption, Iocb
    <2>2. \A k \in 1..IocbCount : IocbCount + 1 - k \in Iocb
      BY <2>1 DEF Iocb
    <2>. QED
      BY <2>1, <2>2
  <1>3. PoolInv
    BY <1>2 DEF Init, PoolInv
  <1>. QED
    BY <1>1, <1>3, FS_EmptySet DEF Init, HeapInv, OnItsWay

LEMMA PoolStep == PoolInv /\ DOMAIN io = IoThread /\ Next => PoolInv'
  <1>. SUFFICES ASSUME PoolInv, DOMAIN io = IoThread, Next
                PROVE  PoolInv'
    OBVIOUS
  <1>. USE DEF vmVars, javaVars, poolVars, handVars, gcVars, ioVars, PoolInv
  <1>0. NIL \notin Iocb
    BY ConstantsAssumption DEF ConstantsAssumption, Iocb
  <1>1. CASE AcquireAsyncIOCB
    BY <1>1 DEF AcquireAsyncIOCB
  <1>2. CASE CallAsyncNativeFunction
    BY <1>2 DEF CallAsyncNativeFunction
  <1>3. CASE VMNext /\ ~AcquireAsyncIOCB /\ ~CallAsyncNativeFunction
    <2>1. UNCHANGED <<IocbFreeList, nextIocb, io, ioIocb>>
      BY <1>3 DEF VMNext, SwitchThread, CallNative, asyncFunctionProlog, RequestTaken,
                  garbageCollect, RundownAsynchronousFunctions, ReadPointer, WritePointer,
                  RestartAsynchronousFunctions, RestartVM, InitializeThreading
    <2>2. vm' \in {"prolog", "hand"} => vm \in {"prolog", "hand"} /\ aiocb' = aiocb
      BY <1>3 DEF VMNext, SwitchThread, CallNative, asyncFunctionProlog, RequestTaken,
                  garbageCollect, RundownAsynchronousFunctions, ReadPointer, WritePointer,
                  RestartAsynchronousFunctions, RestartVM, InitializeThreading
    <2>. QED
      BY <2>1, <2>2
  <1>4. ASSUME NEW i \in IoThread, IoNext(i)
        PROVE  PoolInv'
    <2>1. CASE asyncThread(i)
      BY <2>1 DEF asyncThread
    <2>2. CASE processAcyncThread(i)
      BY <2>2 DEF processAcyncThread
    <2>3. CASE AbortAsyncIOCB(i)
      <3>1. ioIocb[i] \in Iocb
        BY <2>3 DEF AbortAsyncIOCB
      <3>2. IocbFreeList' \in Seq(Iocb)
        BY <2>3, <3>1 DEF AbortAsyncIOCB
      <3>. QED
        BY <2>3, <3>2 DEF AbortAsyncIOCB
    <2>4. CASE \/ ArgumentsWrong(i) \/ enableGarbageCollection(i) \/ DeviceAnswers(i)
               \/ CheckVersion(i) \/ resumeThread(i) \/ asyncFunctionEpilog(i)
               \/ incrementAsyncCount(i)
      <3>1. UNCHANGED <<IocbFreeList, nextIocb, vm, aiocb, ioIocb>>
        BY <2>4 DEF ArgumentsWrong, enableGarbageCollection, DeviceAnswers, CheckVersion,
                    resumeThread, asyncFunctionEpilog, incrementAsyncCount
      <3>2. io[i] \notin {"idle", "released"} /\ \E to : io' = [io EXCEPT ![i] = to]
        BY <2>4 DEF ArgumentsWrong, enableGarbageCollection, DeviceAnswers, CheckVersion,
                    resumeThread, asyncFunctionEpilog, incrementAsyncCount
      <3>. QED
        BY <3>1, <3>2
    <2>. QED
      BY <1>4, <2>1, <2>2, <2>3, <2>4 DEF IoNext, IoStep
  <1>. QED
    BY <1>1, <1>2, <1>3, <1>4 DEF Next

\* The VM changes none of the I/O threads.
LEMMA VMHeapInv == HeapInv /\ VMNext => HeapInv'
  <1>. SUFFICES ASSUME HeapInv, VMNext
                PROVE  HeapInv'
    OBVIOUS
  <1>. USE DEF vmVars, javaVars, poolVars, handVars, gcVars, ioVars
  <1>1. UsesHeap' = UsesHeap /\ Cardinality(UsesHeap) \in Nat /\ DOMAIN io' = IoThread
    <2>1. io' = io
      BY DEF VMNext, SwitchThread, CallNative, AcquireAsyncIOCB, asyncFunctionProlog,
             CallAsyncNativeFunction, RequestTaken, garbageCollect,
             RundownAsynchronousFunctions, ReadPointer, WritePointer,
             RestartAsynchronousFunctions, RestartVM, InitializeThreading
    <2>. QED
      BY <2>1, UsersFinite, FS_CardinalityType DEF UsesHeap, HeapInv
  <1>0. PoolInv' /\ NIL \notin Iocb
    BY PoolStep, ConstantsAssumption DEF HeapInv, Next, ConstantsAssumption, Iocb
  <1>. USE <1>0, <1>1 DEF HeapInv, OnItsWay
  <1>2. CASE SwitchThread
    BY <1>2 DEF SwitchThread
  <1>3. CASE CallNative
    BY <1>3 DEF CallNative
  <1>4. CASE AcquireAsyncIOCB
    BY <1>4 DEF AcquireAsyncIOCB
  <1>5. CASE asyncFunctionProlog
    BY <1>5 DEF asyncFunctionProlog
  <1>6. CASE CallAsyncNativeFunction
    BY <1>6 DEF CallAsyncNativeFunction, PoolInv
  <1>7. CASE RequestTaken
    BY <1>7 DEF RequestTaken
  <1>8. CASE garbageCollect
    BY <1>8 DEF garbageCollect
  <1>9. CASE RundownAsynchronousFunctions
    <2>1. UsesHeap = {}
      BY <1>9, UsersFinite, FS_EmptySet DEF RundownAsynchronousFunctions
    <2>. QED
      BY <1>9, <2>1 DEF RundownAsynchronousFunctions
  <1>10. CASE ReadPointer
    BY <1>10 DEF ReadPointer
  <1>11. CASE WritePointer
    BY <1>11 DEF WritePointer
  <1>12. CASE RestartAsynchronousFunctions
    BY <1>12 DEF RestartAsynchronousFunctions
  <1>13. CASE RestartVM
    BY <1>13 DEF RestartVM
  <1>14. CASE InitializeThreading
    BY <1>14 DEF InitializeThreading
  <1>. QED
    BY <1>2, <1>3, <1>4, <1>5, <1>6, <1>7, <1>8, <1>9, <1>10, <1>11, <1>12, <1>13, <1>14
       DEF VMNext

\* The counter follows every I/O thread.
LEMMA IoHeapInv ==
    ASSUME NEW i \in IoThread, HeapInv, IoNext(i)
    PROVE  HeapInv'
  <1>. USE DEF vmVars, javaVars, poolVars, handVars, gcVars, ioVars
  <1>0. /\ PoolInv' /\ DOMAIN io' = IoThread /\ DOMAIN io = IoThread
        /\ Cardinality(UsesHeap) \in Nat
    <2>1. PoolInv'
      BY PoolStep DEF HeapInv, Next
    <2>2. \E to : io' = [io EXCEPT ![i] = to]
      BY DEF IoNext, IoStep, asyncThread, processAcyncThread, ArgumentsWrong,
             enableGarbageCollection, DeviceAnswers, CheckVersion, incrementAsyncCount,
             resumeThread, asyncFunctionEpilog, AbortAsyncIOCB
    <2>. QED
      BY <2>1, <2>2, UsersFinite, FS_CardinalityType DEF HeapInv
  <1>1. CASE asyncThread(i)
    <2>1. UsesHeap' = UsesHeap
      BY <1>0, <1>1, NoneMore DEF asyncThread, UsesHeap
    <2>. QED
      BY <1>0, <1>1, <2>1 DEF asyncThread, HeapInv, OnItsWay
  <1>2. CASE processAcyncThread(i)
    <2>1. i \notin UsesHeap /\ io' = [io EXCEPT ![i] = "arguments"]
      BY <1>2 DEF processAcyncThread, UsesHeap
    <2>2. Cardinality(UsesHeap') = Cardinality(UsesHeap) + 1
      BY <1>0, <2>1, OneMore
    <2>. QED
      BY <1>0, <1>2, <2>2 DEF processAcyncThread, HeapInv, OnItsWay
  <1>3. CASE ArgumentsWrong(i)
    <2>1. UsesHeap' = UsesHeap
      BY <1>0, <1>3, NoneMore DEF ArgumentsWrong, UsesHeap
    <2>. QED
      BY <1>0, <1>3, <2>1 DEF ArgumentsWrong, HeapInv, OnItsWay
  <1>4. CASE enableGarbageCollection(i)
    <2>1. i \in UsesHeap /\ io' = [io EXCEPT ![i] = "device"]
      BY <1>4 DEF enableGarbageCollection, UsesHeap
    <2>2. Cardinality(UsesHeap') = Cardinality(UsesHeap) - 1 /\ UsesHeap # {}
      BY <1>0, <2>1, OneLess
    <2>. QED
      BY <1>0, <1>4, <2>2 DEF enableGarbageCollection, HeapInv, OnItsWay
  <1>5. CASE DeviceAnswers(i)
    <2>1. UsesHeap' = UsesHeap
      BY <1>0, <1>5, NoneMore DEF DeviceAnswers, UsesHeap
    <2>. QED
      BY <1>0, <1>5, <2>1 DEF DeviceAnswers, HeapInv, OnItsWay
  <1>6. CASE CheckVersion(i)
    <2>1. UsesHeap' = UsesHeap
      BY <1>0, <1>6, NoneMore DEF CheckVersion, UsesHeap
    <2>. QED
      BY <1>0, <1>6, <2>1 DEF CheckVersion, HeapInv, OnItsWay
  <1>7. CASE incrementAsyncCount(i)
    <2>1. i \notin UsesHeap /\ io' = [io EXCEPT ![i] = "result"]
      BY <1>7 DEF incrementAsyncCount, UsesHeap
    <2>2. Cardinality(UsesHeap') = Cardinality(UsesHeap) + 1
      BY <1>0, <2>1, OneMore
    <2>. QED
      BY <1>0, <1>7, <2>2 DEF incrementAsyncCount, HeapInv, OnItsWay
  <1>8. CASE resumeThread(i)
    <2>1. UsesHeap' = UsesHeap
      BY <1>0, <1>8, NoneMore DEF resumeThread, UsesHeap
    <2>. QED
      BY <1>0, <1>8, <2>1 DEF resumeThread, HeapInv, OnItsWay
  <1>9. CASE asyncFunctionEpilog(i)
    <2>1. i \in UsesHeap /\ io' = [io EXCEPT ![i] = "free"]
      BY <1>9 DEF asyncFunctionEpilog, UsesHeap
    <2>2. Cardinality(UsesHeap') = Cardinality(UsesHeap) - 1 /\ UsesHeap # {}
      BY <1>0, <2>1, OneLess
    <2>. QED
      BY <1>0, <1>9, <2>2 DEF asyncFunctionEpilog, HeapInv, OnItsWay
  <1>10. CASE AbortAsyncIOCB(i)
    <2>1. UsesHeap' = UsesHeap
      BY <1>0, <1>10, NoneMore DEF AbortAsyncIOCB, UsesHeap
    <2>. QED
      BY <1>0, <1>10, <2>1 DEF AbortAsyncIOCB, HeapInv, OnItsWay
  <1>. QED
    BY <1>1, <1>2, <1>3, <1>4, <1>5, <1>6, <1>7, <1>8, <1>9, <1>10 DEF IoNext, IoStep

\* RundownAsynchronousFunctions() and the counter keep the collector away from native
\* functions that hold pointers into the heap, and these away from a running collector.
THEOREM CollectorNeverDisturbs == Spec => []CollectorAlone
  <1>1. HeapInv /\ [Next]_vars => HeapInv'
    <2>. SUFFICES ASSUME HeapInv, [Next]_vars
                  PROVE  HeapInv'
      OBVIOUS
    <2>1. CASE UNCHANGED vars
      BY <2>1 DEF vars, vmVars, poolVars, handVars, gcVars, ioVars, HeapInv, PoolInv,
                  OnItsWay, UsesHeap
    <2>2. CASE Next
      BY <2>2, VMHeapInv, IoHeapInv DEF Next
    <2>. QED
      BY <2>1, <2>2
  <1>2. HeapInv => CollectorAlone
    BY DEF HeapInv, CollectorAlone
  <1>. QED
    BY <1>1, <1>2, InitHeapInv, PTL DEF Spec

----------------------------------------------------------------------------
(* Sequences without repetition *)

LEMMA InRange ==
    ASSUME NEW s, NEW x, NEW k \in DOMAIN s, s[k] = x
    PROVE  x \in Range(s)
  BY DEF Range

LEMMA Prepended ==
    ASSUME NEW S, NEW s \in Seq(S), NEW x \in S
    PROVE  /\ Range(<<x>> \o s) = Range(s) \cup {x}
           /\ IsInjective(s) /\ x \notin Range(s) => IsInjective(<<x>> \o s)
  <1>. DEFINE p == <<x>> \o s
  <1>1. p \in Seq(S) /\ Len(p) = Len(s) + 1 /\ p[1] = x
    OBVIOUS
  <1>2. \A k \in 1..Len(s) : p[k + 1] = s[k]
    OBVIOUS
  <1>3. \A k \in 1..Len(p) : k # 1 => k - 1 \in 1..Len(s) /\ p[k] = s[k - 1]
    OBVIOUS
  <1>4. DOMAIN p = 1..Len(p) /\ DOMAIN s = 1..Len(s) /\ Len(s) \in Nat
    BY <1>1
  <1>. HIDE DEF p
  <1>5. Range(p) = Range(s) \cup {x}
    <2>1. ASSUME NEW y \in Range(s)
          PROVE  y \in Range(p)
      <3>1. PICK k \in 1..Len(s) : s[k] = y
        BY <1>4 DEF Range
      <3>2. k + 1 \in 1..Len(p) /\ p[k + 1] = y
        BY <1>1, <1>2, <1>4, <3>1
      <3>. QED
        BY <3>2, <1>4 DEF Range
    <2>2. x \in Range(p)
      BY <1>1, <1>4 DEF Range
    <2>3. ASSUME NEW y \in Range(p)
          PROVE  y \in Range(s) \cup {x}
      BY <1>1, <1>3, <1>4 DEF Range
    <2>. QED
      BY <2>1, <2>2, <2>3
  <1>6. IsInjective(s) /\ x \notin Range(s) => IsInjective(p)
    <2>. SUFFICES ASSUME IsInjective(s), x \notin Range(s),
                         NEW a \in 1..Len(p), NEW b \in 1..Len(p), p[a] = p[b]
                  PROVE  a = b
      BY <1>4 DEF IsInjective
    <2>1. \A k \in 1..Len(s) : s[k] # x
      BY <1>4 DEF Range
    <2>2. a = 1 <=> b = 1
      BY <2>1, <1>1, <1>3
    <2>3. a # 1 => a - 1 = b - 1
      BY <2>2, <1>3, <1>4 DEF IsInjective
    <2>. QED
      BY <2>2, <2>3
  <1>. QED
    BY <1>5, <1>6 DEF p

LEMMA Appended ==
    ASSUME NEW S, NEW s \in Seq(S), NEW x \in S
    PROVE  /\ Append(s, x) \in Seq(S)
           /\ Range(Append(s, x)) = Range(s) \cup {x}
           /\ IsInjective(s) /\ x \notin Range(s) => IsInjective(Append(s, x))
  <1>. DEFINE p == Append(s, x)
  <1>1. p \in Seq(S) /\ Len(p) = Len(s) + 1 /\ p[Len(s) + 1] = x
    OBVIOUS
  <1>2. \A k \in 1..Len(s) : p[k] = s[k]
    OBVIOUS
  <1>4. DOMAIN p = 1..Len(p) /\ DOMAIN s = 1..Len(s) /\ Len(s) \in Nat
    BY <1>1
  <1>. HIDE DEF p
  <1>5. Range(p) = Range(s) \cup {x}
    BY <1>1, <1>2, <1>4 DEF Range
  <1>6. IsInjective(s) /\ x \notin Range(s) => IsInjective(p)
    BY <1>1, <1>2, <1>4 DEF IsInjective, Range
  <1>. QED
    BY <1>1, <1>5, <1>6 DEF p

LEMMA Beheaded ==
    ASSUME NEW S, NEW s \in Seq(S), s # <<>>
    PROVE  /\ Tail(s) \in Seq(S) /\ Head(s) \in S /\ Head(s) \in Range(s)
           /\ Range(Tail(s)) \cup {Head(s)} = Range(s)
           /\ IsInjective(s) => IsInjective(Tail(s)) /\ Head(s) \notin Range(Tail(s))
  <1>. DEFINE p == Tail(s)
  <1>1. /\ p \in Seq(S) /\ Len(s) \in Nat \ {0} /\ Len(p) = Len(s) - 1
        /\ Head(s) = s[1] /\ Head(s) \in S
    OBVIOUS
  <1>2. \A k \in 1..Len(p) : p[k] = s[k + 1] /\ k + 1 \in 1..Len(s)
    OBVIOUS
  <1>3. \A k \in 1..Len(s) : k # 1 => k - 1 \in 1..Len(p) /\ s[k] = p[k - 1]
    OBVIOUS
  <1>4. DOMAIN p = 1..Len(p) /\ DOMAIN s = 1..Len(s)
    BY <1>1
  <1>. HIDE DEF p
  <1>5. Range(p) \cup {s[1]} = Range(s)
    <2>1. 1 \in DOMAIN s
      BY <1>1, <1>4
    <2>. QED
      BY <2>1, <1>2, <1>3, <1>4 DEF Range
  <1>6. IsInjective(s) => IsInjective(p)
    <2>. SUFFICES ASSUME IsInjective(s), NEW a \in 1..Len(p), NEW b \in 1..Len(p), p[a] = p[b]
                  PROVE  a = b
      BY <1>4 DEF IsInjective
    <2>1. a + 1 = b + 1
      BY <1>2, <1>4 DEF IsInjective
    <2>. QED
      BY <2>1, <1>1
  <1>7. IsInjective(s) => s[1] \notin Range(p)
    <2>. SUFFICES ASSUME IsInjective(s), NEW a \in 1..Len(p), p[a] = s[1]
                  PROVE  FALSE
      BY <1>4 DEF Range
    <2>1. 1 = a + 1
      BY <1>1, <1>2, <1>4 DEF IsInjective
    <2>. QED
      BY <2>1, <1>1
  <1>. QED
    BY <1>1, <1>5, <1>6, <1>7 DEF p

\* The threads of a VM that starts: each of them once.
LEMMA OrderedOnce ==
    ASSUME NEW S, IsFiniteSet(S)
    PROVE  /\ SetToSeq(S) \in Seq(S) /\ IsInjective(SetToSeq(S))
           /\ Range(SetToSeq(S)) \subseteq S
  <1>. DEFINE n == Cardinality(S)
  <1>1. n \in Nat /\ ExistsBijection(1..n, S)
    BY FS_CardinalityType
  <1>2. PICK f : f \in Bijection(1..n, S)
    BY <1>1 DEF ExistsBijection
  <1>3. f \in [1..n -> S] /\ IsInjective(f)
    BY <1>2 DEF Bijection, Injection
  <1>4. SetToSeq(S) \in [1..n -> S] /\ IsInjective(SetToSeq(S))
    BY <1>3 DEF SetToSeq
  <1>5. SetToSeq(S) \in Seq(S)
    BY <1>1, <1>4
  <1>6. Range(SetToSeq(S)) \subseteq S
    BY <1>4 DEF Range
  <1>. QED
    BY <1>4, <1>5, <1>6

\* A free list as long as there are IOCBs has them all.
LEMMA AllFree ==
    ASSUME NEW s \in Seq(Iocb), IsInjective(s), Len(s) >= IocbCount
    PROVE  Range(s) = Iocb
  <1>1. IocbCount \in Nat \ {0} /\ Len(s) \in Nat /\ DOMAIN s = 1..Len(s)
    BY ConstantsAssumption DEF ConstantsAssumption
  <1>2. Range(s) \subseteq Iocb
    BY DEF Range
  <1>3. SUFFICES ASSUME NEW b \in Iocb, b \notin Range(s)
                 PROVE  FALSE
    BY <1>2
  <1>4. /\ IsFiniteSet(1..Len(s)) /\ Cardinality(1..Len(s)) = Len(s)
        /\ IsFiniteSet(Iocb) /\ Cardinality(Iocb) = IocbCount
    <2>1. \A n \in Nat : IsFiniteSet(1..n) /\ Cardinality(1..n) = n
      <3>. SUFFICES ASSUME NEW n \in Nat
                    PROVE  IsFiniteSet(1..n) /\ Cardinality(1..n) = n
        OBVIOUS
      <3>1. IsFiniteSet(1..n) /\ Cardinality(1..n) = IF 1 > n THEN 0 ELSE n - 1 + 1
        BY FS_Interval
      <3>. QED
        BY <3>1
    <2>. QED
      BY <1>1, <2>1 DEF Iocb
  <1>5. IsFiniteSet(Iocb \ {b}) /\ Cardinality(Iocb \ {b}) = IocbCount - 1
    BY <1>3, <1>4, FS_RemoveElement
  <1>6. s \in [1..Len(s) -> Iocb \ {b}]
    BY <1>1, <1>3 DEF Range
  <1>7. \E x, y \in 1..Len(s) : x # y /\ s[x] = s[y]
    <2>1. Cardinality(Iocb \ {b}) < Cardinality(1..Len(s))
      BY <1>1, <1>4, <1>5
    <2>. QED
      BY <2>1, <1>4, <1>5, <1>6, FS_PigeonHole
  <1>. QED
    BY <1>1, <1>7 DEF IsInjective

----------------------------------------------------------------------------
(* Whose an IOCB and a thread are *)

\* The VM has the IOCB, for a call that no I/O thread has taken.
VMHolds(b) == (vm \in {"prolog", "hand"} /\ aiocb = b) \/ nextIocb = b

\* IocbsUnshared, without counting.
HoldersInv ==
    /\ IsInjective(IocbFreeList)
    /\ \A i, j \in IoThread : ioIocb[i] = ioIocb[j] => i = j \/ ioIocb[i] = NIL
    /\ \A i \in IoThread : io[i] \in {"idle", "released"} => ioIocb[i] = NIL
    /\ \A b \in Iocb :
        /\ b \in Range(IocbFreeList) => ~VMHolds(b)
        /\ b \in Range(IocbFreeList) \/ VMHolds(b) => \A i \in IoThread : ioIocb[i] # b
        /\ b \in Range(IocbFreeList) \/ VMHolds(b) \/ \E i \in IoThread : ioIocb[i] = b

\* The event wakes up one thread for one request.
HandInv ==
    /\ event => nextIocb # NIL /\ \A i \in IoThread : io[i] # "released"
    /\ \A i, j \in IoThread : io[i] = "released" /\ io[j] = "released" => i = j
    /\ \A i \in IoThread : io[i] = "released" => nextIocb # NIL

\* A Java thread runs, is to run, or is suspended.
RunInv ==
    /\ RunnableThreads \in Seq(Thread) /\ IsInjective(RunnableThreads)
    /\ CurrentThread \in Thread \cup {NIL}
    /\ suspended \subseteq Thread
    /\ CurrentThread \notin Range(RunnableThreads) /\ CurrentThread \notin suspended
    /\ \A t \in Range(RunnableThreads) : t \notin suspended
    /\ vm \in {"acquire", "prolog"} => CurrentThread # NIL

\* A call for which the thread has still to be resumed.
Unresumed == {"arguments", "device", "answered", "disable", "result"}

InCall(b) ==
    \/ vm = "hand" /\ aiocb = b
    \/ nextIocb = b
    \/ \E i \in IoThread : ioIocb[i] = b /\ io[i] \in Unresumed

\* The IOCB of such a call names a suspended thread, and no other call's.
CallInv ==
    /\ iocbThread \in [Iocb -> Thread \cup {NIL}]
    /\ \A b \in Iocb : InCall(b) => iocbThread[b] \in suspended
    /\ \A b, c \in Iocb : InCall(b) /\ InCall(c) /\ iocbThread[b] = iocbThread[c] => b = c

\* What the collector is about to write back is what the IOCB holds, or the IOCB is free.
CopyInv ==
    copy # NIL => /\ vm = "collect" /\ root \in Iocb /\ copy \in Thread
                  /\ iocbThread[root] = copy \/ root \in Range(IocbFreeList)

WorldInv == DOMAIN world = IoThread /\ WorldsApart

\* Together they are inductive.
AsyncInv == HeapInv /\ HoldersInv /\ HandInv /\ RunInv /\ CallInv /\ CopyInv /\ WorldInv

LEMMA NothingIsNil == NIL \notin Iocb /\ NIL \notin Thread
  BY ConstantsAssumption DEF ConstantsAssumption, Iocb

\* Steps of the VM that leave the IOCBs where they are.
LEMMA VMFrame ==
    ASSUME HeapInv, VMNext, ~AcquireAsyncIOCB
    PROVE  /\ UNCHANGED <<IocbFreeList, io, ioIocb>>
           /\ \A b \in Iocb : VMHolds(b)' <=> VMHolds(b)
  <1>. USE DEF vmVars, javaVars, poolVars, handVars, gcVars, ioVars, VMHolds
  <1>1. CASE CallAsyncNativeFunction
    BY <1>1, NothingIsNil DEF CallAsyncNativeFunction
  <1>2. CASE asyncFunctionProlog
    BY <1>2 DEF asyncFunctionProlog
  <1>3. CASE RequestTaken
    BY <1>3 DEF RequestTaken
  <1>4. CASE ~CallAsyncNativeFunction /\ ~asyncFunctionProlog /\ ~RequestTaken
    BY <1>4 DEF VMNext, SwitchThread, CallNative, garbageCollect,
                RundownAsynchronousFunctions, ReadPointer, WritePointer,
                RestartAsynchronousFunctions, RestartVM, InitializeThreading
  <1>. QED
    BY <1>1, <1>2, <1>3, <1>4

\* Steps of an I/O thread in the middle of a call.
MiddleStep(i) ==
    \/ ArgumentsWrong(i) \/ enableGarbageCollection(i) \/ DeviceAnswers(i) \/ CheckVersion(i)
    \/ resumeThread(i) \/ asyncFunctionEpilog(i) \/ incrementAsyncCount(i)

LEMMA MiddleFrame ==
    ASSUME NEW i \in IoThread, MiddleStep(i)
    PROVE  /\ UNCHANGED <<IocbFreeList, nextIocb, event, vm, aiocb, root, copy, ioIocb, iocbThread,
                          CurrentThread, VersionOfTheWorld, world>>
           /\ io[i] \notin {"idle", "released"}
           /\ \E to : /\ io' = [io EXCEPT ![i] = to] /\ to \notin {"idle", "released"}
                      /\ to \in Unresumed => io[i] \in Unresumed
  <1>. USE DEF vmVars, javaVars, poolVars, handVars, gcVars, ioVars, Unresumed
  <1>1. CASE ArgumentsWrong(i) \/ DeviceAnswers(i) \/ CheckVersion(i)
    BY <1>1 DEF ArgumentsWrong, DeviceAnswers, CheckVersion
  <1>2. CASE enableGarbageCollection(i) \/ incrementAsyncCount(i)
    BY <1>2 DEF enableGarbageCollection, incrementAsyncCount
  <1>3. CASE resumeThread(i) \/ asyncFunctionEpilog(i)
    BY <1>3 DEF resumeThread, asyncFunctionEpilog
  <1>. QED
    BY <1>1, <1>2, <1>3 DEF MiddleStep

LEMMA HoldersStep == HeapInv /\ HoldersInv /\ Next => HoldersInv'
  <1>. SUFFICES ASSUME HeapInv, HoldersInv, Next
                PROVE  HoldersInv'
    OBVIOUS
  <1>. USE NothingIsNil DEF vmVars, javaVars, poolVars, handVars, gcVars, ioVars
  <1>0. DOMAIN io = IoThread /\ DOMAIN ioIocb = IoThread /\ IocbFreeList \in Seq(Iocb)
    BY DEF HeapInv, PoolInv
  <1>1. CASE AcquireAsyncIOCB
    <2>. DEFINE b == Head(IocbFreeList)
    <2>1. /\ b \in Iocb /\ b \in Range(IocbFreeList)
          /\ Range(IocbFreeList') \cup {b} = Range(IocbFreeList)
          /\ IsInjective(IocbFreeList') /\ b \notin Range(IocbFreeList')
      BY <1>0, <1>1, Beheaded DEF AcquireAsyncIOCB, HoldersInv
    <2>2. \A c \in Iocb : VMHolds(c)' <=> c = b
      BY <1>1, <2>1 DEF AcquireAsyncIOCB, VMHolds, HeapInv
    <2>3. \A c \in Iocb : ~VMHolds(c)
      BY <1>1 DEF AcquireAsyncIOCB, VMHolds, HeapInv
    <2>4. UNCHANGED <<io, ioIocb>>
      BY <1>1 DEF AcquireAsyncIOCB
    <2>. HIDE DEF b
    <2>. QED
      BY <2>1, <2>2, <2>3, <2>4 DEF HoldersInv
  <1>2. CASE VMNext /\ ~AcquireAsyncIOCB
    BY <1>2, VMFrame DEF HoldersInv
  <1>3. ASSUME NEW i \in IoThread, IoNext(i)
        PROVE  HoldersInv'
    <2>1. CASE asyncThread(i)
      <3>1. /\ UNCHANGED <<IocbFreeList, ioIocb>> /\ \A b \in Iocb : VMHolds(b)' <=> VMHolds(b)
            /\ io[i] = "idle" /\ io' = [io EXCEPT ![i] = "released"]
        BY <2>1 DEF asyncThread, VMHolds
      <3>. QED
        BY <1>0, <3>1 DEF HoldersInv
    <2>2. CASE processAcyncThread(i)
      <3>1. /\ IocbFreeList' = IocbFreeList /\ ioIocb' = [ioIocb EXCEPT ![i] = nextIocb]
            /\ io' = [io EXCEPT ![i] = "arguments"] /\ ioIocb[i] = NIL
            /\ nextIocb \in Iocb
        BY <2>2 DEF processAcyncThread, HeapInv, PoolInv, HoldersInv
      <3>2. \A b \in Iocb : VMHolds(b) <=> b = nextIocb
        BY <3>1 DEF VMHolds, HeapInv
      <3>3. \A b \in Iocb : ~VMHolds(b)'
        BY <2>2, <3>1 DEF processAcyncThread, VMHolds, HeapInv
      <3>4. \A j \in IoThread : ioIocb[j] # nextIocb
        BY <3>1, <3>2 DEF HoldersInv
      <3>. QED
        BY <1>0, <3>1, <3>2, <3>3, <3>4 DEF HoldersInv
    <2>3. CASE AbortAsyncIOCB(i)
      <3>. DEFINE b == ioIocb[i]
      <3>1. /\ ioIocb' = [ioIocb EXCEPT ![i] = NIL] /\ io' = [io EXCEPT ![i] = "idle"]
            /\ b \in Iocb
        BY <2>3 DEF AbortAsyncIOCB, HeapInv, PoolInv
      <3>2. b \notin Range(IocbFreeList) /\ ~VMHolds(b)
        BY <3>1 DEF HoldersInv
      <3>3. /\ Range(IocbFreeList') = Range(IocbFreeList) \cup {b}
            /\ IsInjective(IocbFreeList')
        BY <1>0, <2>3, <3>1, <3>2, Prepended DEF AbortAsyncIOCB, HoldersInv
      <3>4. \A c \in Iocb : VMHolds(c)' <=> VMHolds(c)
        BY <2>3 DEF AbortAsyncIOCB, VMHolds
      <3>5. \A j \in IoThread : j # i => ioIocb[j] # b
        BY <3>1 DEF HoldersInv
      <3>. HIDE DEF b
      <3>. QED
        BY <1>0, <3>1, <3>2, <3>3, <3>4, <3>5 DEF HoldersInv
    <2>4. CASE MiddleStep(i)
      <3>1. UNCHANGED <<IocbFreeList, ioIocb>> /\ \A b \in Iocb : VMHolds(b)' <=> VMHolds(b)
        BY <2>4, MiddleFrame DEF VMHolds
      <3>2. \A j \in IoThread : io'[j] \in {"idle", "released"} => io[j] \in {"idle", "released"}
        BY <1>0, <2>4, MiddleFrame
      <3>. QED
        BY <3>1, <3>2 DEF HoldersInv
    <2>. QED
      BY <1>3, <2>1, <2>2, <2>3, <2>4 DEF IoNext, IoStep, MiddleStep
  <1>. QED
    BY <1>1, <1>2, <1>3 DEF Next

LEMMA HandStep == HeapInv /\ HandInv /\ Next => HandInv'
  <1>. SUFFICES ASSUME HeapInv, HandInv, Next
                PROVE  HandInv'
    OBVIOUS
  <1>. USE NothingIsNil DEF vmVars, javaVars, poolVars, handVars, gcVars, ioVars
  <1>0. DOMAIN io = IoThread
    BY DEF HeapInv
  <1>1. CASE CallAsyncNativeFunction
    <2>1. vm = "hand" /\ aiocb # NIL /\ nextIocb = NIL /\ nextIocb' = aiocb /\ io' = io
      BY <1>1 DEF CallAsyncNativeFunction, HeapInv, PoolInv
    <2>. QED
      BY <2>1 DEF HandInv
  <1>2. CASE VMNext /\ ~CallAsyncNativeFunction
    <2>1. UNCHANGED <<event, nextIocb, io>>
      BY <1>2 DEF VMNext, SwitchThread, CallNative, AcquireAsyncIOCB, asyncFunctionProlog,
                  RequestTaken, garbageCollect, RundownAsynchronousFunctions, ReadPointer,
                  WritePointer, RestartAsynchronousFunctions, RestartVM, InitializeThreading
    <2>. QED
      BY <2>1 DEF HandInv
  <1>3. ASSUME NEW i \in IoThread, IoNext(i)
        PROVE  HandInv'
    <2>1. CASE asyncThread(i)
      BY <1>0, <2>1 DEF asyncThread, HandInv
    <2>2. CASE processAcyncThread(i)
      BY <1>0, <2>2 DEF processAcyncThread, HandInv
    <2>3. CASE AbortAsyncIOCB(i)
      BY <1>0, <2>3 DEF AbortAsyncIOCB, HandInv
    <2>4. CASE MiddleStep(i)
      BY <1>0, <2>4, MiddleFrame DEF HandInv
    <2>. QED
      BY <1>3, <2>1, <2>2, <2>3, <2>4 DEF IoNext, IoStep, MiddleStep
  <1>. QED
    BY <1>1, <1>2, <1>3 DEF Next

LEMMA Started ==
    ASSUME NEW current, NEW runnable, StartedThreads(current, runnable)
    PROVE  /\ current \in Thread /\ runnable \in Seq(Thread) /\ IsInjective(runnable)
           /\ current \notin Range(runnable)
  <1>. DEFINE others == Thread \ {MainThread}
  <1>1. IsFiniteSet(others)
    BY ConstantsAssumption, FS_RemoveElement DEF ConstantsAssumption
  <1>2. /\ runnable \in Seq(others) /\ IsInjective(runnable)
        /\ Range(runnable) \subseteq others
    BY <1>1, OrderedOnce DEF StartedThreads
  <1>3. runnable \in Seq(Thread)
    BY <1>2
  <1>. QED
    BY <1>2, <1>3, ConstantsAssumption DEF ConstantsAssumption, StartedThreads

\* A call in progress has been counted: its IOCB is not free.
LEMMA CallsHoldIocbs ==
    ASSUME HoldersInv, NEW b \in Iocb, InCall(b)
    PROVE  b \notin Range(IocbFreeList)
  BY DEF HoldersInv, InCall, VMHolds

LEMMA RunStep == HeapInv /\ RunInv /\ Next => RunInv'
  <1>. SUFFICES ASSUME HeapInv, RunInv, Next
                PROVE  RunInv'
    OBVIOUS
  <1>. USE NothingIsNil DEF vmVars, javaVars, poolVars, handVars, gcVars, ioVars
  <1>1. CASE SwitchThread
    <2>. DEFINE t == Head(RunnableThreads)
    <2>. DEFINE s == Tail(RunnableThreads)
    <2>1. /\ t \in Thread /\ t \in Range(RunnableThreads)
          /\ s \in Seq(Thread) /\ IsInjective(s)
          /\ t \notin Range(s) /\ Range(s) \cup {t} = Range(RunnableThreads)
      BY <1>1, Beheaded DEF SwitchThread, RunInv
    <2>2. /\ CurrentThread' = t /\ suspended' = suspended /\ vm' = "run"
          /\ CurrentThread = NIL => RunnableThreads' = s \o <<>>
          /\ CurrentThread # NIL => RunnableThreads' = s \o <<CurrentThread>>
      BY <1>1 DEF SwitchThread
    <2>3. CASE CurrentThread = NIL
      <3>1. RunnableThreads' = s
        BY <2>1, <2>2, <2>3
      <3>. QED
        BY <2>1, <2>2, <3>1 DEF RunInv
    <2>4. CASE CurrentThread # NIL
      <3>. DEFINE c == CurrentThread
      <3>1. c \in Thread /\ c \notin Range(s) /\ c # t /\ c \notin suspended
        BY <2>1, <2>4 DEF RunInv
      <3>. HIDE DEF s, t
      <3>2. RunnableThreads' = Append(s, c)
        BY <2>1, <2>2, <2>4
      <3>3. /\ Append(s, c) \in Seq(Thread)
            /\ Range(Append(s, c)) = Range(s) \cup {c} /\ IsInjective(Append(s, c))
        BY <2>1, <3>1, Appended
      <3>. QED
        BY <2>1, <2>2, <3>1, <3>2, <3>3 DEF RunInv
    <2>. QED
      BY <2>3, <2>4
  <1>2. CASE asyncFunctionProlog
    <2>1. /\ CurrentThread' = NIL /\ suspended' = suspended \cup {CurrentThread}
          /\ vm' = "hand" /\ UNCHANGED RunnableThreads /\ CurrentThread \in Thread
      BY <1>2 DEF asyncFunctionProlog, RunInv
    <2>2. Range(RunnableThreads) \subseteq Thread
      BY DEF RunInv, Range
    <2>. QED
      BY <2>1, <2>2 DEF RunInv
  <1>3. CASE InitializeThreading
    <2>1. StartedThreads(CurrentThread', RunnableThreads') /\ suspended' = {} /\ vm' = "run"
      BY <1>3 DEF InitializeThreading
    <2>2. /\ CurrentThread' \in Thread /\ RunnableThreads' \in Seq(Thread)
          /\ IsInjective(RunnableThreads') /\ CurrentThread' \notin Range(RunnableThreads')
      BY <2>1, Started
    <2>. QED
      BY <2>1, <2>2 DEF RunInv
  <1>4. CASE VMNext /\ ~SwitchThread /\ ~asyncFunctionProlog /\ ~InitializeThreading
    <2>1. UNCHANGED <<CurrentThread, RunnableThreads, suspended>>
      BY <1>4 DEF VMNext, CallNative, AcquireAsyncIOCB, CallAsyncNativeFunction, RequestTaken,
                  garbageCollect, RundownAsynchronousFunctions, ReadPointer, WritePointer,
                  RestartAsynchronousFunctions, RestartVM
    <2>2. vm' \in {"acquire", "prolog"} => CurrentThread # NIL
      BY <1>4 DEF VMNext, CallNative, AcquireAsyncIOCB, CallAsyncNativeFunction, RequestTaken,
                  garbageCollect, RundownAsynchronousFunctions, ReadPointer, WritePointer,
                  RestartAsynchronousFunctions, RestartVM, RunInv
    <2>. QED
      BY <2>1, <2>2 DEF RunInv
  <1>5. ASSUME NEW i \in IoThread, IoNext(i)
        PROVE  RunInv'
    <2>1. CASE resumeThread(i)
      <3>. DEFINE t == iocbThread[ioIocb[i]]
      <3>1. /\ t \in suspended /\ t \in Thread /\ t \notin Range(RunnableThreads)
            /\ t # CurrentThread /\ suspended' = suspended \ {t}
            /\ RunnableThreads' = Append(RunnableThreads, t)
            /\ UNCHANGED <<CurrentThread, vm>>
        BY <2>1 DEF resumeThread, RunInv
      <3>. HIDE DEF t
      <3>2. /\ RunnableThreads' \in Seq(Thread) /\ IsInjective(RunnableThreads')
            /\ Range(RunnableThreads') = Range(RunnableThreads) \cup {t}
        BY <3>1, Appended DEF RunInv
      <3>. QED
        BY <3>1, <3>2 DEF RunInv
    <2>2. CASE ~resumeThread(i)
      <3>1. UNCHANGED <<CurrentThread, RunnableThreads, suspended, vm>>
        BY <1>5, <2>2 DEF IoNext, IoStep, asyncThread, processAcyncThread, ArgumentsWrong,
                          enableGarbageCollection, DeviceAnswers, CheckVersion,
                          incrementAsyncCount, asyncFunctionEpilog, AbortAsyncIOCB
      <3>. QED
        BY <3>1 DEF RunInv
    <2>. QED
      BY <2>1, <2>2
  <1>. QED
    BY <1>1, <1>2, <1>3, <1>4, <1>5 DEF Next

\* A step after which the calls in progress were in progress before, and their IOCBs
\* and the suspended threads they name are the same.
LEMMA CallFrame ==
    ASSUME CallInv, iocbThread' \in [Iocb -> Thread \cup {NIL}],
           \A b \in Iocb : InCall(b)' => InCall(b) /\ iocbThread'[b] = iocbThread[b]
                                         /\ iocbThread[b] \in suspended'
    PROVE  CallInv'
  BY DEF CallInv

LEMMA CallStep == AsyncInv /\ Next => CallInv'
  <1>. SUFFICES ASSUME AsyncInv, Next
                PROVE  CallInv'
    OBVIOUS
  <1>. USE NothingIsNil DEF vmVars, javaVars, poolVars, handVars, gcVars, ioVars
  <1>0. /\ HeapInv /\ HoldersInv /\ HandInv /\ RunInv /\ CallInv /\ CopyInv
        /\ iocbThread \in [Iocb -> Thread \cup {NIL}] /\ DOMAIN io = IoThread
        /\ DOMAIN ioIocb = IoThread
    BY DEF AsyncInv, CallInv, HeapInv, PoolInv
  <1>1. CASE asyncFunctionProlog
    <2>1. /\ vm = "prolog" /\ vm' = "hand" /\ nextIocb = NIL
          /\ aiocb \in Iocb /\ CurrentThread \in Thread /\ CurrentThread \notin suspended
          /\ suspended' = suspended \cup {CurrentThread}
          /\ iocbThread' = [iocbThread EXCEPT ![aiocb] = CurrentThread]
          /\ UNCHANGED <<aiocb, nextIocb, io, ioIocb>>
      BY <1>0, <1>1 DEF asyncFunctionProlog, HeapInv, PoolInv, RunInv
    <2>2. ~InCall(aiocb)
      BY <1>0, <2>1 DEF InCall, HoldersInv, VMHolds
    <2>3. \A b \in Iocb : InCall(b)' => b = aiocb \/ InCall(b)
      BY <2>1 DEF InCall
    <2>. QED
      BY <1>0, <2>1, <2>2, <2>3 DEF CallInv
  <1>2. CASE WritePointer
    <2>1. /\ root \in Iocb /\ copy \in Thread
          /\ iocbThread[root] = copy \/ root \in Range(IocbFreeList)
          /\ iocbThread' = [iocbThread EXCEPT ![root] = copy]
          /\ UNCHANGED <<vm, aiocb, nextIocb, io, ioIocb, suspended>>
      BY <1>0, <1>2 DEF WritePointer, CopyInv
    <2>2. \A b \in Iocb : InCall(b)' <=> InCall(b)
      BY <2>1 DEF InCall
    <2>3. InCall(root) => iocbThread[root] = copy
      BY <1>0, <2>1, CallsHoldIocbs
    <2>. QED
      BY <1>0, <2>1, <2>2, <2>3 DEF CallInv
  <1>3. CASE InitializeThreading
    <2>1. /\ vm' = "run" /\ UNCHANGED <<nextIocb, io, ioIocb, iocbThread>> /\ nextIocb = NIL
          /\ Len(IocbFreeList) >= IocbCount
      <3>1. Len(IocbFreeList) \in Nat /\ IocbCount \in Nat
        BY <1>0, ConstantsAssumption DEF HeapInv, PoolInv, ConstantsAssumption
      <3>. QED
        BY <1>0, <1>3, <3>1 DEF InitializeThreading, ActiveAsyncOperations, HeapInv
    <2>2. Range(IocbFreeList) = Iocb
      BY <1>0, <2>1, AllFree DEF HeapInv, PoolInv, HoldersInv
    <2>3. \A b \in Iocb : ~InCall(b)'
      BY <1>0, <2>1, <2>2 DEF InCall, HoldersInv
    <2>. QED
      BY <1>0, <2>1, <2>3 DEF CallInv
  <1>4. CASE CallAsyncNativeFunction
    <2>1. \A b \in Iocb : InCall(b)' => InCall(b)
      BY <1>4 DEF CallAsyncNativeFunction, InCall
    <2>2. UNCHANGED <<iocbThread, suspended>>
      BY <1>4 DEF CallAsyncNativeFunction
    <2>. QED
      BY <1>0, <2>1, <2>2, CallFrame DEF CallInv
  <1>5. CASE /\ VMNext /\ ~asyncFunctionProlog /\ ~WritePointer /\ ~InitializeThreading
             /\ ~CallAsyncNativeFunction
    <2>1. /\ UNCHANGED <<iocbThread, suspended, nextIocb, io, ioIocb>>
          /\ vm' # "hand" \/ UNCHANGED <<vm, aiocb>>
      BY <1>5 DEF VMNext, SwitchThread, CallNative, AcquireAsyncIOCB, RequestTaken,
                  garbageCollect, RundownAsynchronousFunctions, ReadPointer,
                  RestartAsynchronousFunctions, RestartVM
    <2>2. \A b \in Iocb : InCall(b)' => InCall(b)
      BY <2>1 DEF InCall
    <2>. QED
      BY <1>0, <2>1, <2>2, CallFrame DEF CallInv
  <1>6. ASSUME NEW i \in IoThread, IoNext(i)
        PROVE  CallInv'
    <2>1. CASE asyncThread(i)
      <3>1. \A b \in Iocb : InCall(b)' => InCall(b)
        BY <1>0, <2>1 DEF asyncThread, InCall, Unresumed
      <3>2. UNCHANGED <<iocbThread, suspended>>
        BY <2>1 DEF asyncThread
      <3>. QED
        BY <1>0, <3>1, <3>2, CallFrame DEF CallInv
    <2>2. CASE processAcyncThread(i)
      <3>1. /\ UNCHANGED <<iocbThread, suspended, vm, aiocb>>
            /\ io' = [io EXCEPT ![i] = "arguments"] /\ ioIocb' = [ioIocb EXCEPT ![i] = nextIocb]
            /\ nextIocb' = NIL
        BY <2>2 DEF processAcyncThread
      <3>2. \A b \in Iocb : InCall(b)' => InCall(b)
        BY <1>0, <3>1 DEF InCall
      <3>. QED
        BY <1>0, <3>1, <3>2, CallFrame DEF CallInv
    <2>3. CASE AbortAsyncIOCB(i)
      <3>1. /\ UNCHANGED <<suspended, vm, aiocb, nextIocb>>
            /\ io' = [io EXCEPT ![i] = "idle"] /\ ioIocb' = [ioIocb EXCEPT ![i] = NIL]
            /\ iocbThread' = [iocbThread EXCEPT ![ioIocb[i]] = NIL]
            /\ ioIocb[i] \in Iocb /\ io[i] \notin Unresumed
        BY <1>0, <2>3 DEF AbortAsyncIOCB, HeapInv, PoolInv, Unresumed
      <3>2. \A b \in Iocb : InCall(b)' => InCall(b)
        BY <1>0, <3>1 DEF InCall, Unresumed
      <3>3. ~InCall(ioIocb[i])
        BY <1>0, <3>1 DEF InCall, HoldersInv, VMHolds
      <3>4. iocbThread' \in [Iocb -> Thread \cup {NIL}]
        BY <1>0, <3>1
      <3>. QED
        BY <1>0, <3>1, <3>2, <3>3, <3>4, CallFrame DEF CallInv
    <2>4. CASE resumeThread(i)
      <3>. DEFINE b == ioIocb[i]
      <3>1. /\ UNCHANGED <<iocbThread, ioIocb, vm, aiocb, nextIocb>> /\ io[i] = "result"
            /\ io' = [io EXCEPT ![i] = "epilog"] /\ b \in Iocb
            /\ suspended' = suspended \ {iocbThread[b]}
        BY <1>0, <2>4 DEF resumeThread, HeapInv, PoolInv
      <3>2. InCall(b) /\ ~InCall(b)'
        BY <1>0, <3>1 DEF InCall, HoldersInv, VMHolds, Unresumed
      <3>3. \A c \in Iocb : InCall(c)' => InCall(c) /\ c # b
        BY <1>0, <3>1, <3>2 DEF InCall, Unresumed
      <3>. HIDE DEF b
      <3>. QED
        BY <1>0, <3>1, <3>2, <3>3, CallFrame DEF CallInv
    <2>5. CASE MiddleStep(i) /\ ~resumeThread(i)
      <3>1. UNCHANGED <<iocbThread, suspended>>
        BY <2>5 DEF MiddleStep, ArgumentsWrong, enableGarbageCollection, DeviceAnswers,
                    CheckVersion, asyncFunctionEpilog, incrementAsyncCount
      <3>2. \A b \in Iocb : InCall(b)' => InCall(b)
        BY <1>0, <2>5, MiddleFrame DEF InCall
      <3>. QED
        BY <1>0, <3>1, <3>2, CallFrame DEF CallInv
    <2>. QED
      BY <1>6, <2>1, <2>2, <2>3, <2>4, <2>5 DEF IoNext, IoStep, MiddleStep
  <1>. QED
    BY <1>1, <1>2, <1>3, <1>4, <1>5, <1>6 DEF Next

LEMMA CopyStep == AsyncInv /\ Next => CopyInv'
  <1>. SUFFICES ASSUME AsyncInv, Next
                PROVE  CopyInv'
    OBVIOUS
  <1>. USE NothingIsNil DEF vmVars, javaVars, poolVars, handVars, gcVars, ioVars
  <1>0. HeapInv /\ CallInv /\ CopyInv /\ iocbThread \in [Iocb -> Thread \cup {NIL}]
    BY DEF AsyncInv, CallInv
  <1>1. CASE ReadPointer
    BY <1>0, <1>1 DEF ReadPointer, CopyInv
  <1>2. CASE WritePointer
    BY <1>2 DEF WritePointer, CopyInv
  <1>3. CASE AcquireAsyncIOCB \/ asyncFunctionProlog
    BY <1>0, <1>3 DEF AcquireAsyncIOCB, asyncFunctionProlog, CopyInv
  <1>4. CASE RundownAsynchronousFunctions \/ RestartAsynchronousFunctions
    BY <1>0, <1>4 DEF RundownAsynchronousFunctions, RestartAsynchronousFunctions, CopyInv
  <1>5. CASE /\ VMNext /\ ~ReadPointer /\ ~WritePointer /\ ~AcquireAsyncIOCB
             /\ ~asyncFunctionProlog /\ ~RundownAsynchronousFunctions
             /\ ~RestartAsynchronousFunctions
    <2>1. vm # "collect" /\ copy' = copy
      BY <1>5 DEF VMNext, SwitchThread, CallNative, CallAsyncNativeFunction, RequestTaken,
                  garbageCollect, RestartVM, InitializeThreading
    <2>. QED
      BY <1>0, <2>1 DEF CopyInv
  <1>6. ASSUME NEW i \in IoThread, IoNext(i)
        PROVE  CopyInv'
    <2>1. CASE AbortAsyncIOCB(i)
      <3>1. /\ UNCHANGED <<vm, root, copy>> /\ ioIocb[i] \in Iocb
            /\ iocbThread' = [iocbThread EXCEPT ![ioIocb[i]] = NIL]
            /\ IocbFreeList' = <<ioIocb[i]>> \o IocbFreeList /\ IocbFreeList \in Seq(Iocb)
        BY <1>0, <2>1 DEF AbortAsyncIOCB, HeapInv, PoolInv
      <3>2. Range(IocbFreeList') = Range(IocbFreeList) \cup {ioIocb[i]}
        BY <3>1, Prepended
      <3>. QED
        BY <1>0, <3>1, <3>2 DEF CopyInv
    <2>2. CASE ~AbortAsyncIOCB(i)
      <3>1. UNCHANGED <<vm, root, copy, iocbThread, IocbFreeList>>
        BY <1>6, <2>2 DEF IoNext, IoStep, asyncThread, processAcyncThread, ArgumentsWrong,
                          enableGarbageCollection, DeviceAnswers, CheckVersion,
                          incrementAsyncCount, asyncFunctionEpilog, resumeThread
      <3>. QED
        BY <1>0, <3>1 DEF CopyInv
    <2>. QED
      BY <2>1, <2>2
  <1>. QED
    BY <1>1, <1>2, <1>3, <1>4, <1>5, <1>6 DEF Next

LEMMA WorldStep == AsyncInv /\ Next => WorldInv'
  <1>. SUFFICES ASSUME AsyncInv, Next
                PROVE  WorldInv'
    OBVIOUS
  <1>. USE NothingIsNil DEF vmVars, javaVars, poolVars, handVars, gcVars, ioVars
  <1>0. HeapInv /\ HoldersInv /\ WorldInv
    BY DEF AsyncInv
  <1>1. CASE RestartVM
    BY <1>0, <1>1 DEF RestartVM, WorldInv, WorldsApart
  <1>2. CASE InitializeThreading
    <2>1. /\ UNCHANGED <<ioIocb, io, world>> /\ IocbFreeList \in Seq(Iocb)
          /\ Len(IocbFreeList) >= IocbCount
      <3>1. /\ Len(IocbFreeList) \in Nat /\ IocbCount \in Nat
            /\ UNCHANGED <<ioIocb, io, world>> /\ IocbFreeList \in Seq(Iocb)
        BY <1>0, <1>2, ConstantsAssumption
           DEF HeapInv, PoolInv, ConstantsAssumption, InitializeThreading
      <3>. QED
        BY <1>2, <3>1 DEF InitializeThreading, ActiveAsyncOperations
    <2>2. Range(IocbFreeList) = Iocb
      BY <1>0, <2>1, AllFree DEF HoldersInv
    <2>3. \A i \in IoThread : ioIocb[i] = NIL
      <3>1. \A i \in IoThread : ioIocb[i] \notin Iocb
        BY <1>0, <2>2 DEF HoldersInv
      <3>. QED
        BY <1>0, <3>1 DEF HeapInv, PoolInv, HoldersInv
    <2>. QED
      BY <1>0, <2>1, <2>3 DEF WorldInv, WorldsApart
  <1>3. CASE VMNext /\ ~RestartVM /\ ~InitializeThreading
    <2>1. UNCHANGED <<ioIocb, world, VersionOfTheWorld>> /\ vm # "restart"
      BY <1>3 DEF VMNext, SwitchThread, CallNative, AcquireAsyncIOCB, asyncFunctionProlog,
                  CallAsyncNativeFunction, RequestTaken, garbageCollect,
                  RundownAsynchronousFunctions, ReadPointer, WritePointer,
                  RestartAsynchronousFunctions
    <2>. QED
      BY <1>0, <2>1 DEF WorldInv, WorldsApart
  <1>4. ASSUME NEW i \in IoThread, IoNext(i)
        PROVE  WorldInv'
    <2>0. DOMAIN ioIocb = IoThread /\ DOMAIN world = IoThread
      BY <1>0 DEF HeapInv, PoolInv, WorldInv
    <2>1. CASE processAcyncThread(i)
      <3>1. /\ UNCHANGED <<vm, VersionOfTheWorld>>
            /\ \A j \in IoThread : j # i => ioIocb'[j] = ioIocb[j] /\ world'[j] = world[j]
            /\ world' = [world EXCEPT ![i] = VersionOfTheWorld]
        BY <2>0, <2>1 DEF processAcyncThread
      <3>. QED
        BY <1>0, <2>1, <3>1 DEF WorldInv, WorldsApart
    <2>2. CASE AbortAsyncIOCB(i)
      BY <1>0, <2>0, <2>2 DEF AbortAsyncIOCB, WorldInv, WorldsApart
    <2>3. CASE asyncThread(i)
      BY <1>0, <2>3 DEF asyncThread, WorldInv, WorldsApart
    <2>4. CASE MiddleStep(i)
      BY <1>0, <2>4, MiddleFrame DEF WorldInv, WorldsApart
    <2>. QED
      BY <1>4, <2>1, <2>2, <2>3, <2>4 DEF IoNext, IoStep, MiddleStep
  <1>. QED
    BY <1>1, <1>2, <1>3, <1>4 DEF Next

LEMMA InitAsyncInv == Init => AsyncInv
  <1>. SUFFICES ASSUME Init
                PROVE  AsyncInv
    OBVIOUS
  <1>. USE NothingIsNil DEF Init
  <1>1. HeapInv
    BY InitHeapInv
  <1>2. \A b \in Iocb : ~VMHolds(b) /\ ~InCall(b)
    BY DEF VMHolds, InCall, Unresumed
  <1>3. IsInjective(IocbFreeList) /\ Range(IocbFreeList) = Iocb
    <2>1. IocbCount \in Nat \ {0} /\ DOMAIN IocbFreeList = 1..IocbCount
      BY ConstantsAssumption DEF ConstantsAssumption, Iocb
    <2>2. \A k \in 1..IocbCount : IocbFreeList[k] = IocbCount + 1 - k
      BY DEF Iocb
    <2>3. IsInjective(IocbFreeList)
      BY <2>1, <2>2 DEF IsInjective
    <2>4. IocbFreeList \in Seq(Iocb) /\ Len(IocbFreeList) = IocbCount
      BY <1>1, <2>1 DEF HeapInv, PoolInv
    <2>. HIDE DEF Init
    <2>5. PICK s \in Seq(Iocb) : s = IocbFreeList
      BY <2>4
    <2>6. IsInjective(s) /\ Len(s) >= IocbCount
      BY <2>1, <2>3, <2>4, <2>5
    <2>7. Range(s) = Iocb
      BY <2>6, AllFree
    <2>. QED
      BY <2>3, <2>5, <2>7
  <1>4. HoldersInv
    BY <1>2, <1>3 DEF HoldersInv
  <1>5. RunInv
    <2>1. /\ CurrentThread \in Thread /\ RunnableThreads \in Seq(Thread)
          /\ IsInjective(RunnableThreads) /\ CurrentThread \notin Range(RunnableThreads)
      BY Started
    <2>. QED
      BY <2>1 DEF RunInv
  <1>6. HandInv /\ CallInv /\ CopyInv /\ WorldInv
    BY <1>2 DEF HandInv, CallInv, CopyInv, WorldInv, WorldsApart
  <1>. QED
    BY <1>1, <1>4, <1>5, <1>6 DEF AsyncInv

LEMMA AsyncInvStep == AsyncInv /\ [Next]_vars => AsyncInv'
  <1>. SUFFICES ASSUME AsyncInv, [Next]_vars
                PROVE  AsyncInv'
    OBVIOUS
  <1>1. CASE Next
    <2>1. HeapInv'
      BY <1>1, VMHeapInv, IoHeapInv DEF Next, AsyncInv
    <2>. QED
      BY <1>1, <2>1, HoldersStep, HandStep, RunStep, CallStep, CopyStep, WorldStep
         DEF AsyncInv
  <1>2. CASE UNCHANGED vars
    <2>. USE <1>2 DEF vars, vmVars, javaVars, poolVars, handVars, gcVars, ioVars
    <2>1. HeapInv'
      BY DEF AsyncInv, HeapInv, PoolInv, OnItsWay, UsesHeap
    <2>2. HoldersInv' /\ HandInv'
      BY DEF AsyncInv, HoldersInv, VMHolds, HandInv
    <2>3. RunInv' /\ CopyInv' /\ WorldInv'
      BY DEF AsyncInv, RunInv, CopyInv, WorldInv, WorldsApart
    <2>4. CallInv'
      BY DEF AsyncInv, CallInv, InCall
    <2>. QED
      BY <2>1, <2>2, <2>3, <2>4 DEF AsyncInv
  <1>. QED
    BY <1>1, <1>2

\* Where a set has an element, and no other, there is one.
LEMMA CountOne ==
    ASSUME NEW S, NEW x \in S, \A y \in S : y = x
    PROVE  Cardinality(S) = 1
  <1>1. S = {x}
    OBVIOUS
  <1>. QED
    BY <1>1, FS_Singleton

LEMMA CountNone ==
    ASSUME NEW S, \A y \in S : FALSE
    PROVE  Cardinality(S) = 0
  <1>1. S = {}
    OBVIOUS
  <1>. QED
    BY <1>1, FS_EmptySet

LEMMA CountIocbs == AsyncInv => IocbsUnshared
  <1>. SUFFICES ASSUME AsyncInv, NEW b \in Iocb
                PROVE  Cardinality({k \in DOMAIN IocbFreeList : IocbFreeList[k] = b})
                       + Cardinality({i \in IoThread : ioIocb[i] = b})
                       + (IF VMHolds(b) THEN 1 ELSE 0) = 1
    BY DEF IocbsUnshared, VMHolds
  <1>. DEFINE Free == {k \in DOMAIN IocbFreeList : IocbFreeList[k] = b}
  <1>. DEFINE Users == {i \in IoThread : ioIocb[i] = b}
  <1>. SUFFICES Cardinality(Free) + Cardinality(Users) + (IF VMHolds(b) THEN 1 ELSE 0) = 1
    OBVIOUS
  <1>0. HoldersInv /\ b # NIL
    BY NothingIsNil DEF AsyncInv
  <1>1. CASE b \in Range(IocbFreeList)
    <2>1. Cardinality(Free) = 1
      <3>1. PICK k \in DOMAIN IocbFreeList : IocbFreeList[k] = b
        BY <1>1 DEF Range
      <3>2. \A l \in Free : l = k
        BY <1>0, <3>1 DEF HoldersInv, IsInjective
      <3>. HIDE DEF Users
      <3>. QED
        BY <3>1, <3>2, CountOne
    <2>2. Cardinality(Users) = 0
      <3>1. \A i \in Users : FALSE
        BY <1>0, <1>1 DEF HoldersInv
      <3>. HIDE DEF Users
      <3>. QED
        BY <3>1, CountNone
    <2>3. ~VMHolds(b)
      BY <1>0, <1>1 DEF HoldersInv
    <2>. HIDE DEF Free, Users
    <2>. QED
      BY <2>1, <2>2, <2>3
  <1>2. CASE b \notin Range(IocbFreeList)
    <2>1. Cardinality(Free) = 0
      <3>1. \A k \in Free : FALSE
        BY <1>2 DEF Range
      <3>. HIDE DEF Free
      <3>. QED
        BY <3>1, CountNone
    <2>2. CASE VMHolds(b)
      <3>1. \A i \in Users : FALSE
        BY <1>0, <2>2 DEF HoldersInv
      <3>. HIDE DEF Free, Users
      <3>2. Cardinality(Users) = 0
        BY <3>1, CountNone
      <3>. QED
        BY <2>1, <2>2, <3>2
    <2>3. CASE ~VMHolds(b)
      <3>1. PICK i \in IoThread : ioIocb[i] = b
        BY <1>0, <1>2, <2>3 DEF HoldersInv
      <3>2. i \in Users /\ \A j \in Users : j = i
        BY <1>0, <3>1 DEF HoldersInv
      <3>. HIDE DEF Free, Users
      <3>3. Cardinality(Users) = 1
        BY <3>2, CountOne
      <3>. QED
        BY <2>1, <2>3, <3>3
    <2>. QED
      BY <2>2, <2>3
  <1>. QED
    BY <1>1, <1>2

LEMMA AsyncSafe == AsyncInv => NoFatalError
  <1>. SUFFICES ASSUME AsyncInv
                PROVE  NoFatalError
    OBVIOUS
  <1>1. ASSUME NEW i \in IoThread, io[i] = "result"
        PROVE  iocbThread[ioIocb[i]] \in suspended /\ iocbThread[ioIocb[i]] # CurrentThread
    <2>1. ioIocb[i] \in Iocb /\ InCall(ioIocb[i])
      BY <1>1 DEF AsyncInv, HeapInv, PoolInv, InCall, Unresumed
    <2>. QED
      BY <2>1 DEF AsyncInv, CallInv, RunInv
  <1>2. vm = "hand" => nextIocb = NIL
    BY DEF AsyncInv, HeapInv
  <1>. QED
    BY <1>1, <1>2 DEF AsyncInv, HeapInv, HandInv, NoFatalError

\* ReleaseAsyncIOCB() frees, and AcquireAsyncIOCB() hands out, every IOCB to one call at a
\* time: none is lost and none has two users, whatever the order of the two ends.
THEOREM ControlBlocksUnshared == Spec => []IocbsUnshared
  BY InitAsyncInv, AsyncInvStep, CountIocbs, PTL DEF Spec

\* The VM and the I/O threads never reach a fatalError() of async.c, of resumeThread() or
\* of the port: a request is neither overwritten nor missing, and the thread of a call is
\* suspended when its answer comes.
THEOREM AsyncNeverFatal == Spec => []NoFatalError
  BY InitAsyncInv, AsyncInvStep, AsyncSafe, PTL DEF Spec

\* InitalizeAsynchronousIO() waits for the calls of the VM before: none reaches into the
\* heap of the next.
THEOREM WorldsStayApart == Spec => []WorldsApart
  <1>1. AsyncInv => WorldsApart
    BY DEF AsyncInv, WorldInv
  <1>. QED
    BY <1>1, InitAsyncInv, AsyncInvStep, PTL DEF Spec
=============================================================================
