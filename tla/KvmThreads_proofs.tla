-------------------------- MODULE KvmThreads_proofs --------------------------
(***************************************************************************)
(* Proofs about KvmThreads, for all sets of threads, objects, monitors and *)
(* hash codes and all bounds.                                              *)
(***************************************************************************)
EXTENDS KvmThreads, SequenceTheorems, TLAPS

-----------------------------------------------------------------------------
(***************************************************************************)
(* The queue operators map queues of threads to queues of threads.         *)
(***************************************************************************)
LEMMA OnQueueType ==
    ASSUME NEW S, NEW q \in Seq(S)
    PROVE  OnQueue(q) \subseteq S
  BY DEF OnQueue

LEMMA IndexOfType ==
    ASSUME NEW S, NEW q \in Seq(S), NEW t \in OnQueue(q)
    PROVE  IndexOf(q, t) \in 1..Len(q) /\ q[IndexOf(q, t)] = t
  BY DEF OnQueue, IndexOf

LEMMA AddType ==
    ASSUME NEW S, NEW q \in Seq(S), NEW t \in S
    PROVE  AddThreadToQueue(q, t) \in Seq(S)
  <1>1. CASE t \notin OnQueue(q)
    BY <1>1 DEF AddThreadToQueue
  <1>2. CASE t \in OnQueue(q)
    <2>1. IndexOf(q, t) \in 1..Len(q)
      BY <1>2, IndexOfType
    <2>2. SubSeq(q, 1, IndexOf(q, t)) \in Seq(S)
      BY <2>1, SubSeqProperties
    <2>. QED
      BY <1>2, <2>2 DEF AddThreadToQueue
  <1>. QED
    BY <1>1, <1>2

LEMMA RemoveStartType ==
    ASSUME NEW S, NEW q \in Seq(S), NEW none
    PROVE  /\ QueueStart(q, none) \in S \cup {none}
           /\ RemoveQueueStart(q) \in Seq(S)
  BY HeadTailProperties DEF QueueStart, RemoveQueueStart

LEMMA RemoveType ==
    ASSUME NEW S, NEW q \in Seq(S), NEW t
    PROVE  RemoveFromQueue(q, t) \in Seq(S)
  <1>1. CASE t \notin OnQueue(q)
    BY <1>1 DEF RemoveFromQueue
  <1>2. CASE t \in OnQueue(q)
    <2>. DEFINE i == IndexOf(q, t)
    <2>1. i \in 1..Len(q)
      BY <1>2, IndexOfType
    <2>2. SubSeq(q, 1, i - 1) \in Seq(S) /\ SubSeq(q, i + 1, Len(q)) \in Seq(S)
      BY <2>1, SubSeqProperties
    <2>. QED
      BY <1>2, <2>2 DEF RemoveFromQueue, WithoutIndex
  <1>. QED
    BY <1>1, <1>2

-----------------------------------------------------------------------------
(***************************************************************************)
(* Type correctness.                                                       *)
(***************************************************************************)
USE DEF Hash

LEMMA ToShortType == \A d \in Int : ToShort(d) \in Int
  BY ConstantsAssumption DEF ConstantsAssumption, ToShort

\* What an mhc word holds under each tag.
LEMMA MhcValues ==
    ASSUME TypeOK, NEW o \in Object
    PROVE  /\ mhc[o].tag \in {"MHC_UNLOCKED", "MHC_SIMPLE_LOCK",
                              "MHC_EXTENDED_LOCK", "MHC_MONITOR"}
           /\ mhc[o].tag = "MHC_UNLOCKED" => mhc[o].val \in Hash
           /\ mhc[o].tag = "MHC_SIMPLE_LOCK" => mhc[o].val \in Thread
           /\ mhc[o].tag = "MHC_EXTENDED_LOCK" => mhc[o].val \in Thread
           /\ mhc[o].tag = "MHC_MONITOR" => mhc[o].val \in Monitor
           /\ mhc[o] = [tag |-> mhc[o].tag, val |-> mhc[o].val]
  BY DEF TypeOK, MhcWord

LEMMA WordTypes ==
    /\ \A h \in Hash : Unlocked(h) \in MhcWord
    /\ \A t \in Thread : SimpleLock(t) \in MhcWord /\ ExtendedLock(t) \in MhcWord
    /\ \A m \in Monitor : RealMonitor(m) \in MhcWord
  BY DEF MhcWord, Unlocked, SimpleLock, ExtendedLock, RealMonitor

\* Updates of one field keep the types of MONITORs and of extended locks.
LEMMA SetDepth ==
    ASSUME NEW r \in MonitorStruct, NEW d \in Int
    PROVE  [r EXCEPT !.depth = d] \in MonitorStruct
  BY DEF MonitorStruct

LEMMA SetOwnerAndDepth ==
    ASSUME NEW r \in MonitorStruct, NEW d \in Int, NEW u \in Thread \cup {NIL}
    PROVE  [r EXCEPT !.owner = u, !.depth = d] \in MonitorStruct
  BY DEF MonitorStruct

LEMMA SetLockDepth ==
    ASSUME NEW f \in [Thread -> [depth : Int, hashCode : Hash]],
           NEW u \in Thread, NEW d \in Int
    PROVE  [f EXCEPT ![u].depth = d] \in [Thread -> [depth : Int, hashCode : Hash]]
  <1>1. f[u] \in [depth : Int, hashCode : Hash]
    OBVIOUS
  <1>2. [f[u] EXCEPT !.depth = d] \in [depth : Int, hashCode : Hash]
    BY <1>1
  <1>. QED
    BY <1>2

LEMMA LockViewTypes ==
    ASSUME TypeOK, NEW o \in Object
    PROVE  /\ Owner(o) \in Thread \cup {NIL}
           /\ Depth(o) \in Int
           /\ HashOf(o) \in Hash
  BY MhcValues DEF TypeOK, MonitorStruct, Owner, Depth, HashOf

LEMMA UpgradedType ==
    ASSUME TypeOK, NEW o \in Object
    PROVE  Upgraded(o) \in MonitorStruct
  <1>1. CASE HasMonitor(o)
    BY <1>1, MhcValues DEF TypeOK, Upgraded, HasMonitor
  <1>2. CASE ~HasMonitor(o)
    <2>1. << >> \in Seq(Thread)
      BY EmptySeq
    <2>. QED
      BY <1>2, <2>1, LockViewTypes DEF Upgraded, NewMonitor, MonitorStruct
  <1>. QED
    BY <1>1, <1>2

LEMMA HandedOverType ==
    ASSUME NEW r \in MonitorStruct, NEW md \in [Thread -> Int]
    PROVE  HandedOver(r, md) \in MonitorStruct
  <1>. DEFINE w == QueueStart(r.monitor_waitq, NIL)
  <1>1. w \in Thread \cup {NIL} /\ RemoveQueueStart(r.monitor_waitq) \in Seq(Thread)
    BY RemoveStartType DEF MonitorStruct
  <1>2. (IF w = NIL THEN 0 ELSE md[w]) \in Int
    BY <1>1
  <1>. QED
    BY <1>1, <1>2 DEF HandedOver, MonitorStruct

LEMMA EnqueuedType ==
    ASSUME NEW r \in MonitorStruct, NEW ts \in Seq(Thread)
    PROVE  Enqueued(r, ts) \in MonitorStruct
  <1>0. Len(ts) = 1 => ts[1] \in Thread
    OBVIOUS
  <1>1. r.monitor_waitq \in Seq(Thread)
    BY DEF MonitorStruct
  <1>2. r.monitor_waitq \o ts \in Seq(Thread)
    BY <1>1
  <1>3. Len(ts) = 1 => AddThreadToQueue(r.monitor_waitq, ts[1]) \in Seq(Thread)
    BY <1>0, <1>1, AddType
  <1>. QED
    BY <1>2, <1>3 DEF Enqueued, MonitorStruct

LEMMA WakeNewOwnerType ==
    ASSUME TypeOK, NEW w \in Thread \cup {NIL}, NEW st, NEW mo, NEW md,
           st \in [Thread -> SUBSET Flag],
           mo \in [Thread -> Monitor \cup {NIL}],
           md \in [Thread -> Int],
           WakeNewOwner(w, st, mo, md)
    PROVE  /\ state' \in [Thread -> SUBSET Flag]
           /\ monitor' \in [Thread -> Monitor \cup {NIL}]
           /\ monitor_depth' \in [Thread -> Int]
           /\ RunnableThreads' \in Seq(Thread)
  <1>1. CASE w = NIL
    BY <1>1 DEF WakeNewOwner, TypeOK
  <1>2. CASE w # NIL
    <2>1. AddThreadToQueue(RunnableThreads, w) \in Seq(Thread)
      BY <1>2, AddType DEF TypeOK
    <2>2. {"ACTIVE"} \in SUBSET Flag
      BY DEF Flag
    <2>3. state' \in [Thread -> SUBSET Flag]
      BY <1>2, <2>2 DEF WakeNewOwner, Resumed
    <2>4. monitor' \in [Thread -> Monitor \cup {NIL}]
      BY <1>2 DEF WakeNewOwner
    <2>5. monitor_depth' \in [Thread -> Int]
      BY <1>2 DEF WakeNewOwner
    <2>. QED
      BY <1>2, <2>1, <2>3, <2>4, <2>5 DEF WakeNewOwner
  <1>. QED
    BY <1>1, <1>2

LEMMA AddMonitorWaitType ==
    ASSUME TypeOK, NEW m \in Monitor, NEW r \in MonitorStruct,
           NEW ts \in Seq(Thread), NEW st, st \in [Thread -> SUBSET Flag],
           AddMonitorWait(m, r, ts, st)
    PROVE  /\ state' \in [Thread -> SUBSET Flag]
           /\ monitor' \in [Thread -> Monitor \cup {NIL}]
           /\ monitor_depth' \in [Thread -> Int]
           /\ RunnableThreads' \in Seq(Thread)
           /\ monitors' \in [Monitor -> MonitorStruct]
  <1>. DEFINE w == IF r.owner = NIL /\ ts # << >>
                   THEN QueueStart(Enqueued(r, ts).monitor_waitq, NIL) ELSE NIL
              st1 == [t \in Thread |-> IF t \in OnQueue(ts) THEN st[t] \cup {"MONITOR_WAIT"}
                                                          ELSE st[t]]
              mo1 == [t \in Thread |-> IF t \in OnQueue(ts) THEN m ELSE monitor[t]]
  <1>1. w \in Thread \cup {NIL}
    BY EnqueuedType, RemoveStartType DEF MonitorStruct
  <1>2. st1 \in [Thread -> SUBSET Flag] /\ mo1 \in [Thread -> Monitor \cup {NIL}]
    BY DEF Flag, TypeOK
  <1>3. monitor_depth \in [Thread -> Int]
    BY DEF TypeOK
  <1>4. WakeNewOwner(w, st1, mo1, monitor_depth)
    BY DEF AddMonitorWait
  <1>5. AfterMonitorWait(r, ts) \in MonitorStruct
    BY <1>3, EnqueuedType, HandedOverType DEF AfterMonitorWait
  <1>6. monitors' \in [Monitor -> MonitorStruct]
    BY <1>5 DEF AddMonitorWait, TypeOK
  <1>. QED
    BY <1>1, <1>2, <1>3, <1>4, <1>6, WakeNewOwnerType

LEMMA UpgradeType ==
    ASSUME TypeOK, NEW o \in Object, NEW m \in Monitor, NEW r \in MonitorStruct,
           UpgradeToRealMonitor(o, m, r)
    PROVE  /\ mhc' \in [Object -> MhcWord]
           /\ monitors' \in [Monitor -> MonitorStruct]
           /\ MonitorCache' \in Seq(Monitor)
           /\ extendedLock' \in [Thread -> [depth : Int, hashCode : Hash]]
  <1>1. mhc' \in [Object -> MhcWord]
    BY WordTypes DEF UpgradeToRealMonitor, TypeOK
  <1>2. monitors' \in [Monitor -> MonitorStruct]
    BY DEF UpgradeToRealMonitor, TypeOK
  <1>3. MonitorCache' \in Seq(Monitor)
    BY HeadTailProperties DEF UpgradeToRealMonitor, TypeOK
  <1>4. extendedLock' \in [Thread -> [depth : Int, hashCode : Hash]]
    <2>1. CASE mhc[o].tag = "MHC_EXTENDED_LOCK"
      <3>. DEFINE u == mhc[o].val
      <3>1. u \in Thread
        BY <2>1, MhcValues
      <3>2. extendedLock' = [extendedLock EXCEPT ![u].depth = 0]
        BY <2>1 DEF UpgradeToRealMonitor
      <3>3. extendedLock \in [Thread -> [depth : Int, hashCode : Hash]]
        BY DEF TypeOK
      <3>. QED
        BY <3>1, <3>2, <3>3
    <2>2. CASE mhc[o].tag # "MHC_EXTENDED_LOCK"
      BY <2>2 DEF UpgradeToRealMonitor, TypeOK
    <2>. QED
      BY <2>1, <2>2
  <1>. QED
    BY <1>1, <1>2, <1>3, <1>4

\* The variables an operation leaves alone keep their types.
USE DEF vars, schedVars, waitVars, alarmVars, intrVars, lockVars

LEMMA RemovePendingAlarmsType ==
    ASSUME TypeOK, NEW ts, RemovePendingAlarms(ts)
    PROVE  /\ wakeupCall' \in [Thread -> WakeupCall \cup {NIL}]
           /\ wakeupTime' \in [Thread -> Int]
  BY DEF TypeOK, RemovePendingAlarms

LEMMA RegisterAlarmType ==
    ASSUME TypeOK, NEW t \in Thread, NEW delta \in Int, NEW call \in WakeupCall,
           RegisterAlarm(t, delta, call)
    PROVE  /\ wakeupCall' \in [Thread -> WakeupCall \cup {NIL}]
           /\ wakeupTime' \in [Thread -> Int]
  BY DEF TypeOK, RegisterAlarm

LEMMA RemoveCondvarWaitType ==
    ASSUME TypeOK, NEW m \in Monitor, NEW all \in BOOLEAN,
           NEW st, st \in [Thread -> SUBSET Flag],
           RemoveCondvarWait(m, all, st)
    PROVE  /\ state' \in [Thread -> SUBSET Flag]
           /\ monitor' \in [Thread -> Monitor \cup {NIL}]
           /\ monitor_depth' \in [Thread -> Int]
           /\ RunnableThreads' \in Seq(Thread)
           /\ monitors' \in [Monitor -> MonitorStruct]
           /\ wakeupCall' \in [Thread -> WakeupCall \cup {NIL}]
           /\ wakeupTime' \in [Thread -> Int]
  <1>. DEFINE q  == monitors[m].condvar_waitq
              ts == IF all \/ q = << >> THEN q ELSE <<Head(q)>>
              r  == [monitors[m] EXCEPT !.condvar_waitq =
                       IF all THEN << >> ELSE RemoveQueueStart(@)]
  <1>1. monitors[m] \in MonitorStruct /\ q \in Seq(Thread)
    BY DEF TypeOK, MonitorStruct
  <1>2. ts \in Seq(Thread)
    BY <1>1, HeadTailProperties
  <1>3. RemoveQueueStart(q) \in Seq(Thread) /\ << >> \in Seq(Thread)
    BY <1>1, RemoveStartType, EmptySeq
  <1>4. r \in MonitorStruct
    BY <1>1, <1>3 DEF MonitorStruct
  <1>5. AddMonitorWait(m, r, ts, st) /\ RemovePendingAlarms(OnQueue(ts))
    BY DEF RemoveCondvarWait
  <1>. QED
    BY <1>2, <1>4, <1>5, AddMonitorWaitType, RemovePendingAlarmsType

LEMMA TypeEnter ==
    ASSUME TypeOK, NEW t \in Thread, NEW o \in Object, MonitorEnter(t, o)
    PROVE  TypeOK'
  <1>1. CASE MonitorEnterFast(t, o)
    <2>1. mhc' \in [Object -> MhcWord]
      BY <1>1, WordTypes DEF TypeOK, MonitorEnterFast, FastEnter
    <2>2. mhc[o].tag = "MHC_UNLOCKED" => mhc[o].val \in Hash
      BY MhcValues
    <2>3. extendedLock \in [Thread -> [depth : Int, hashCode : Hash]]
      BY DEF TypeOK
    <2>4. [extendedLock EXCEPT ![t].depth = @ + 1]
             \in [Thread -> [depth : Int, hashCode : Hash]]
      BY <2>3, SetLockDepth
    <2>5. \A h \in Hash, d \in Int :
             [extendedLock EXCEPT ![t] = [depth |-> d, hashCode |-> h]]
             \in [Thread -> [depth : Int, hashCode : Hash]]
      BY <2>3
    <2>6. extendedLock' \in [Thread -> [depth : Int, hashCode : Hash]]
      BY <1>1, <2>2, <2>3, <2>4, <2>5 DEF MonitorEnterFast, FastEnter
    <2>. QED
      BY <1>1, <2>1, <2>6 DEF MonitorEnterFast, TypeOK
  <1>2. CASE MonitorEnterReal(t, o)
    <2>1. PICK m \in Monitor :
            UpgradeToRealMonitor(o, m,
              [Upgraded(o) EXCEPT !.owner = t,
                                  !.depth = IF Owner(o) = NIL THEN 1 ELSE @ + 1])
      BY <1>2 DEF MonitorEnterReal
    <2>2. [Upgraded(o) EXCEPT !.owner = t, !.depth = IF Owner(o) = NIL THEN 1 ELSE @ + 1]
             \in MonitorStruct
      <3>1. Upgraded(o) \in MonitorStruct /\ Upgraded(o).depth \in Int
        BY UpgradedType DEF MonitorStruct
      <3>2. (IF Owner(o) = NIL THEN 1 ELSE Upgraded(o).depth + 1) \in Int
        BY <3>1
      <3>. QED
        BY <3>1, <3>2, SetOwnerAndDepth
    <2>. QED
      BY <1>2, <2>1, <2>2, UpgradeType DEF MonitorEnterReal, TypeOK
  <1>3. CASE MonitorEnterBlocked(t, o)
    <2>. DEFINE r == [Upgraded(o) EXCEPT !.monitor_waitq = AddThreadToQueue(@, t)]
    <2>1. PICK m \in Monitor : /\ UpgradeToRealMonitor(o, m, r)
                               /\ monitor' = [monitor EXCEPT ![t] = m]
      BY <1>3 DEF MonitorEnterBlocked
    <2>2. r \in MonitorStruct
      BY UpgradedType, AddType DEF MonitorStruct
    <2>3. state' \in [Thread -> SUBSET Flag]
      BY <1>3 DEF MonitorEnterBlocked, Suspended, TypeOK, Flag
    <2>4. /\ monitor' \in [Thread -> Monitor \cup {NIL}]
          /\ monitor_depth' \in [Thread -> Int]
      BY <1>3, <2>1 DEF MonitorEnterBlocked, TypeOK
    <2>. HIDE DEF r
    <2>5. /\ mhc' \in [Object -> MhcWord]
          /\ monitors' \in [Monitor -> MonitorStruct]
          /\ MonitorCache' \in Seq(Monitor)
          /\ extendedLock' \in [Thread -> [depth : Int, hashCode : Hash]]
      BY <2>1, <2>2, UpgradeType
    <2>. QED
      BY <1>3, <2>3, <2>4, <2>5 DEF MonitorEnterBlocked, Suspend, TypeOK
  <1>. QED
    BY <1>1, <1>2, <1>3 DEF MonitorEnter

LEMMA TypeExit ==
    ASSUME TypeOK, NEW t \in Thread, NEW o \in Object, MonitorExit(t, o)
    PROVE  TypeOK'
  <1>1. CASE MonitorExitFast(t, o)
    <2>1. extendedLock[t].depth \in Int /\ extendedLock[t].hashCode \in Hash
      BY DEF TypeOK
    <2>2. Unlocked(0) \in MhcWord /\ Unlocked(extendedLock[t].hashCode) \in MhcWord
      BY <2>1, WordTypes
    <2>3. mhc' \in [Object -> MhcWord]
      BY <1>1, <2>2, WordTypes DEF TypeOK, MonitorExitFast, FastExit
    <2>4. extendedLock' \in [Thread -> [depth : Int, hashCode : Hash]]
      <3>. DEFINE d == extendedLock[t].depth - 1
                  h == extendedLock[t].hashCode
      <3>1. (IF d = 1 /\ h = 0 THEN 0 ELSE d) \in Int
        BY <2>1
      <3>2. extendedLock \in [Thread -> [depth : Int, hashCode : Hash]]
        BY DEF TypeOK
      <3>3. [extendedLock EXCEPT ![t].depth = IF d = 1 /\ h = 0 THEN 0 ELSE d]
               \in [Thread -> [depth : Int, hashCode : Hash]]
        BY <3>1, <3>2, SetLockDepth
      <3>. QED
        BY <1>1, <3>2, <3>3 DEF MonitorExitFast, FastExit
    <2>. QED
      BY <1>1, <2>3, <2>4 DEF MonitorExitFast, TypeOK
  <1>2. CASE MonitorExitNested(t, o)
    <2>1. mhc[o].val \in Monitor
      BY <1>2, MhcValues DEF MonitorExitNested, HasMonitor
    <2>2. monitors' \in [Monitor -> MonitorStruct]
      <3>. DEFINE m == mhc[o].val
      <3>1. monitors[m] \in MonitorStruct /\ monitors[m].depth \in Int
        BY <2>1 DEF TypeOK, MonitorStruct
      <3>2. [monitors[m] EXCEPT !.depth = @ - 1] \in MonitorStruct
        BY <3>1, SetDepth
      <3>3. monitors' = [monitors EXCEPT ![m] = [monitors[m] EXCEPT !.depth = @ - 1]]
        BY <1>2 DEF MonitorExitNested
      <3>. HIDE DEF m
      <3>. QED
        BY <2>1, <3>2, <3>3 DEF TypeOK, m
    <2>. QED
      BY <1>2, <2>2 DEF MonitorExitNested, TypeOK
  <1>3. CASE MonitorExitRelease(t, o)
    <2>. DEFINE m == mhc[o].val
                r == HandedOver([monitors[m] EXCEPT !.depth = 0], monitor_depth)
    <2>1. m \in Monitor
      BY <1>3, MhcValues DEF MonitorExitRelease, HasMonitor
    <2>2. [monitors[m] EXCEPT !.depth = 0] \in MonitorStruct
      <3>1. monitors[m] \in MonitorStruct /\ 0 \in Int
        BY <2>1 DEF TypeOK
      <3>. QED
        BY <3>1, SetDepth
    <2>3. r \in MonitorStruct
      BY <2>2, HandedOverType DEF TypeOK
    <2>4. r.owner \in Thread \cup {NIL} /\ Unlocked(r.hashCode) \in MhcWord
      BY <2>3, WordTypes DEF MonitorStruct
    <2>. HIDE DEF r
    <2>5. /\ WakeNewOwner(r.owner, state, monitor, monitor_depth)
          /\ monitors' = [monitors EXCEPT ![m] = r]
          /\ mhc' = [mhc EXCEPT ![o] = Unlocked(r.hashCode)] \/ mhc' = mhc
          /\ MonitorCache' = <<m>> \o MonitorCache \/ MonitorCache' = MonitorCache
      BY <1>3 DEF MonitorExitRelease, r
    <2>6. /\ state' \in [Thread -> SUBSET Flag]
          /\ monitor' \in [Thread -> Monitor \cup {NIL}]
          /\ monitor_depth' \in [Thread -> Int]
          /\ RunnableThreads' \in Seq(Thread)
      BY <2>4, <2>5, WakeNewOwnerType DEF TypeOK
    <2>7. <<m>> \in Seq(Monitor)
      BY <2>1
    <2>8. MonitorCache' \in Seq(Monitor)
      <3>1. MonitorCache \in Seq(Monitor)
        BY DEF TypeOK
      <3>2. <<m>> \o MonitorCache \in Seq(Monitor)
        BY <2>7, <3>1
      <3>. QED
        BY <2>5, <3>1, <3>2
    <2>9. mhc' \in [Object -> MhcWord] /\ monitors' \in [Monitor -> MonitorStruct]
      <3>. HIDE DEF m
      <3>. QED
        BY <2>1, <2>3, <2>4, <2>5 DEF TypeOK
    <2>10. UNCHANGED <<CurrentThread, AliveThreadCount, Timeslice, alarmVars, intrVars,
                       extendedLock>>
      BY <1>3 DEF MonitorExitRelease
    <2>. HIDE DEF m
    <2>. QED
      BY <2>6, <2>8, <2>9, <2>10 DEF TypeOK, alarmVars, intrVars
  <1>. QED
    BY <1>1, <1>2, <1>3 DEF MonitorExit

LEMMA TypeWait ==
    ASSUME TypeOK, NEW t \in Thread, NEW o \in Object, NEW delta \in 0..MaxDelta,
           MonitorWait(t, o, delta)
    PROVE  TypeOK'
  <1>. DEFINE r == [Upgraded(o) EXCEPT !.condvar_waitq = AddThreadToQueue(@, t)]
              d == [monitor_depth EXCEPT ![t] = ToShort(r.depth)]
              w == QueueStart(r.monitor_waitq, NIL)
              st == Suspended([state EXCEPT ![t] = @ \cup {"CONVAR_WAIT"}], t)
  <1>1. r \in MonitorStruct
    BY UpgradedType, AddType DEF MonitorStruct
  <1>2. r.depth \in Int /\ w \in Thread \cup {NIL}
    BY <1>1, RemoveStartType DEF MonitorStruct
  <1>. HIDE DEF r
  <1>3. d \in [Thread -> Int]
    BY <1>2, ToShortType DEF TypeOK
  <1>4. st \in [Thread -> SUBSET Flag]
    BY DEF TypeOK, Suspended, Flag
  <1>5. HandedOver(r, d) \in MonitorStruct
    BY <1>1, <1>3, HandedOverType
  <1>. HIDE DEF d, w, st
  <1>6. PICK m \in Monitor :
          /\ UpgradeToRealMonitor(o, m, HandedOver(r, d))
          /\ WakeNewOwner(w, st, [monitor EXCEPT ![t] = m], d)
    BY DEF MonitorWait, r, d, w, st
  <1>7. [monitor EXCEPT ![t] = m] \in [Thread -> Monitor \cup {NIL}]
    BY DEF TypeOK
  <1>8. /\ state' \in [Thread -> SUBSET Flag]
        /\ monitor' \in [Thread -> Monitor \cup {NIL}]
        /\ monitor_depth' \in [Thread -> Int]
        /\ RunnableThreads' \in Seq(Thread)
    BY <1>2, <1>3, <1>4, <1>6, <1>7, WakeNewOwnerType
  <1>9. /\ mhc' \in [Object -> MhcWord]
        /\ monitors' \in [Monitor -> MonitorStruct]
        /\ MonitorCache' \in Seq(Monitor)
        /\ extendedLock' \in [Thread -> [depth : Int, hashCode : Hash]]
    BY <1>5, <1>6, UpgradeType
  <1>10. /\ wakeupCall' \in [Thread -> WakeupCall \cup {NIL}]
         /\ wakeupTime' \in [Thread -> Int]
    <2>1. delta \in Int /\ "monitorWaitAlarm" \in WakeupCall
      BY ConstantsAssumption DEF ConstantsAssumption, WakeupCall
    <2>2. RegisterAlarm(t, delta, "monitorWaitAlarm") \/ UNCHANGED alarmVars
      BY DEF MonitorWait
    <2>. QED
      BY <2>1, <2>2, RegisterAlarmType DEF TypeOK
  <1>. QED
    BY <1>8, <1>9, <1>10 DEF MonitorWait, Suspend, TypeOK

LEMMA TypeWaitThrows ==
    ASSUME TypeOK, NEW t \in Thread, NEW o \in Object, MonitorWaitThrows(t, o)
    PROVE  TypeOK'
  <1>1. PICK m \in Monitor : UpgradeToRealMonitor(o, m, Upgraded(o))
    BY DEF MonitorWaitThrows
  <1>2. /\ mhc' \in [Object -> MhcWord]
        /\ monitors' \in [Monitor -> MonitorStruct]
        /\ MonitorCache' \in Seq(Monitor)
        /\ extendedLock' \in [Thread -> [depth : Int, hashCode : Hash]]
    BY <1>1, UpgradedType, UpgradeType
  <1>. QED
    BY <1>2 DEF MonitorWaitThrows, TypeOK

LEMMA TypeNotify ==
    ASSUME TypeOK, NEW t \in Thread, NEW o \in Object, NEW all \in BOOLEAN,
           MonitorNotify(t, o, all)
    PROVE  TypeOK'
  <1>1. mhc[o].val \in Monitor /\ RemoveCondvarWait(mhc[o].val, all, state)
    BY MhcValues DEF MonitorNotify, HasMonitor
  <1>2. state \in [Thread -> SUBSET Flag]
    BY DEF TypeOK
  <1>3. /\ state' \in [Thread -> SUBSET Flag]
        /\ monitor' \in [Thread -> Monitor \cup {NIL}]
        /\ monitor_depth' \in [Thread -> Int]
        /\ RunnableThreads' \in Seq(Thread)
        /\ monitors' \in [Monitor -> MonitorStruct]
        /\ wakeupCall' \in [Thread -> WakeupCall \cup {NIL}]
        /\ wakeupTime' \in [Thread -> Int]
    BY <1>1, <1>2, RemoveCondvarWaitType
  <1>. QED
    BY <1>3 DEF MonitorNotify, TypeOK

LEMMA TypeHashCode ==
    ASSUME TypeOK, NEW t \in Thread, NEW o \in Object, ObjectHashCode(t, o)
    PROVE  TypeOK'
  <1>1. CASE HashCodePromotesToReal(t, o)
    <2>1. PICK m \in Monitor, h \in HashCode :
            UpgradeToRealMonitor(o, m, [Upgraded(o) EXCEPT !.hashCode = h])
      BY <1>1 DEF HashCodePromotesToReal
    <2>2. [Upgraded(o) EXCEPT !.hashCode = h] \in MonitorStruct
      BY UpgradedType DEF MonitorStruct
    <2>. QED
      BY <2>1, <2>2, UpgradeType DEF ObjectHashCode, TypeOK
  <1>2. CASE HashCodeInPlace(t, o) /\ UNCHANGED MonitorCache
    <2>. DEFINE u == mhc[o].val
    <2>1. ASSUME mhc[o].tag = "MHC_UNLOCKED",
                 NEW h \in Drawn(u), mhc' = [mhc EXCEPT ![o] = Unlocked(h)]
          PROVE  mhc' \in [Object -> MhcWord]
      <3>1. h \in Hash
        BY <2>1, MhcValues DEF Drawn
      <3>. QED
        BY <2>1, <3>1, WordTypes DEF TypeOK
    <2>2. ASSUME mhc[o].tag = "MHC_SIMPLE_LOCK", NEW h \in HashCode,
                 extendedLock' = [extendedLock EXCEPT ![u] = [depth |-> 1, hashCode |-> h]],
                 mhc' = [mhc EXCEPT ![o] = ExtendedLock(u)]
          PROVE  /\ mhc' \in [Object -> MhcWord]
                 /\ extendedLock' \in [Thread -> [depth : Int, hashCode : Hash]]
      <3>1. u \in Thread
        BY <2>2, MhcValues
      <3>2. extendedLock \in [Thread -> [depth : Int, hashCode : Hash]]
        BY DEF TypeOK
      <3>3. mhc' \in [Object -> MhcWord]
        BY <2>2, <3>1, WordTypes DEF TypeOK
      <3>. QED
        BY <2>2, <3>1, <3>2, <3>3
    <2>3. ASSUME mhc[o].tag = "MHC_EXTENDED_LOCK",
                 NEW h \in Drawn(extendedLock[u].hashCode),
                 extendedLock' = [extendedLock EXCEPT ![u].hashCode = h]
          PROVE  extendedLock' \in [Thread -> [depth : Int, hashCode : Hash]]
      <3>1. u \in Thread
        BY <2>3, MhcValues
      <3>2. extendedLock \in [Thread -> [depth : Int, hashCode : Hash]]
        BY DEF TypeOK
      <3>3. h \in Hash /\ extendedLock[u] \in [depth : Int, hashCode : Hash]
        BY <2>3, <3>1, <3>2 DEF Drawn
      <3>4. [extendedLock[u] EXCEPT !.hashCode = h] \in [depth : Int, hashCode : Hash]
        BY <3>3
      <3>5. extendedLock' = [extendedLock EXCEPT ![u] = [extendedLock[u] EXCEPT !.hashCode = h]]
        BY <2>3
      <3>. QED
        BY <3>1, <3>2, <3>4, <3>5
    <2>4. mhc' \in [Object -> MhcWord] /\
          extendedLock' \in [Thread -> [depth : Int, hashCode : Hash]]
      BY <1>2, <2>1, <2>2, <2>3 DEF HashCodeInPlace, TypeOK
    <2>. QED
      BY <1>2, <2>4 DEF ObjectHashCode, HashCodeInPlace, TypeOK
  <1>. QED
    BY <1>1, <1>2 DEF ObjectHashCode

LEMMA TypeInterrupt ==
    ASSUME TypeOK, NEW t \in Thread, NEW u \in Thread, Interrupt(t, u)
    PROVE  TypeOK'
  <1>1. CASE InterruptWaiting(u)
    <2>. DEFINE m == monitor[u]
                r == [monitors[m] EXCEPT !.condvar_waitq = RemoveFromQueue(@, u)]
    <2>1. m \in Monitor
      BY <1>1 DEF InterruptWaiting, TypeOK
    <2>2. r \in MonitorStruct
      <3>1. monitors[m] \in MonitorStruct
        BY <2>1 DEF TypeOK
      <3>. QED
        BY <3>1, RemoveType DEF MonitorStruct
    <2>. HIDE DEF m, r
    <2>3. AddMonitorWait(m, r, <<u>>, state) /\ RemovePendingAlarms({u})
      BY <1>1 DEF InterruptWaiting, m, r
    <2>4. <<u>> \in Seq(Thread) /\ state \in [Thread -> SUBSET Flag]
      BY DEF TypeOK
    <2>5. /\ state' \in [Thread -> SUBSET Flag]
          /\ monitor' \in [Thread -> Monitor \cup {NIL}]
          /\ monitor_depth' \in [Thread -> Int]
          /\ RunnableThreads' \in Seq(Thread)
          /\ monitors' \in [Monitor -> MonitorStruct]
      BY <2>1, <2>2, <2>3, <2>4, AddMonitorWaitType
    <2>6. /\ wakeupCall' \in [Thread -> WakeupCall \cup {NIL}]
          /\ wakeupTime' \in [Thread -> Int]
      BY <2>3, RemovePendingAlarmsType
    <2>7. pendingException' \in [Thread -> BOOLEAN]
      BY <1>1 DEF InterruptWaiting, TypeOK
    <2>. QED
      BY <1>1, <2>5, <2>6, <2>7 DEF Interrupt, InterruptWaiting, TypeOK
  <1>2. CASE InterruptSleeping(u)
    <2>1. state' \in [Thread -> SUBSET Flag]
      BY <1>2 DEF InterruptSleeping, Resumed, TypeOK, Flag
    <2>2. RunnableThreads' \in Seq(Thread)
      BY <1>2, AddType DEF InterruptSleeping, TypeOK
    <2>3. /\ wakeupCall' \in [Thread -> WakeupCall \cup {NIL}]
          /\ wakeupTime' \in [Thread -> Int]
      BY <1>2, RemovePendingAlarmsType DEF InterruptSleeping
    <2>. QED
      BY <1>2, <2>1, <2>2, <2>3 DEF Interrupt, InterruptSleeping, TypeOK
  <1>3. CASE InterruptLater(u)
    BY <1>3 DEF Interrupt, InterruptLater, TypeOK
  <1>. QED
    BY <1>1, <1>2, <1>3 DEF Interrupt

LEMMA TypeSleep ==
    ASSUME TypeOK, NEW t \in Thread, NEW delta \in 1..MaxDelta, Sleep(t, delta)
    PROVE  TypeOK'
  <1>1. delta \in Int /\ "resumeThread" \in WakeupCall
    BY ConstantsAssumption DEF ConstantsAssumption, WakeupCall
  <1>2. /\ wakeupCall' \in [Thread -> WakeupCall \cup {NIL}]
        /\ wakeupTime' \in [Thread -> Int]
    BY <1>1, RegisterAlarmType DEF Sleep
  <1>3. state' \in [Thread -> SUBSET Flag]
    BY DEF Sleep, Suspended, TypeOK, Flag
  <1>. QED
    BY <1>2, <1>3 DEF Sleep, Suspend, TypeOK

LEMMA TypeStart ==
    ASSUME TypeOK, NEW t \in Thread, NEW u \in Thread, Start(t, u)
    PROVE  TypeOK'
  <1>1. state' \in [Thread -> SUBSET Flag]
    BY DEF Start, Resumed, TypeOK, Flag
  <1>2. RunnableThreads' \in Seq(Thread)
    BY AddType DEF Start, TypeOK
  <1>3. /\ AliveThreadCount' = AliveThreadCount + 1
        /\ UNCHANGED <<CurrentThread, Timeslice, monitor, monitor_depth,
                       alarmVars, intrVars, lockVars>>
    BY DEF Start
  <1>. QED
    BY <1>1, <1>2, <1>3 DEF TypeOK, alarmVars, intrVars, lockVars

LEMMA TypeStop ==
    ASSUME TypeOK, NEW t \in Thread, Stop(t)
    PROVE  TypeOK'
  <1>. DEFINE o  == javaThread[t]
              st == [state EXCEPT ![t] = {"DEAD"}]
  <1>1. st \in [Thread -> SUBSET Flag]
    BY DEF TypeOK, Flag
  <1>. HIDE DEF st
  <1>2. CASE o # NIL /\ HasMonitor(o)
    <2>1. o \in Object
      BY <1>2, ConstantsAssumption DEF ConstantsAssumption
    <2>2. mhc[o].val \in Monitor
      BY <1>2, <2>1, MhcValues DEF HasMonitor
    <2>3. RemoveCondvarWait(mhc[o].val, TRUE, st)
      BY <1>2 DEF Stop, st
    <2>4. /\ state' \in [Thread -> SUBSET Flag]
          /\ monitor' \in [Thread -> Monitor \cup {NIL}]
          /\ monitor_depth' \in [Thread -> Int]
          /\ RunnableThreads' \in Seq(Thread)
          /\ monitors' \in [Monitor -> MonitorStruct]
          /\ wakeupCall' \in [Thread -> WakeupCall \cup {NIL}]
          /\ wakeupTime' \in [Thread -> Int]
      BY <1>1, <2>2, <2>3, RemoveCondvarWaitType
    <2>. QED
      BY <2>4 DEF Stop, TypeOK
  <1>3. CASE ~(o # NIL /\ HasMonitor(o))
    <2>1. /\ state' = st
          /\ UNCHANGED <<RunnableThreads, monitor, monitor_depth,
                         monitors, alarmVars>>
      BY <1>3 DEF Stop, st
    <2>2. /\ CurrentThread' = NIL /\ Timeslice' = 0
          /\ AliveThreadCount' = AliveThreadCount - 1
          /\ UNCHANGED <<intrVars, extendedLock, mhc, MonitorCache>>
      BY DEF Stop
    <2>. QED
      BY <1>1, <2>1, <2>2 DEF TypeOK
  <1>. QED
    BY <1>2, <1>3

LEMMA TypeFireAlarm ==
    ASSUME TypeOK, NEW u \in Thread, FireAlarm(u)
    PROVE  TypeOK'
  <1>1. /\ wakeupCall' \in [Thread -> WakeupCall \cup {NIL}]
        /\ wakeupTime' \in [Thread -> Int]
    BY RemovePendingAlarmsType DEF FireAlarm
  <1>2. /\ state' \in [Thread -> SUBSET Flag]
        /\ monitor' \in [Thread -> Monitor \cup {NIL}]
        /\ monitor_depth' \in [Thread -> Int]
        /\ RunnableThreads' \in Seq(Thread)
        /\ monitors' \in [Monitor -> MonitorStruct]
    <2>1. CASE wakeupCall[u] = "resumeThread"
      <3>1. state' \in [Thread -> SUBSET Flag]
        <4>1. state' = Resumed(state, u)
          BY <2>1 DEF FireAlarm
        <4>. QED
          BY <4>1 DEF Resumed, TypeOK, Flag
      <3>2. RunnableThreads' \in Seq(Thread)
        <4>1. RunnableThreads' = AddThreadToQueue(RunnableThreads, u)
          BY <2>1 DEF FireAlarm
        <4>. QED
          BY <4>1, AddType DEF TypeOK
      <3>3. UNCHANGED <<monitor, monitor_depth, monitors>>
        BY <2>1 DEF FireAlarm
      <3>. QED
        BY <3>1, <3>2, <3>3 DEF TypeOK
    <2>2. CASE wakeupCall[u] = "monitorWaitAlarm" /\ monitor[u] # NIL
      <3>. DEFINE m == monitor[u]
                  r == [monitors[m] EXCEPT !.condvar_waitq =
                          RemoveFromQueue(monitors[m].condvar_waitq, u)]
      <3>1. m \in Monitor
        BY <2>2 DEF TypeOK
      <3>2. r \in MonitorStruct
        <4>1. monitors[m] \in MonitorStruct
          BY <3>1 DEF TypeOK
        <4>. QED
          BY <4>1, RemoveType DEF MonitorStruct
      <3>. HIDE DEF m, r
      <3>3. AddMonitorWait(m, r, <<u>>, state)
        BY <2>2 DEF FireAlarm, m, r
      <3>4. <<u>> \in Seq(Thread) /\ state \in [Thread -> SUBSET Flag]
        BY DEF TypeOK
      <3>. QED
        BY <3>1, <3>2, <3>3, <3>4, AddMonitorWaitType
    <2>3. CASE /\ wakeupCall[u] # "resumeThread"
               /\ ~(wakeupCall[u] = "monitorWaitAlarm" /\ monitor[u] # NIL)
      BY <2>3 DEF FireAlarm, TypeOK
    <2>. QED
      BY <2>1, <2>2, <2>3
  <1>. QED
    BY <1>1, <1>2 DEF FireAlarm, TypeOK

LEMMA TypeSwitchThread ==
    ASSUME TypeOK, SwitchThread
    PROVE  TypeOK'
  <1>1. CASE RunnableThreads # << >> /\ CurrentThread' = Head(RunnableThreads)
    <2>1. Head(RunnableThreads) \in Thread /\ Tail(RunnableThreads) \in Seq(Thread)
      BY <1>1, HeadTailProperties DEF TypeOK
    <2>2. CurrentThread # NIL =>
            AddThreadToQueue(Tail(RunnableThreads), CurrentThread) \in Seq(Thread)
      BY <2>1, AddType DEF TypeOK
    <2>3. RunnableThreads' \in Seq(Thread) /\ pendingException' \in [Thread -> BOOLEAN]
      BY <1>1, <2>1, <2>2 DEF SwitchThread, TypeOK
    <2>. QED
      BY <1>1, <2>1, <2>3 DEF SwitchThread, TypeOK
  <1>2. CASE UNCHANGED <<CurrentThread, RunnableThreads, pendingException>>
    BY <1>2 DEF SwitchThread, TypeOK
  <1>. QED
    BY <1>1, <1>2 DEF SwitchThread

LEMMA TypeInit == Init => TypeOK
  <1>1. NewMonitor \in MonitorStruct
    BY EmptySeq DEF NewMonitor, MonitorStruct
  <1>2. Unlocked(0) \in MhcWord
    BY WordTypes
  <1>3. MainThread \in Thread
    BY ConstantsAssumption DEF ConstantsAssumption
  <1>. QED
    BY <1>1, <1>2, <1>3, EmptySeq DEF Init, TypeOK, Flag

LEMMA TypeStep ==
    ASSUME TypeOK, [Next]_vars
    PROVE  TypeOK'
  <1>1. ASSUME NEW t \in Thread, NEW o \in Object, MonitorEnter(t, o)
        PROVE  TypeOK'
    BY <1>1, TypeEnter
  <1>2. ASSUME NEW t \in Thread, NEW o \in Object, MonitorExit(t, o)
        PROVE  TypeOK'
    BY <1>2, TypeExit
  <1>3. ASSUME NEW t \in Thread, NEW o \in Object, MonitorWaitThrows(t, o)
        PROVE  TypeOK'
    BY <1>3, TypeWaitThrows
  <1>4. ASSUME NEW t \in Thread, NEW o \in Object, NEW delta \in 0..MaxDelta,
               MonitorWait(t, o, delta)
        PROVE  TypeOK'
    BY <1>4, TypeWait
  <1>5. ASSUME NEW t \in Thread, NEW o \in Object, NEW notifyAll \in BOOLEAN,
               MonitorNotify(t, o, notifyAll)
        PROVE  TypeOK'
    BY <1>5, TypeNotify
  <1>6. ASSUME NEW t \in Thread, NEW o \in Object, ObjectHashCode(t, o)
        PROVE  TypeOK'
    BY <1>6, TypeHashCode
  <1>7. ASSUME NEW t \in Thread, NEW delta \in 1..MaxDelta, Sleep(t, delta)
        PROVE  TypeOK'
    BY <1>7, TypeSleep
  <1>8. ASSUME NEW t \in Thread, SleepThrows(t) \/ Yield(t) \/ GarbageCollect(t)
        PROVE  TypeOK'
    <2>1. CASE SleepThrows(t)
      <3>1. isPendingInterrupt' \in [Thread -> BOOLEAN]
        BY <2>1 DEF SleepThrows, TypeOK
      <3>. QED
        BY <2>1, <3>1 DEF SleepThrows, TypeOK
    <2>2. CASE Yield(t)
      BY <2>2 DEF Yield, TypeOK
    <2>3. CASE GarbageCollect(t)
      BY <2>3, EmptySeq DEF GarbageCollect, TypeOK
    <2>. QED
      BY <1>8, <2>1, <2>2, <2>3
  <1>9. ASSUME NEW t \in Thread, NEW u \in Thread, Start(t, u)
        PROVE  TypeOK'
    BY <1>9, TypeStart
  <1>10. ASSUME NEW t \in Thread, NEW u \in Interruptible, Interrupt(t, u)
         PROVE  TypeOK'
    BY <1>10, TypeInterrupt, ConstantsAssumption DEF ConstantsAssumption
  <1>11. ASSUME NEW t \in Thread, Stop(t)
         PROVE  TypeOK'
    BY <1>11, TypeStop
  <1>12. ASSUME NEW t \in Thread, FireAlarm(t)
         PROVE  TypeOK'
    BY <1>12, TypeFireAlarm
  <1>13. CASE Tick
    <2>1. wakeupTime' \in [Thread -> Int]
      BY <1>13 DEF Tick, TypeOK
    <2>. QED
      BY <1>13, <2>1 DEF Tick, TypeOK
  <1>14. CASE SwitchThread
    BY <1>14, TypeSwitchThread
  <1>15. CASE UNCHANGED vars
    BY <1>15 DEF TypeOK
  <1>. QED
    BY <1>1, <1>2, <1>3, <1>4, <1>5, <1>6, <1>7, <1>8, <1>9, <1>10, <1>11,
       <1>12, <1>13, <1>14, <1>15 DEF Next

\* Every state the threads, timers and monitors reach is well typed.
THEOREM TypeCorrect == Spec => []TypeOK
  <1>1. Init => TypeOK
    BY TypeInit
  <1>2. TypeOK /\ [Next]_vars => TypeOK'
    BY TypeStep
  <1>. QED
    BY <1>1, <1>2, PTL DEF Spec

-----------------------------------------------------------------------------
(***************************************************************************)
(* The four forms of a lock: no MONITOR and no extendedLock record ever    *)
(* serves two objects, and the identity hash of an object survives every   *)
(* change of form.                                                         *)
(***************************************************************************)
\* The inductive invariant.  ExtendedLocksUnshared alone is not inductive: a
\* record with depth -1 would look free after one more MONITORENTER.
DepthsAreNatural == \A t \in Thread : extendedLock[t].depth >= 0

LockInv == MonitorsUnshared /\ ExtendedLocksUnshared /\ DepthsAreNatural

\* The variables LockInv speaks about.
formVars == <<mhc, extendedLock, MonitorCache>>

LEMMA LockInvInit == Init => LockInv
  <1>. SUFFICES ASSUME Init PROVE LockInv
    OBVIOUS
  <1>1. \A o \in Object : mhc[o].tag = "MHC_UNLOCKED"
    BY DEF Init, Unlocked
  <1>2. MonitorsUnshared
    BY <1>1 DEF Init, MonitorsUnshared, HasMonitor, NoDuplicates
  <1>3. \A t \in Thread : extendedLock[t].depth = 0
    BY DEF Init
  <1>4. ExtendedLocksUnshared
    BY <1>1, <1>3 DEF ExtendedLocksUnshared, ExtendedLockFree, ExtendedLock
  <1>. QED
    BY <1>2, <1>3, <1>4 DEF LockInv, DepthsAreNatural

LEMMA LockInvUnchanged ==
    ASSUME LockInv, UNCHANGED formVars
    PROVE  LockInv'
  BY DEF LockInv, MonitorsUnshared, ExtendedLocksUnshared, DepthsAreNatural,
         HasMonitor, ExtendedLockFree, formVars

-----------------------------------------------------------------------------
(***************************************************************************)
(* upgradeToRealMonitor().                                                 *)
(***************************************************************************)
\* The structure it attaches serves no other object and is not free any more.
LEMMA UpgradeIsExclusive ==
    ASSUME TypeOK, LockInv, NEW o \in Object, NEW m \in Monitor, IsMonitorFor(o, m)
    PROVE  /\ \A p \in Object : p # o => mhc[p] # RealMonitor(m)
           /\ HasMonitor(o) => mhc[o] = RealMonitor(m)
           /\ ~HasMonitor(o) /\ MonitorCache # << >> =>
                m \notin OnQueue(Tail(MonitorCache))
           /\ HasMonitor(o) \/ MonitorCache = << >> => m \notin OnQueue(MonitorCache)
  <1>1. CASE HasMonitor(o)
    <2>1. mhc[o] = RealMonitor(m)
      BY <1>1, MhcValues DEF IsMonitorFor, HasMonitor, RealMonitor
    <2>. QED
      BY <1>1, <2>1 DEF LockInv, MonitorsUnshared, RealMonitor, HasMonitor
  <1>2. CASE ~HasMonitor(o) /\ MonitorCache # << >>
    <2>1. MonitorCache \in Seq(Monitor) /\ m = MonitorCache[1]
      BY <1>2 DEF TypeOK, IsMonitorFor
    <2>2. m \in OnQueue(MonitorCache)
      BY <1>2, <2>1 DEF OnQueue
    <2>3. m \notin OnQueue(Tail(MonitorCache))
      <3>1. \A i \in DOMAIN Tail(MonitorCache) :
              /\ i + 1 \in DOMAIN MonitorCache
              /\ i + 1 # 1
              /\ Tail(MonitorCache)[i] = MonitorCache[i + 1]
        BY <1>2, <2>1, HeadTailProperties
      <3>2. 1 \in DOMAIN MonitorCache
        BY <1>2, <2>1
      <3>. QED
        BY <2>1, <3>1, <3>2 DEF OnQueue, LockInv, MonitorsUnshared, NoDuplicates
    <2>4. \A p \in Object : mhc[p] # RealMonitor(m)
      BY <2>2 DEF LockInv, MonitorsUnshared, RealMonitor, HasMonitor
    <2>. QED
      BY <1>2, <2>3, <2>4
  <1>3. CASE ~HasMonitor(o) /\ MonitorCache = << >>
    BY <1>3 DEF IsMonitorFor, FreeMonitors
  <1>. QED
    BY <1>1, <1>2, <1>3

LEMMA LockInvUpgrade ==
    ASSUME TypeOK, LockInv, NEW o \in Object, NEW m \in Monitor, NEW r,
           UpgradeToRealMonitor(o, m, r)
    PROVE  LockInv'
  <1>1. IsMonitorFor(o, m)
    BY DEF UpgradeToRealMonitor
  <1>2. /\ \A p \in Object : p # o => mhc[p] # RealMonitor(m)
        /\ HasMonitor(o) => mhc[o] = RealMonitor(m)
        /\ ~HasMonitor(o) /\ MonitorCache # << >> =>
             m \notin OnQueue(Tail(MonitorCache))
        /\ HasMonitor(o) \/ MonitorCache = << >> => m \notin OnQueue(MonitorCache)
    BY <1>1, UpgradeIsExclusive
  <1>3. mhc \in [Object -> MhcWord] /\ mhc' = [mhc EXCEPT ![o] = RealMonitor(m)]
    BY DEF TypeOK, UpgradeToRealMonitor
  <1>4. mhc'[o] = RealMonitor(m) /\ \A p \in Object : p # o => mhc'[p] = mhc[p]
    BY <1>3
  <1>5. MonitorsUnshared'
    <2>1. m \notin OnQueue(MonitorCache')
      BY <1>2 DEF UpgradeToRealMonitor
    <2>2. OnQueue(MonitorCache') \subseteq OnQueue(MonitorCache)
          /\ NoDuplicates(MonitorCache')
      <3>1. CASE MonitorCache' = MonitorCache
        BY <3>1 DEF LockInv, MonitorsUnshared
      <3>2. CASE MonitorCache # << >> /\ MonitorCache' = Tail(MonitorCache)
        <4>1. MonitorCache \in Seq(Monitor)
          BY DEF TypeOK
        <4>2. \A i \in DOMAIN Tail(MonitorCache) :
                i + 1 \in DOMAIN MonitorCache
                /\ Tail(MonitorCache)[i] = MonitorCache[i + 1]
          BY <3>2, <4>1, HeadTailProperties
        <4>3. \A i \in DOMAIN Tail(MonitorCache) : i \in Int
          BY <3>2, <4>1, HeadTailProperties
        <4>. QED
          BY <3>2, <4>2, <4>3 DEF OnQueue, NoDuplicates, LockInv, MonitorsUnshared
      <3>. QED
        BY <3>1, <3>2 DEF UpgradeToRealMonitor
    <2>3. \A p \in Object : p # o /\ HasMonitor(p) =>
             mhc[p].val \notin OnQueue(MonitorCache')
      BY <2>2 DEF LockInv, MonitorsUnshared
    <2>. QED
      BY <1>2, <1>4, <2>1, <2>2, <2>3
         DEF LockInv, MonitorsUnshared, HasMonitor, RealMonitor
  <1>6. /\ extendedLock \in [Thread -> [depth : Int, hashCode : Hash]]
        /\ mhc[o].tag = "MHC_EXTENDED_LOCK" => mhc[o].val \in Thread
        /\ mhc[o].tag = "MHC_EXTENDED_LOCK" => mhc[o] = ExtendedLock(mhc[o].val)
    BY MhcValues DEF TypeOK, ExtendedLock
  <1>7. ASSUME NEW t \in Thread
        PROVE  extendedLock'[t].depth =
                 IF mhc[o] = ExtendedLock(t) THEN 0 ELSE extendedLock[t].depth
    BY <1>6 DEF UpgradeToRealMonitor, ExtendedLock
  <1>8. ExtendedLocksUnshared'
    <2>1. \A p, q \in Object :
             mhc'[p].tag = "MHC_EXTENDED_LOCK" /\ mhc'[q] = mhc'[p] => q = p
      BY <1>4 DEF LockInv, ExtendedLocksUnshared, RealMonitor
    <2>2. ASSUME NEW t \in Thread
          PROVE  extendedLock'[t].depth # 0
                   <=> \E p \in Object : mhc'[p] = ExtendedLock(t)
      <3>1. CASE mhc[o] = ExtendedLock(t)
        BY <1>4, <1>7, <3>1 DEF LockInv, ExtendedLocksUnshared, ExtendedLock, RealMonitor
      <3>2. CASE mhc[o] # ExtendedLock(t)
        BY <1>4, <1>7, <3>2
           DEF LockInv, ExtendedLocksUnshared, ExtendedLockFree, ExtendedLock, RealMonitor
      <3>. QED
        BY <3>1, <3>2
    <2>. QED
      BY <2>1, <2>2 DEF ExtendedLocksUnshared, ExtendedLockFree, ExtendedLock
  <1>9. DepthsAreNatural'
    BY <1>7 DEF LockInv, DepthsAreNatural
  <1>. QED
    BY <1>5, <1>8, <1>9 DEF LockInv

-----------------------------------------------------------------------------
(***************************************************************************)
(* The fast paths: one word and one extendedLock record change.            *)
(***************************************************************************)
\* The word of o, not a monitor, takes form w, not a monitor either, and the
\* record of t gets depth d; no other record changes.
FastChange(o, t, w, d) ==
    /\ ~HasMonitor(o) /\ w.tag # "MHC_MONITOR"
    /\ \A u \in Thread : u # t => w # ExtendedLock(u) /\ mhc[o] # ExtendedLock(u)
    /\ w.tag = "MHC_EXTENDED_LOCK" => w = ExtendedLock(t)
    /\ mhc[o] # ExtendedLock(t) => ExtendedLockFree(t)
    /\ d \in Nat /\ (d # 0 <=> w = ExtendedLock(t))
    /\ mhc' = [mhc EXCEPT ![o] = w]
    /\ \A u \in Thread :
         extendedLock'[u].depth = IF u = t THEN d ELSE extendedLock[u].depth
    /\ MonitorCache' = MonitorCache

LEMMA LockInvFast ==
    ASSUME TypeOK, LockInv, NEW o \in Object, NEW t \in Thread, NEW w, NEW d,
           FastChange(o, t, w, d)
    PROVE  LockInv'
  <1>. USE DEF FastChange
  <1>1. mhc'[o] = w /\ \A p \in Object : p # o => mhc'[p] = mhc[p]
    BY DEF TypeOK
  <1>2. MonitorsUnshared'
    BY <1>1 DEF LockInv, MonitorsUnshared, HasMonitor
  <1>3. \A p \in Object : p # o => mhc[p] # ExtendedLock(t)
    BY DEF LockInv, ExtendedLocksUnshared, ExtendedLock
  <1>4. ExtendedLocksUnshared'
    <2>1. \A p, q \in Object :
             mhc'[p].tag = "MHC_EXTENDED_LOCK" /\ mhc'[q] = mhc'[p] => q = p
      BY <1>1, <1>3 DEF LockInv, ExtendedLocksUnshared
    <2>2. ASSUME NEW u \in Thread
          PROVE  extendedLock'[u].depth # 0
                   <=> \E p \in Object : mhc'[p] = ExtendedLock(u)
      <3>1. CASE u = t
        BY <1>1, <1>3, <3>1
      <3>2. CASE u # t
        BY <1>1, <3>2 DEF LockInv, ExtendedLocksUnshared, ExtendedLockFree
      <3>. QED
        BY <3>1, <3>2
    <2>. QED
      BY <2>1, <2>2 DEF ExtendedLocksUnshared, ExtendedLockFree, ExtendedLock
  <1>5. DepthsAreNatural'
    BY DEF LockInv, DepthsAreNatural
  <1>. QED
    BY <1>2, <1>4, <1>5 DEF LockInv

LEMMA LockInvEnter ==
    ASSUME TypeOK, LockInv, NEW t \in Thread, NEW o \in Object, MonitorEnter(t, o)
    PROVE  LockInv'
  <1>. USE DEF SimpleLock, ExtendedLock, Unlocked, ExtendedLockFree, HasMonitor
  <1>0. extendedLock \in [Thread -> [depth : Int, hashCode : Hash]]
    BY DEF TypeOK
  <1>1. CASE MonitorEnterFast(t, o)
    <2>1. CASE mhc[o].tag = "MHC_UNLOCKED" /\ mhc' = [mhc EXCEPT ![o] = SimpleLock(t)]
               /\ extendedLock' = extendedLock
      <3>1. \A p \in Object : p # o => mhc'[p] = mhc[p]
        BY <2>1 DEF TypeOK
      <3>2. mhc'[o] = SimpleLock(t)
        BY <2>1 DEF TypeOK
      <3>. QED
        BY <1>1, <2>1, <3>1, <3>2
           DEF MonitorEnterFast, LockInv, MonitorsUnshared, ExtendedLocksUnshared,
               DepthsAreNatural
    <2>2. CASE /\ mhc[o].tag = "MHC_UNLOCKED" /\ ExtendedLockFree(t)
               /\ mhc' = [mhc EXCEPT ![o] = ExtendedLock(t)]
               /\ extendedLock' = [extendedLock EXCEPT
                                     ![t] = [depth |-> 1, hashCode |-> mhc[o].val]]
      <3>1. \A u \in Thread :
              extendedLock'[u].depth = IF u = t THEN 1 ELSE extendedLock[u].depth
        BY <1>0, <2>2
      <3>2. MonitorCache' = MonitorCache
        BY <1>1 DEF MonitorEnterFast
      <3>3. FastChange(o, t, ExtendedLock(t), 1)
        BY <2>2, <3>1, <3>2 DEF FastChange
      <3>. QED
        BY <3>3, LockInvFast
    <2>3. CASE /\ mhc[o] = SimpleLock(t) /\ ExtendedLockFree(t)
               /\ mhc' = [mhc EXCEPT ![o] = ExtendedLock(t)]
               /\ extendedLock' = [extendedLock EXCEPT
                                     ![t] = [depth |-> 2, hashCode |-> 0]]
      <3>1. \A u \in Thread :
              extendedLock'[u].depth = IF u = t THEN 2 ELSE extendedLock[u].depth
        BY <1>0, <2>3
      <3>2. MonitorCache' = MonitorCache
        BY <1>1 DEF MonitorEnterFast
      <3>3. FastChange(o, t, ExtendedLock(t), 2)
        BY <2>3, <3>1, <3>2 DEF FastChange
      <3>. QED
        BY <3>3, LockInvFast
    <2>4. CASE /\ mhc[o] = ExtendedLock(t) /\ mhc' = mhc
               /\ extendedLock' = [extendedLock EXCEPT ![t].depth = @ + 1]
      <3>1. \A u \in Thread : extendedLock'[u].depth =
              IF u = t THEN extendedLock[u].depth + 1 ELSE extendedLock[u].depth
        BY <1>0, <2>4
      <3>2. \A u \in Thread : extendedLock[u].depth >= 0 /\ extendedLock[u].depth \in Int
        BY <1>0 DEF LockInv, DepthsAreNatural
      <3>3. extendedLock[t].depth # 0
        BY <2>4 DEF LockInv, ExtendedLocksUnshared
      <3>4. \A u \in Thread : extendedLock'[u].depth >= 0
                              /\ (extendedLock'[u].depth = 0 <=> extendedLock[u].depth = 0)
        BY <3>1, <3>2, <3>3
      <3>5. MonitorCache' = MonitorCache
        BY <1>1 DEF MonitorEnterFast
      <3>. QED
        BY <2>4, <3>4, <3>5
           DEF LockInv, MonitorsUnshared, ExtendedLocksUnshared, DepthsAreNatural
    <2>. QED
      BY <1>1, <2>1, <2>2, <2>3, <2>4 DEF MonitorEnterFast, FastEnter
  <1>2. CASE MonitorEnterReal(t, o) \/ MonitorEnterBlocked(t, o)
    <2>1. PICK m \in Monitor : \E r : UpgradeToRealMonitor(o, m, r)
      BY <1>2 DEF MonitorEnterReal, MonitorEnterBlocked
    <2>. QED
      BY <2>1, LockInvUpgrade
  <1>. QED
    BY <1>1, <1>2 DEF MonitorEnter

LEMMA LockInvExit ==
    ASSUME TypeOK, LockInv, NEW t \in Thread, NEW o \in Object, MonitorExit(t, o)
    PROVE  LockInv'
  <1>0. extendedLock \in [Thread -> [depth : Int, hashCode : Hash]]
    BY DEF TypeOK
  <1>1. CASE MonitorExitFast(t, o)
    <2>. USE DEF SimpleLock, ExtendedLock, Unlocked, ExtendedLockFree, HasMonitor
    <2>0. MonitorCache' = MonitorCache
      BY <1>1 DEF MonitorExitFast
    <2>1. CASE mhc[o] = SimpleLock(t) /\ mhc' = [mhc EXCEPT ![o] = Unlocked(0)]
               /\ extendedLock' = extendedLock
      <3>1. \A p \in Object : p # o => mhc'[p] = mhc[p]
        BY <2>1 DEF TypeOK
      <3>2. mhc'[o] = Unlocked(0)
        BY <2>1 DEF TypeOK
      <3>. QED
        BY <2>0, <2>1, <3>1, <3>2
           DEF LockInv, MonitorsUnshared, ExtendedLocksUnshared, DepthsAreNatural
    <2>2. CASE mhc[o] = ExtendedLock(t)
      <3>. DEFINE d  == extendedLock[t].depth - 1
                  h  == extendedLock[t].hashCode
                  d1 == IF d = 1 /\ h = 0 THEN 0 ELSE d
                  w  == IF d = 0 THEN Unlocked(h)
                        ELSE IF d = 1 /\ h = 0 THEN SimpleLock(t) ELSE ExtendedLock(t)
      <3>1. d \in Int /\ d >= 0
        <4>1. extendedLock[t].depth # 0
          BY <2>2 DEF LockInv, ExtendedLocksUnshared
        <4>2. extendedLock[t].depth >= 0 /\ extendedLock[t].depth \in Int
          BY <1>0 DEF LockInv, DepthsAreNatural
        <4>. QED
          BY <4>1, <4>2
      <3>2. d1 \in Int /\ d1 >= 0 /\ (d1 # 0 <=> w = ExtendedLock(t))
        BY <3>1
      <3>3. mhc' = [mhc EXCEPT ![o] = w]
        BY <1>1, <2>2 DEF MonitorExitFast, FastExit, TypeOK
      <3>4. \A u \in Thread :
              extendedLock'[u].depth = IF u = t THEN d1 ELSE extendedLock[u].depth
        BY <1>0, <1>1, <2>2 DEF MonitorExitFast, FastExit
      <3>5. /\ ~HasMonitor(o) /\ w.tag # "MHC_MONITOR"
            /\ \A u \in Thread : u # t => w # ExtendedLock(u) /\ mhc[o] # ExtendedLock(u)
            /\ w.tag = "MHC_EXTENDED_LOCK" => w = ExtendedLock(t)
        BY <2>2
      <3>. HIDE DEF w, d1, d, h
      <3>6. FastChange(o, t, w, d1)
        BY <2>0, <2>2, <3>2, <3>3, <3>4, <3>5 DEF FastChange
      <3>. QED
        BY <3>6, LockInvFast
    <2>. QED
      BY <1>1, <2>1, <2>2 DEF MonitorExitFast, FastExit
  <1>2. CASE MonitorExitNested(t, o)
    BY <1>2, LockInvUnchanged DEF MonitorExitNested, formVars
  <1>3. CASE MonitorExitRelease(t, o)
    <2>. DEFINE m == mhc[o].val
    <2>1. CASE UNCHANGED <<mhc, MonitorCache>>
      BY <1>3, <2>1, LockInvUnchanged DEF MonitorExitRelease, formVars
    <2>2. ASSUME NEW h, mhc' = [mhc EXCEPT ![o] = Unlocked(h)],
                 MonitorCache' = <<m>> \o MonitorCache
          PROVE  LockInv'
      <3>1. /\ m \in Monitor /\ m \notin OnQueue(MonitorCache)
            /\ \A p \in Object : p # o /\ HasMonitor(p) => mhc[p].val # m
        <4>1. HasMonitor(o) /\ m \in Monitor /\ m \notin OnQueue(MonitorCache)
          BY <1>3, MhcValues DEF MonitorExitRelease, LockInv, MonitorsUnshared, HasMonitor
        <4>2. ASSUME NEW p \in Object, p # o, HasMonitor(p) PROVE mhc[p].val # m
          <5>1. mhc[p] # mhc[o]
            BY <4>1, <4>2 DEF LockInv, MonitorsUnshared
          <5>2. mhc[p] = [tag |-> "MHC_MONITOR", val |-> mhc[p].val]
            BY <4>2, MhcValues DEF HasMonitor
          <5>3. mhc[o] = [tag |-> "MHC_MONITOR", val |-> mhc[o].val]
            BY <4>1, MhcValues DEF HasMonitor
          <5>. QED
            BY <5>1, <5>2, <5>3
        <4>. QED
          BY <4>1, <4>2
      <3>2. mhc'[o] = Unlocked(h) /\ \A p \in Object : p # o => mhc'[p] = mhc[p]
        BY <2>2 DEF TypeOK
      <3>3. MonitorCache \in Seq(Monitor)
        BY DEF TypeOK
      <3>4. \A i \in DOMAIN MonitorCache' :
              MonitorCache'[i] = IF i = 1 THEN m ELSE MonitorCache[i - 1]
        BY <2>2, <3>1, <3>3
      <3>5. \A i \in DOMAIN MonitorCache' : i \in Int /\ (i # 1 => i - 1 \in DOMAIN MonitorCache)
        BY <2>2, <3>1, <3>3
      <3>6. /\ \A x \in OnQueue(MonitorCache') : x = m \/ x \in OnQueue(MonitorCache)
            /\ NoDuplicates(MonitorCache')
        BY <3>1, <3>4, <3>5 DEF OnQueue, NoDuplicates, LockInv, MonitorsUnshared
      <3>7. MonitorsUnshared'
        BY <3>1, <3>2, <3>6 DEF LockInv, MonitorsUnshared, HasMonitor, Unlocked
      <3>8. extendedLock' = extendedLock /\ HasMonitor(o)
        BY <1>3 DEF MonitorExitRelease
      <3>. QED
        BY <3>2, <3>7, <3>8 DEF LockInv, ExtendedLocksUnshared, ExtendedLockFree,
             DepthsAreNatural, ExtendedLock, Unlocked, HasMonitor
    <2>. QED
      BY <1>3, <2>1, <2>2 DEF MonitorExitRelease
  <1>. QED
    BY <1>1, <1>2, <1>3 DEF MonitorExit

LEMMA LockInvHashCode ==
    ASSUME TypeOK, LockInv, NEW t \in Thread, NEW o \in Object, ObjectHashCode(t, o)
    PROVE  LockInv'
  <1>. DEFINE u == mhc[o].val
  <1>0. extendedLock \in [Thread -> [depth : Int, hashCode : Hash]]
    BY DEF TypeOK
  <1>1. CASE HashCodePromotesToReal(t, o)
    <2>1. PICK m \in Monitor : \E r : UpgradeToRealMonitor(o, m, r)
      BY <1>1 DEF HashCodePromotesToReal
    <2>. QED
      BY <2>1, LockInvUpgrade
  <1>2. CASE HashCodeInPlace(t, o) /\ UNCHANGED MonitorCache
    <2>1. ASSUME mhc[o].tag = "MHC_UNLOCKED", extendedLock' = extendedLock,
                 NEW h, mhc' = [mhc EXCEPT ![o] = Unlocked(h)]
          PROVE  LockInv'
      <3>1. mhc'[o] = Unlocked(h) /\ \A p \in Object : p # o => mhc'[p] = mhc[p]
        BY <2>1 DEF TypeOK
      <3>. QED
        BY <1>2, <2>1, <3>1 DEF LockInv, MonitorsUnshared, ExtendedLocksUnshared,
             DepthsAreNatural, ExtendedLockFree, ExtendedLock, Unlocked, HasMonitor
    <2>2. ASSUME mhc[o].tag = "MHC_SIMPLE_LOCK", ExtendedLockFree(u), NEW h,
                 extendedLock' = [extendedLock EXCEPT ![u] = [depth |-> 1, hashCode |-> h]],
                 mhc' = [mhc EXCEPT ![o] = ExtendedLock(u)]
          PROVE  LockInv'
      <3>1. u \in Thread
        BY <2>2, MhcValues
      <3>2. \A v \in Thread :
              extendedLock'[v].depth = IF v = u THEN 1 ELSE extendedLock[v].depth
        BY <1>0, <2>2, <3>1
      <3>3. /\ ~HasMonitor(o) /\ ExtendedLock(u).tag # "MHC_MONITOR"
            /\ \A v \in Thread : v # u => ExtendedLock(u) # ExtendedLock(v)
                                          /\ mhc[o] # ExtendedLock(v)
        BY <2>2 DEF HasMonitor, ExtendedLock
      <3>4. FastChange(o, u, ExtendedLock(u), 1)
        BY <1>2, <2>2, <3>1, <3>2, <3>3 DEF FastChange, ExtendedLock
      <3>. HIDE DEF u
      <3>. QED
        BY <3>1, <3>4, LockInvFast
    <2>3. ASSUME mhc[o].tag = "MHC_EXTENDED_LOCK", mhc' = mhc, NEW h,
                 extendedLock' = [extendedLock EXCEPT ![u].hashCode = h]
          PROVE  LockInv'
      <3>1. \A v \in Thread : extendedLock'[v].depth = extendedLock[v].depth
        BY <1>0, <2>3
      <3>. QED
        BY <1>2, <2>3, <3>1 DEF LockInv, MonitorsUnshared, ExtendedLocksUnshared,
             DepthsAreNatural, ExtendedLockFree, HasMonitor
    <2>4. CASE UNCHANGED <<extendedLock, mhc, monitors>>
      BY <1>2, <2>4, LockInvUnchanged DEF formVars
    <2>. QED
      BY <1>2, <2>1, <2>2, <2>3, <2>4 DEF HashCodeInPlace
  <1>. QED
    BY <1>1, <1>2 DEF ObjectHashCode

LEMMA LockInvStep ==
    ASSUME TypeOK, LockInv, [Next]_vars
    PROVE  LockInv'
  <1>1. ASSUME NEW t \in Thread, NEW o \in Object, MonitorEnter(t, o)
        PROVE  LockInv'
    BY <1>1, LockInvEnter
  <1>2. ASSUME NEW t \in Thread, NEW o \in Object, MonitorExit(t, o)
        PROVE  LockInv'
    BY <1>2, LockInvExit
  <1>3. ASSUME NEW t \in Thread, NEW o \in Object, NEW delta \in 0..MaxDelta,
               MonitorWait(t, o, delta)
        PROVE  LockInv'
    <2>1. PICK m \in Monitor : \E r : UpgradeToRealMonitor(o, m, r)
      BY <1>3 DEF MonitorWait
    <2>. QED
      BY <2>1, LockInvUpgrade
  <1>4. ASSUME NEW t \in Thread, NEW o \in Object, MonitorWaitThrows(t, o)
        PROVE  LockInv'
    <2>1. PICK m \in Monitor : \E r : UpgradeToRealMonitor(o, m, r)
      BY <1>4 DEF MonitorWaitThrows
    <2>. QED
      BY <2>1, LockInvUpgrade
  <1>5. ASSUME NEW t \in Thread, NEW o \in Object, ObjectHashCode(t, o)
        PROVE  LockInv'
    BY <1>5, LockInvHashCode
  <1>6. ASSUME NEW t \in Thread, GarbageCollect(t)
        PROVE  LockInv'
    BY <1>6 DEF GarbageCollect, LockInv, MonitorsUnshared, ExtendedLocksUnshared,
         DepthsAreNatural, HasMonitor, ExtendedLockFree, OnQueue, NoDuplicates
  <1>7. ASSUME NEW t \in Thread,
               \/ \E o \in Object, all \in BOOLEAN : MonitorNotify(t, o, all)
               \/ \E u \in Interruptible : Interrupt(t, u)
               \/ Stop(t)
               \/ FireAlarm(t)
        PROVE  LockInv'
    <2>1. UNCHANGED <<mhc, extendedLock, MonitorCache>>
      BY <1>7 DEF MonitorNotify, Interrupt, Stop, FireAlarm
    <2>. QED
      BY <2>1, LockInvUnchanged DEF formVars
  <1>8. ASSUME NEW t \in Thread,
               \/ \E delta \in 1..MaxDelta : Sleep(t, delta)
               \/ \E u \in Thread : Start(t, u)
               \/ SleepThrows(t)
               \/ Yield(t)
        PROVE  LockInv'
    <2>1. UNCHANGED lockVars
      BY <1>8 DEF Sleep, Start, SleepThrows, Yield
    <2>. QED
      BY <2>1, LockInvUnchanged DEF formVars, lockVars
  <1>9. CASE Tick \/ SwitchThread \/ UNCHANGED vars
    <2>1. UNCHANGED lockVars
      BY <1>9 DEF Tick, SwitchThread, vars
    <2>. QED
      BY <2>1, LockInvUnchanged DEF formVars, lockVars
  <1>. QED
    BY <1>1, <1>2, <1>3, <1>4, <1>5, <1>6, <1>7, <1>8, <1>9 DEF Next

\* A MONITOR is the lock of one object at most and never free at the same time,
\* whatever upgradeToRealMonitor(), monitorExit() and the collector do with
\* MonitorCache.
THEOREM MonitorsNeverShared == Spec => []MonitorsUnshared
  <1>1. Init => TypeOK /\ LockInv
    BY TypeInit, LockInvInit
  <1>2. TypeOK /\ LockInv /\ [Next]_vars => (TypeOK /\ LockInv)'
    BY TypeStep, LockInvStep
  <1>3. LockInv => MonitorsUnshared
    BY DEF LockInv
  <1>. QED
    BY <1>1, <1>2, <1>3, PTL DEF Spec

\* The one extendedLock record of a thread is in use exactly while one object,
\* and no other, has it as its lock.
THEOREM ExtendedLocksNeverShared == Spec => []ExtendedLocksUnshared
  <1>1. Init => TypeOK /\ LockInv
    BY TypeInit, LockInvInit
  <1>2. TypeOK /\ LockInv /\ [Next]_vars => (TypeOK /\ LockInv)'
    BY TypeStep, LockInvStep
  <1>3. LockInv => ExtendedLocksUnshared
    BY DEF LockInv
  <1>. QED
    BY <1>1, <1>2, <1>3, PTL DEF Spec

-----------------------------------------------------------------------------
(***************************************************************************)
(* The identity hash.                                                      *)
(***************************************************************************)
HashSteps == \A o \in Object : HashOf(o) # 0 => HashOf(o)' = HashOf(o)

\* The hash that goes with a word, in a state and in the next one.
LEMMA HashReads ==
    ASSUME NEW o \in Object
    PROVE  /\ \A h : mhc[o] = Unlocked(h) => HashOf(o) = h
           /\ \A t : mhc[o] = SimpleLock(t) => HashOf(o) = 0
           /\ \A t : mhc[o] = ExtendedLock(t) => HashOf(o) = extendedLock[t].hashCode
  BY DEF HashOf, Unlocked, SimpleLock, ExtendedLock

LEMMA HashReadsNext ==
    ASSUME NEW o \in Object
    PROVE  /\ \A h : mhc'[o] = Unlocked(h) => HashOf(o)' = h
           /\ \A t : mhc'[o] = SimpleLock(t) => HashOf(o)' = 0
           /\ \A t : mhc'[o] = ExtendedLock(t) => HashOf(o)' = extendedLock'[t].hashCode
  BY DEF HashOf, Unlocked, SimpleLock, ExtendedLock

\* The forms a word can have are told apart by their tags.
LEMMA FormsDiffer ==
    \A x, y : /\ SimpleLock(x) # ExtendedLock(y)
              /\ Unlocked(x) # SimpleLock(y)
              /\ Unlocked(x) # ExtendedLock(y)
  BY DEF Unlocked, SimpleLock, ExtendedLock

\* What an object's hash depends on.
LEMMA HashSource ==
    ASSUME TypeOK, NEW o \in Object, mhc'[o] = mhc[o],
           mhc[o].tag = "MHC_EXTENDED_LOCK" =>
             extendedLock'[mhc[o].val].hashCode = extendedLock[mhc[o].val].hashCode,
           mhc[o].tag = "MHC_MONITOR" =>
             monitors'[mhc[o].val].hashCode = monitors[mhc[o].val].hashCode
    PROVE  HashOf(o)' = HashOf(o)
  BY MhcValues DEF HashOf

\* When no word changes, nor any hash a record holds, no hash does.
LEMMA HashSteady ==
    ASSUME TypeOK, mhc' = mhc,
           \A u \in Thread : extendedLock'[u].hashCode = extendedLock[u].hashCode,
           \A m \in Monitor : monitors'[m].hashCode = monitors[m].hashCode
    PROVE  HashSteps
  BY HashSource, MhcValues DEF HashSteps

LEMMA UpgradedHash ==
    ASSUME TypeOK, NEW o \in Object
    PROVE  Upgraded(o).hashCode = HashOf(o)
  BY MhcValues DEF Upgraded, HashOf, HasMonitor, NewMonitor

\* upgradeToRealMonitor() gives o the hash of the MONITOR it attaches, and
\* every other object keeps its own.
LEMMA HashUpgrade ==
    ASSUME TypeOK, LockInv, NEW o \in Object, NEW m \in Monitor, NEW r,
           UpgradeToRealMonitor(o, m, r),
           HashOf(o) # 0 => r.hashCode = HashOf(o)
    PROVE  HashSteps
  <1>1. /\ mhc' = [mhc EXCEPT ![o] = RealMonitor(m)]
        /\ monitors' = [monitors EXCEPT ![m] = r]
        /\ IsMonitorFor(o, m)
    BY DEF UpgradeToRealMonitor
  <1>2. \A p \in Object : p # o => mhc[p] # RealMonitor(m)
    BY <1>1, UpgradeIsExclusive
  <1>3. \A u \in Thread : extendedLock'[u].hashCode = extendedLock[u].hashCode
    <2>1. extendedLock \in [Thread -> [depth : Int, hashCode : Hash]]
      BY DEF TypeOK
    <2>2. mhc[o].tag = "MHC_EXTENDED_LOCK" => mhc[o].val \in Thread
      BY MhcValues
    <2>. QED
      BY <2>1, <2>2 DEF UpgradeToRealMonitor
  <1>4. ASSUME NEW p \in Object, p # o PROVE HashOf(p)' = HashOf(p)
    <2>1. mhc'[p] = mhc[p]
      BY <1>1, <1>4 DEF TypeOK
    <2>2. mhc[p].tag = "MHC_MONITOR" => mhc[p].val \in Monitor /\ mhc[p].val # m
      BY <1>2, <1>4, MhcValues DEF RealMonitor
    <2>3. mhc[p].tag = "MHC_MONITOR" =>
            monitors'[mhc[p].val].hashCode = monitors[mhc[p].val].hashCode
      BY <1>1, <2>2 DEF TypeOK
    <2>. QED
      BY <1>3, <2>1, <2>3, HashSource, MhcValues
  <1>5. HashOf(o)' = r.hashCode
    <2>1. mhc'[o] = RealMonitor(m) /\ monitors'[m] = r
      BY <1>1 DEF TypeOK
    <2>. QED
      BY <2>1 DEF HashOf, RealMonitor
  <1>. QED
    BY <1>4, <1>5 DEF HashSteps

\* addMonitorWait() and what builds on it leave the hash of a MONITOR alone.
LEMMA HandedOverHash ==
    ASSUME NEW r \in MonitorStruct, NEW md
    PROVE  HandedOver(r, md).hashCode = r.hashCode
  BY DEF HandedOver, MonitorStruct

LEMMA AddMonitorWaitHash ==
    ASSUME TypeOK, NEW m \in Monitor, NEW r \in MonitorStruct, NEW ts \in Seq(Thread),
           NEW st, AddMonitorWait(m, r, ts, st), r.hashCode = monitors[m].hashCode
    PROVE  \A n \in Monitor : monitors'[n].hashCode = monitors[n].hashCode
  <1>1. Enqueued(r, ts) \in MonitorStruct /\ Enqueued(r, ts).hashCode = r.hashCode
    BY EnqueuedType DEF Enqueued, MonitorStruct
  <1>2. AfterMonitorWait(r, ts).hashCode = r.hashCode
    BY <1>1, HandedOverHash DEF AfterMonitorWait
  <1>. QED
    BY <1>2 DEF AddMonitorWait, TypeOK

LEMMA RemoveCondvarWaitHash ==
    ASSUME TypeOK, NEW m \in Monitor, NEW all \in BOOLEAN, NEW st,
           RemoveCondvarWait(m, all, st)
    PROVE  \A n \in Monitor : monitors'[n].hashCode = monitors[n].hashCode
  <1>. DEFINE q  == monitors[m].condvar_waitq
              ts == IF all \/ q = << >> THEN q ELSE <<Head(q)>>
              r  == [monitors[m] EXCEPT !.condvar_waitq =
                       IF all THEN << >> ELSE RemoveQueueStart(@)]
  <1>1. monitors[m] \in MonitorStruct /\ q \in Seq(Thread)
    BY DEF TypeOK, MonitorStruct
  <1>2. ts \in Seq(Thread)
    BY <1>1, HeadTailProperties
  <1>3. RemoveQueueStart(q) \in Seq(Thread) /\ << >> \in Seq(Thread)
    BY <1>1, RemoveStartType, EmptySeq
  <1>4. r \in MonitorStruct /\ r.hashCode = monitors[m].hashCode
    BY <1>1, <1>3 DEF MonitorStruct
  <1>5. AddMonitorWait(m, r, ts, st)
    BY DEF RemoveCondvarWait
  <1>. QED
    BY <1>2, <1>4, <1>5, AddMonitorWaitHash

LEMMA HashExit ==
    ASSUME TypeOK, LockInv, NEW t \in Thread, NEW o \in Object, MonitorExit(t, o)
    PROVE  HashSteps
  <1>0. extendedLock \in [Thread -> [depth : Int, hashCode : Hash]]
    BY DEF TypeOK
  <1>1. CASE MonitorExitFast(t, o)
    <2>. DEFINE d == extendedLock[t].depth - 1
                h == extendedLock[t].hashCode
    <2>1. \A u \in Thread : extendedLock'[u].hashCode = extendedLock[u].hashCode
      BY <1>0, <1>1 DEF MonitorExitFast, FastExit
    <2>2. monitors' = monitors
      BY <1>1 DEF MonitorExitFast
    <2>3. \A p \in Object : p # o => mhc'[p] = mhc[p]
      BY <1>1 DEF MonitorExitFast, FastExit, TypeOK
    <2>4. \A p \in Object : p # o => HashOf(p)' = HashOf(p)
      BY <2>1, <2>2, <2>3, HashSource, MhcValues
    <2>5. HashOf(o) # 0 => HashOf(o)' = HashOf(o)
      <3>1. CASE mhc[o] = SimpleLock(t)
        <4>1. HashOf(o) = 0
          BY <3>1, HashReads
        <4>. QED
          BY <4>1
      <3>2. CASE mhc[o] = ExtendedLock(t)
        <4>1. HashOf(o) = h
          BY <3>2, HashReads
        <4>2. \/ mhc'[o] = Unlocked(h)
              \/ mhc'[o] = SimpleLock(t) /\ h = 0
              \/ mhc'[o] = ExtendedLock(t)
          BY <1>1, <3>2, FormsDiffer DEF MonitorExitFast, FastExit, TypeOK
        <4>3. extendedLock'[t].hashCode = h
          BY <2>1
        <4>. HIDE DEF d, h
        <4>. QED
          BY <4>1, <4>2, <4>3, HashReadsNext
      <3>. QED
        BY <1>1, <3>1, <3>2 DEF MonitorExitFast, FastExit
    <2>. QED
      BY <2>4, <2>5 DEF HashSteps
  <1>2. CASE MonitorExitNested(t, o)
    <2>1. \A m \in Monitor : monitors'[m].hashCode = monitors[m].hashCode
      BY <1>2 DEF MonitorExitNested, TypeOK, MonitorStruct
    <2>. QED
      BY <1>2, <2>1, HashSteady DEF MonitorExitNested
  <1>3. CASE MonitorExitRelease(t, o)
    <2>. DEFINE m  == mhc[o].val
                r0 == [monitors[m] EXCEPT !.depth = 0]
                r  == HandedOver(r0, monitor_depth)
    <2>1. HasMonitor(o) /\ m \in Monitor /\ monitors[m] \in MonitorStruct
      BY <1>3, MhcValues DEF MonitorExitRelease, HasMonitor, TypeOK
    <2>2. r0 \in MonitorStruct /\ r0.hashCode = monitors[m].hashCode
      <3>. HIDE DEF m
      <3>1. r0 \in MonitorStruct
        BY <2>1, SetDepth DEF MonitorStruct
      <3>. QED
        BY <2>1, <3>1 DEF MonitorStruct
    <2>3. r.hashCode = monitors[m].hashCode
      BY <2>2, HandedOverHash
    <2>. HIDE DEF r, r0
    <2>4. /\ monitors' = [monitors EXCEPT ![m] = r] /\ extendedLock' = extendedLock
          /\ mhc' = mhc \/ mhc' = [mhc EXCEPT ![o] = Unlocked(r.hashCode)]
      BY <1>3 DEF MonitorExitRelease, r, r0
    <2>5. \A n \in Monitor : monitors'[n].hashCode = monitors[n].hashCode
      BY <2>1, <2>3, <2>4 DEF TypeOK
    <2>6. \A p \in Object : mhc'[p] = mhc[p] => HashOf(p)' = HashOf(p)
      BY <2>4, <2>5, HashSource, MhcValues
    <2>7. HashOf(o)' = HashOf(o)
      <3>1. CASE mhc'[o] = Unlocked(r.hashCode)
        BY <2>1, <2>3, <3>1 DEF HashOf, Unlocked, HasMonitor
      <3>. QED
        BY <2>4, <2>6, <3>1 DEF TypeOK
    <2>. QED
      BY <2>4, <2>6, <2>7 DEF HashSteps, TypeOK
  <1>. QED
    BY <1>1, <1>2, <1>3 DEF MonitorExit

LEMMA HashEnter ==
    ASSUME TypeOK, LockInv, NEW t \in Thread, NEW o \in Object, MonitorEnter(t, o)
    PROVE  HashSteps
  <1>0. extendedLock \in [Thread -> [depth : Int, hashCode : Hash]]
    BY DEF TypeOK
  <1>1. CASE MonitorEnterFast(t, o)
    <2>0. monitors' = monitors /\ FastEnter(t, o)
      BY <1>1 DEF MonitorEnterFast
    <2>1. \A p \in Object : p # o => mhc'[p] = mhc[p]
      BY <2>0 DEF FastEnter, TypeOK
    <2>2. \A u \in Thread : u # t => extendedLock'[u] = extendedLock[u]
      BY <1>0, <2>0 DEF FastEnter
    <2>3. mhc[o] = ExtendedLock(t) \/ ExtendedLockFree(t) =>
            \A p \in Object : p # o => mhc[p] # ExtendedLock(t)
      BY DEF LockInv, ExtendedLocksUnshared, ExtendedLock
    <2>4. extendedLock' = extendedLock \/ mhc[o] = ExtendedLock(t) \/ ExtendedLockFree(t)
      BY <2>0 DEF FastEnter
    <2>5. ASSUME NEW p \in Object, p # o PROVE HashOf(p)' = HashOf(p)
      <3>1. mhc[p].tag = "MHC_EXTENDED_LOCK" =>
              /\ mhc[p].val \in Thread
              /\ mhc[p] = ExtendedLock(mhc[p].val)
        BY MhcValues DEF ExtendedLock
      <3>2. mhc[p].tag = "MHC_EXTENDED_LOCK" =>
              extendedLock'[mhc[p].val].hashCode = extendedLock[mhc[p].val].hashCode
        BY <2>2, <2>3, <2>4, <2>5, <3>1
      <3>. QED
        BY <2>0, <2>1, <2>5, <3>2, HashSource
    <2>6. HashOf(o) # 0 => HashOf(o)' = HashOf(o)
      <3>1. CASE mhc[o] = Unlocked(0)
        <4>1. HashOf(o) = 0
          BY <3>1, HashReads
        <4>. QED
          BY <4>1
      <3>2. CASE mhc[o].tag = "MHC_UNLOCKED" /\ mhc[o].val # 0
        <4>1. mhc[o] \notin {Unlocked(0), SimpleLock(t), ExtendedLock(t)}
          BY <3>2 DEF Unlocked, SimpleLock, ExtendedLock
        <4>2. /\ mhc' = [mhc EXCEPT ![o] = ExtendedLock(t)]
              /\ extendedLock' = [extendedLock EXCEPT
                                    ![t] = [depth |-> 1, hashCode |-> mhc[o].val]]
          BY <2>0, <3>2, <4>1 DEF FastEnter
        <4>3. mhc'[o] = ExtendedLock(t) /\ extendedLock'[t].hashCode = mhc[o].val
          BY <1>0, <4>2 DEF TypeOK
        <4>4. HashOf(o) = mhc[o].val
          BY <3>2 DEF HashOf
        <4>. QED
          BY <4>3, <4>4, HashReadsNext
      <3>3. CASE mhc[o] = SimpleLock(t)
        <4>1. HashOf(o) = 0
          BY <3>3 DEF HashOf, SimpleLock
        <4>. QED
          BY <4>1
      <3>4. CASE mhc[o] = ExtendedLock(t)
        <4>1. mhc[o] \notin {Unlocked(0), SimpleLock(t)} /\ mhc[o].tag # "MHC_UNLOCKED"
          BY <3>4, FormsDiffer DEF ExtendedLock
        <4>2. mhc' = mhc /\ extendedLock' = [extendedLock EXCEPT ![t].depth = @ + 1]
          BY <2>0, <4>1 DEF FastEnter
        <4>3. extendedLock'[t].hashCode = extendedLock[t].hashCode
          BY <1>0, <4>2
        <4>. QED
          BY <3>4, <4>2, <4>3, HashReads, HashReadsNext
      <3>. QED
        BY <2>0, <3>1, <3>2, <3>3, <3>4 DEF FastEnter
    <2>. QED
      BY <2>5, <2>6 DEF HashSteps
  <1>2. CASE MonitorEnterReal(t, o)
    <2>. DEFINE d == IF Owner(o) = NIL THEN 1 ELSE Upgraded(o).depth + 1
                r == [Upgraded(o) EXCEPT !.owner = t, !.depth = d]
    <2>1. PICK m \in Monitor : UpgradeToRealMonitor(o, m, r)
      BY <1>2 DEF MonitorEnterReal
    <2>2. r.hashCode = HashOf(o)
      BY UpgradedHash, UpgradedType DEF MonitorStruct
    <2>. HIDE DEF r
    <2>. QED
      BY <2>1, <2>2, HashUpgrade
  <1>3. CASE MonitorEnterBlocked(t, o)
    <2>. DEFINE r == [Upgraded(o) EXCEPT !.monitor_waitq = AddThreadToQueue(@, t)]
    <2>1. PICK m \in Monitor : UpgradeToRealMonitor(o, m, r)
      BY <1>3 DEF MonitorEnterBlocked
    <2>2. r.hashCode = HashOf(o)
      BY UpgradedHash, UpgradedType DEF MonitorStruct
    <2>. HIDE DEF r
    <2>. QED
      BY <2>1, <2>2, HashUpgrade
  <1>. QED
    BY <1>1, <1>2, <1>3 DEF MonitorEnter

LEMMA HashWait ==
    ASSUME TypeOK, LockInv, NEW t \in Thread, NEW o \in Object,
           NEW delta \in 0..MaxDelta,
           MonitorWait(t, o, delta) \/ MonitorWaitThrows(t, o)
    PROVE  HashSteps
  <1>1. CASE MonitorWaitThrows(t, o)
    <2>1. PICK m \in Monitor : UpgradeToRealMonitor(o, m, Upgraded(o))
      BY <1>1 DEF MonitorWaitThrows
    <2>. QED
      BY <2>1, UpgradedHash, HashUpgrade
  <1>2. CASE MonitorWait(t, o, delta)
    <2>. DEFINE r == [Upgraded(o) EXCEPT !.condvar_waitq = AddThreadToQueue(@, t)]
                d == [monitor_depth EXCEPT ![t] = ToShort(r.depth)]
    <2>1. r \in MonitorStruct /\ r.hashCode = HashOf(o)
      BY UpgradedHash, UpgradedType, AddType DEF MonitorStruct
    <2>. HIDE DEF r
    <2>2. PICK m \in Monitor : UpgradeToRealMonitor(o, m, HandedOver(r, d))
      BY <1>2 DEF MonitorWait, r, d
    <2>3. HandedOver(r, d).hashCode = HashOf(o)
      BY <2>1, HandedOverHash
    <2>. QED
      BY <2>2, <2>3, HashUpgrade
  <1>. QED
    BY <1>1, <1>2

LEMMA HashDrawn ==
    ASSUME TypeOK, LockInv, NEW t \in Thread, NEW o \in Object, ObjectHashCode(t, o)
    PROVE  HashSteps
  <1>. DEFINE u == mhc[o].val
  <1>0. extendedLock \in [Thread -> [depth : Int, hashCode : Hash]]
    BY DEF TypeOK
  <1>1. CASE HashCodePromotesToReal(t, o)
    <2>1. PICK m \in Monitor : \E r : UpgradeToRealMonitor(o, m, r)
      BY <1>1 DEF HashCodePromotesToReal
    <2>2. HashOf(o) = 0
      BY <1>1 DEF HashCodePromotesToReal, HashOf
    <2>. QED
      BY <2>1, <2>2, HashUpgrade
  <1>2. CASE HashCodeInPlace(t, o)
    <2>1. CASE UNCHANGED <<extendedLock, mhc, monitors>>
      BY <2>1, HashSteady
    <2>2. CASE ~HasMonitor(o) /\ UNCHANGED monitors
      <3>1. \A p \in Object : p # o => mhc'[p] = mhc[p]
        BY <1>2 DEF HashCodeInPlace, TypeOK
      <3>2. ASSUME NEW p \in Object, p # o PROVE HashOf(p)' = HashOf(p)
        <4>1. CASE mhc[p].tag = "MHC_EXTENDED_LOCK"
          <5>1. mhc[p].val \in Thread /\ mhc[p] = ExtendedLock(mhc[p].val)
            BY <4>1, MhcValues DEF ExtendedLock
          <5>2. ~ExtendedLockFree(mhc[p].val)
            BY <5>1 DEF LockInv, ExtendedLocksUnshared
          <5>3. mhc[o].tag = "MHC_EXTENDED_LOCK" => mhc[p].val # u
            BY <3>2, <5>1, MhcValues DEF LockInv, ExtendedLocksUnshared, ExtendedLock
          <5>4. extendedLock'[mhc[p].val].hashCode = extendedLock[mhc[p].val].hashCode
            BY <1>0, <1>2, <5>1, <5>2, <5>3 DEF HashCodeInPlace
          <5>. QED
            BY <2>2, <3>1, <3>2, <4>1, <5>4, HashSource
        <4>. QED
          BY <2>2, <3>1, <3>2, <4>1, HashSource
      <3>3. HashOf(o) # 0 => HashOf(o)' = HashOf(o)
        <4>1. CASE mhc[o].tag = "MHC_UNLOCKED"
          <5>1. HashOf(o) = u
            BY <4>1 DEF HashOf
          <5>2. PICK h \in Drawn(u) : mhc' = [mhc EXCEPT ![o] = Unlocked(h)]
            BY <1>2, <4>1 DEF HashCodeInPlace, HasMonitor
          <5>3. mhc'[o] = Unlocked(h) /\ (u # 0 => h = u)
            BY <5>2 DEF TypeOK, Drawn
          <5>. QED
            BY <5>1, <5>3, HashReadsNext
        <4>2. CASE mhc[o].tag = "MHC_SIMPLE_LOCK"
          <5>1. HashOf(o) = 0
            BY <4>2 DEF HashOf
          <5>. QED
            BY <5>1
        <4>3. CASE mhc[o].tag = "MHC_EXTENDED_LOCK"
          <5>1. u \in Thread /\ HashOf(o) = extendedLock[u].hashCode
            BY <4>3, MhcValues DEF HashOf
          <5>2. mhc' = mhc /\ (HashOf(o) # 0 =>
                  extendedLock' = [extendedLock EXCEPT ![u].hashCode = HashOf(o)])
            BY <1>2, <4>3, <5>1 DEF HashCodeInPlace, Drawn, HasMonitor
          <5>3. HashOf(o) # 0 => extendedLock'[u].hashCode = HashOf(o)
            BY <1>0, <5>1, <5>2
          <5>. QED
            BY <4>3, <5>2, <5>3 DEF HashOf
        <4>. QED
          BY <2>2, <4>1, <4>2, <4>3, MhcValues DEF HasMonitor
      <3>. QED
        BY <3>2, <3>3 DEF HashSteps
    <2>. QED
      BY <1>2, <2>1, <2>2 DEF HashCodeInPlace, HasMonitor
  <1>. QED
    BY <1>1, <1>2 DEF ObjectHashCode

LEMMA HashStep ==
    ASSUME TypeOK, LockInv, [Next]_vars
    PROVE  HashSteps
  <1>1. ASSUME NEW t \in Thread, NEW o \in Object, MonitorEnter(t, o)
        PROVE  HashSteps
    BY <1>1, HashEnter
  <1>2. ASSUME NEW t \in Thread, NEW o \in Object, MonitorExit(t, o)
        PROVE  HashSteps
    BY <1>2, HashExit
  <1>3. ASSUME NEW t \in Thread, NEW o \in Object, MonitorWaitThrows(t, o)
        PROVE  HashSteps
    BY <1>3, HashWait, ConstantsAssumption DEF ConstantsAssumption
  <1>4. ASSUME NEW t \in Thread, NEW o \in Object, NEW delta \in 0..MaxDelta,
               MonitorWait(t, o, delta)
        PROVE  HashSteps
    BY <1>4, HashWait
  <1>5. ASSUME NEW t \in Thread, NEW o \in Object, NEW all \in BOOLEAN,
               MonitorNotify(t, o, all)
        PROVE  HashSteps
    <2>1. mhc[o].val \in Monitor /\ RemoveCondvarWait(mhc[o].val, all, state)
      BY <1>5, MhcValues DEF MonitorNotify, HasMonitor
    <2>2. \A n \in Monitor : monitors'[n].hashCode = monitors[n].hashCode
      BY <2>1, RemoveCondvarWaitHash
    <2>. QED
      BY <1>5, <2>2, HashSteady DEF MonitorNotify
  <1>6. ASSUME NEW t \in Thread, NEW o \in Object, ObjectHashCode(t, o)
        PROVE  HashSteps
    BY <1>6, HashDrawn
  <1>7. ASSUME NEW t \in Thread, Stop(t)
        PROVE  HashSteps
    <2>. DEFINE o == javaThread[t]
                st == [state EXCEPT ![t] = {"DEAD"}]
    <2>1. CASE o # NIL /\ HasMonitor(o)
      <3>1. o \in Object
        BY <2>1, ConstantsAssumption DEF ConstantsAssumption
      <3>2. mhc[o].val \in Monitor
        BY <2>1, <3>1, MhcValues DEF HasMonitor
      <3>. HIDE DEF st
      <3>3. RemoveCondvarWait(mhc[o].val, TRUE, st)
        BY <1>7, <2>1 DEF Stop, st
      <3>4. \A n \in Monitor : monitors'[n].hashCode = monitors[n].hashCode
        BY <3>2, <3>3, RemoveCondvarWaitHash
      <3>. QED
        BY <1>7, <3>4, HashSteady DEF Stop
    <2>2. CASE ~(o # NIL /\ HasMonitor(o))
      <3>1. monitors' = monitors /\ mhc' = mhc /\ extendedLock' = extendedLock
        BY <1>7, <2>2 DEF Stop
      <3>. QED
        BY <3>1, HashSteady
    <2>. QED
      BY <2>1, <2>2
  <1>8. ASSUME NEW u \in Thread, NEW m \in Monitor,
               AddMonitorWait(m, [monitors[m] EXCEPT !.condvar_waitq =
                                    RemoveFromQueue(monitors[m].condvar_waitq, u)],
                              <<u>>, state),
               mhc' = mhc, extendedLock' = extendedLock
        PROVE  HashSteps
    <2>. DEFINE r == [monitors[m] EXCEPT !.condvar_waitq =
                        RemoveFromQueue(monitors[m].condvar_waitq, u)]
    <2>1. monitors[m] \in MonitorStruct
      BY DEF TypeOK
    <2>2. r \in MonitorStruct /\ r.hashCode = monitors[m].hashCode /\ <<u>> \in Seq(Thread)
      BY <2>1, RemoveType DEF MonitorStruct
    <2>. HIDE DEF r
    <2>3. AddMonitorWait(m, r, <<u>>, state)
      BY <1>8 DEF r
    <2>4. \A n \in Monitor : monitors'[n].hashCode = monitors[n].hashCode
      BY <2>2, <2>3, AddMonitorWaitHash
    <2>. QED
      BY <1>8, <2>4, HashSteady
  <1>9. ASSUME NEW t \in Thread, NEW u \in Interruptible, Interrupt(t, u)
        PROVE  HashSteps
    <2>1. CASE InterruptWaiting(u)
      <3>1. u \in Thread /\ monitor[u] \in Monitor
        BY <2>1, ConstantsAssumption DEF ConstantsAssumption, InterruptWaiting, TypeOK
      <3>. QED
        BY <1>8, <1>9, <2>1, <3>1 DEF Interrupt, InterruptWaiting
    <2>2. CASE InterruptSleeping(u) \/ InterruptLater(u)
      <3>1. mhc' = mhc /\ extendedLock' = extendedLock /\ monitors' = monitors
        BY <1>9, <2>2 DEF Interrupt, InterruptSleeping, InterruptLater
      <3>. QED
        BY <3>1, HashSteady
    <2>. QED
      BY <1>9, <2>1, <2>2 DEF Interrupt
  <1>10. ASSUME NEW u \in Thread, FireAlarm(u)
         PROVE  HashSteps
    <2>1. CASE wakeupCall[u] = "monitorWaitAlarm" /\ monitor[u] # NIL
      <3>1. monitor[u] \in Monitor
        BY <2>1 DEF TypeOK
      <3>. QED
        BY <1>8, <1>10, <2>1, <3>1 DEF FireAlarm
    <2>2. CASE ~(wakeupCall[u] = "monitorWaitAlarm" /\ monitor[u] # NIL)
      <3>1. mhc' = mhc /\ extendedLock' = extendedLock /\ monitors' = monitors
        BY <1>10, <2>2 DEF FireAlarm
      <3>. QED
        BY <3>1, HashSteady
    <2>. QED
      BY <2>1, <2>2
  <1>11. ASSUME NEW t \in Thread, GarbageCollect(t)
         PROVE  HashSteps
    BY <1>11, HashSteady DEF GarbageCollect
  <1>12. ASSUME NEW t \in Thread,
                \/ \E delta \in 1..MaxDelta : Sleep(t, delta)
                \/ \E u \in Thread : Start(t, u)
                \/ SleepThrows(t)
                \/ Yield(t)
         PROVE  HashSteps
    <2>1. UNCHANGED lockVars
      BY <1>12 DEF Sleep, Start, SleepThrows, Yield
    <2>. QED
      BY <2>1, HashSteady DEF lockVars
  <1>13. CASE Tick \/ SwitchThread \/ UNCHANGED vars
    <2>1. UNCHANGED lockVars
      BY <1>13 DEF Tick, SwitchThread, vars
    <2>. QED
      BY <2>1, HashSteady DEF lockVars
  <1>. QED
    BY <1>1, <1>2, <1>3, <1>4, <1>5, <1>6, <1>7, <1>9, <1>10, <1>11, <1>12, <1>13
       DEF Next

\* Whatever becomes of its lock, an object never loses the identity hash that
\* objectHashCode() has drawn for it.
THEOREM HashNeverLost == Spec => HashKept
  <1>1. Init => TypeOK /\ LockInv
    BY TypeInit, LockInvInit
  <1>2. TypeOK /\ LockInv /\ [Next]_vars => (TypeOK /\ LockInv)'
    BY TypeStep, LockInvStep
  <1>3. TypeOK /\ LockInv /\ [Next]_vars =>
          [\A o \in Object : HashOf(o) # 0 => HashOf(o)' = HashOf(o)]_vars
    BY HashStep DEF HashSteps
  <1>. QED
    BY <1>1, <1>2, <1>3, PTL DEF Spec, HashKept

-----------------------------------------------------------------------------
(***************************************************************************)
(* Where the threads are: every thread is in the one place its flags name, *)
(* through every hand-over of a monitor, notification, timeout, interrupt  *)
(* and thread switch, as long as the program does not interrupt a thread   *)
(* whose wait() has ended already (RepeatInterrupt; the run lost_waiter    *)
(* shows what happens if it does).                                         *)
(***************************************************************************)

-----------------------------------------------------------------------------
(***************************************************************************)
(* Queues as sets of threads.                                              *)
(***************************************************************************)
LEMMA EmptyQueue == OnQueue(<< >>) = {} /\ NoDuplicates(<< >>)
  BY DEF OnQueue, NoDuplicates

LEMMA QueueMember ==
    ASSUME NEW S, NEW q \in Seq(S), NEW t
    PROVE  /\ t \in OnQueue(q) <=> \E i \in 1..Len(q) : q[i] = t
           /\ q = << >> <=> OnQueue(q) = {}
           /\ q # << >> => Head(q) \in OnQueue(q) /\ Head(q) \in S
           /\ OnQueue(q) \subseteq S
  BY DEF OnQueue

LEMMA SingleQueue ==
    ASSUME NEW t
    PROVE  OnQueue(<<t>>) = {t} /\ NoDuplicates(<<t>>)
  BY DEF OnQueue, NoDuplicates

\* addThreadToQueue() of a thread that is not on the queue.
LEMMA AddedQueue ==
    ASSUME NEW S, NEW q \in Seq(S), NEW t \in S, t \notin OnQueue(q)
    PROVE  /\ AddThreadToQueue(q, t) = Append(q, t)
           /\ OnQueue(AddThreadToQueue(q, t)) = OnQueue(q) \cup {t}
           /\ NoDuplicates(q) => NoDuplicates(AddThreadToQueue(q, t))
  <1>1. AddThreadToQueue(q, t) = Append(q, t)
    BY DEF AddThreadToQueue
  <1>2. /\ Append(q, t) \in Seq(S)
        /\ Len(Append(q, t)) = Len(q) + 1
        /\ \A i \in 1..Len(q) : Append(q, t)[i] = q[i]
        /\ Append(q, t)[Len(q) + 1] = t
    OBVIOUS
  <1>3. OnQueue(Append(q, t)) = OnQueue(q) \cup {t}
    <2>1. \A x : x \in OnQueue(Append(q, t)) => x \in OnQueue(q) \cup {t}
      BY <1>2 DEF OnQueue
    <2>2. \A x : x \in OnQueue(q) \cup {t} => x \in OnQueue(Append(q, t))
      BY <1>2 DEF OnQueue
    <2>. QED
      BY <2>1, <2>2
  <1>4. NoDuplicates(q) => NoDuplicates(Append(q, t))
    BY <1>2 DEF NoDuplicates, OnQueue
  <1>. QED
    BY <1>1, <1>3, <1>4

\* removeQueueStart().
LEMMA TailQueue ==
    ASSUME NEW S, NEW q \in Seq(S), q # << >>, NoDuplicates(q)
    PROVE  /\ OnQueue(Tail(q)) = OnQueue(q) \ {Head(q)}
           /\ NoDuplicates(Tail(q))
           /\ Tail(q) \in Seq(S)
  <1>1. /\ Tail(q) \in Seq(S)
        /\ Len(Tail(q)) = Len(q) - 1
        /\ \A i \in 1..(Len(q) - 1) : Tail(q)[i] = q[i + 1]
        /\ Head(q) = q[1] /\ Len(q) \in Nat /\ Len(q) >= 1
    BY HeadTailProperties
  <1>2. NoDuplicates(Tail(q))
    BY <1>1 DEF NoDuplicates
  <1>3. \A x : x \in OnQueue(Tail(q)) => x \in OnQueue(q) \ {Head(q)}
    BY <1>1 DEF OnQueue, NoDuplicates
  <1>4. \A x : x \in OnQueue(q) \ {Head(q)} => x \in OnQueue(Tail(q))
    <2>1. ASSUME NEW i \in 1..Len(q), q[i] # Head(q)
          PROVE  i - 1 \in 1..Len(Tail(q)) /\ Tail(q)[i - 1] = q[i]
      BY <1>1, <2>1
    <2>2. ASSUME NEW x \in OnQueue(q) \ {Head(q)}
          PROVE  x \in OnQueue(Tail(q))
      <3>1. PICK i \in 1..Len(q) : q[i] = x
        BY DEF OnQueue
      <3>2. i - 1 \in 1..Len(Tail(q)) /\ Tail(q)[i - 1] = x
        BY <2>1, <3>1
      <3>3. DOMAIN Tail(q) = 1..Len(Tail(q))
        BY <1>1
      <3>. QED
        BY <3>2, <3>3 DEF OnQueue
    <2>. QED
      BY <2>2
  <1>. QED
    BY <1>1, <1>2, <1>3, <1>4

LEMMA ConcatQueue ==
    ASSUME NEW S, NEW q \in Seq(S), NEW p \in Seq(S)
    PROVE  /\ OnQueue(q \o p) = OnQueue(q) \cup OnQueue(p)
           /\ NoDuplicates(q) /\ NoDuplicates(p) /\ OnQueue(q) \cap OnQueue(p) = {}
                => NoDuplicates(q \o p)
  <1>1. /\ q \o p \in Seq(S)
        /\ Len(q \o p) = Len(q) + Len(p)
        /\ \A i \in 1..Len(q) : (q \o p)[i] = q[i]
        /\ \A i \in 1..Len(p) : (q \o p)[Len(q) + i] = p[i]
        /\ Len(q) \in Nat /\ Len(p) \in Nat
    OBVIOUS
  <1>. DEFINE c == q \o p
  <1>. HIDE DEF c
  <1>2. \A i \in 1..Len(c) : i \in 1..Len(q) \/ i - Len(q) \in 1..Len(p)
    BY <1>1 DEF c
  <1>3. \A i \in 1..Len(c) : i \notin 1..Len(q) => c[i] = p[i - Len(q)]
    BY <1>1 DEF c
  <1>4. \A x : x \in OnQueue(c) => x \in OnQueue(q) \cup OnQueue(p)
    BY <1>1, <1>2, <1>3 DEF OnQueue, c
  <1>5. \A x : x \in OnQueue(q) => x \in OnQueue(c)
    BY <1>1 DEF OnQueue, c
  <1>6. \A x : x \in OnQueue(p) => x \in OnQueue(c)
    <2>1. \A i \in 1..Len(p) : Len(q) + i \in 1..Len(c)
      BY <1>1 DEF c
    <2>. QED
      BY <1>1, <2>1 DEF OnQueue, c
  <1>7. ASSUME NoDuplicates(q), NoDuplicates(p), OnQueue(q) \cap OnQueue(p) = {}
        PROVE  NoDuplicates(c)
    <2>1. \A i \in 1..Len(q), j \in 1..Len(p) : q[i] # p[j]
      BY <1>7 DEF OnQueue
    <2>2. DOMAIN c = 1..Len(c) /\ DOMAIN q = 1..Len(q) /\ DOMAIN p = 1..Len(p)
      BY <1>1 DEF c
    <2>. QED
      BY <1>1, <1>2, <1>3, <1>7, <2>1, <2>2 DEF NoDuplicates, c
  <1>. QED
    BY <1>4, <1>5, <1>6, <1>7 DEF c

\* removeFromQueue() of a thread that is on the queue.
LEMMA RemovedQueue ==
    ASSUME NEW S, NEW q \in Seq(S), NEW t \in OnQueue(q), NoDuplicates(q)
    PROVE  /\ OnQueue(RemoveFromQueue(q, t)) = OnQueue(q) \ {t}
           /\ NoDuplicates(RemoveFromQueue(q, t))
           /\ \E i \in 1..Len(q) :
                /\ q[i] = t
                /\ RemoveFromQueue(q, t) = SubSeq(q, 1, i - 1) \o SubSeq(q, i + 1, Len(q))
  <1>. DEFINE i == IndexOf(q, t)
              a == SubSeq(q, 1, i - 1)
              b == SubSeq(q, i + 1, Len(q))
  <1>1. i \in 1..Len(q) /\ q[i] = t /\ Len(q) \in Nat
    BY IndexOfType
  <1>2. RemoveFromQueue(q, t) = a \o b
    BY DEF RemoveFromQueue, WithoutIndex
  <1>. HIDE DEF i
  <1>3. /\ a \in Seq(S) /\ Len(a) = i - 1
        /\ \A k \in 1..(i - 1) : a[k] = q[k]
    BY <1>1, SubSeqProperties
  <1>4. /\ b \in Seq(S) /\ Len(b) = Len(q) - i
        /\ \A k \in 1..(Len(q) - i) : b[k] = q[i + k]
    BY <1>1, SubSeqProperties
  <1>. HIDE DEF a, b
  <1>5. \A j, k \in 1..Len(q) : q[j] = q[k] => j = k
    BY DEF NoDuplicates
  <1>6. NoDuplicates(a) /\ NoDuplicates(b)
    <2>1. DOMAIN a = 1..Len(a) /\ DOMAIN b = 1..Len(b)
      BY <1>3, <1>4
    <2>2. \A k \in 1..(i - 1) : k \in 1..Len(q)
      BY <1>1
    <2>3. \A k \in 1..(Len(q) - i) : i + k \in 1..Len(q)
      BY <1>1
    <2>4. NoDuplicates(a)
      BY <1>3, <1>5, <2>1, <2>2 DEF NoDuplicates
    <2>5. ASSUME NEW j \in 1..(Len(q) - i), NEW k \in 1..(Len(q) - i), b[j] = b[k]
          PROVE  j = k
      <3>1. i + j = i + k
        BY <1>4, <1>5, <2>3, <2>5
      <3>. QED
        BY <1>1, <3>1
    <2>. QED
      BY <1>4, <2>1, <2>4, <2>5 DEF NoDuplicates
  <1>7. \A x : x \in OnQueue(a) <=> \E k \in 1..Len(q) : k < i /\ q[k] = x
    <2>1. \A k : k \in 1..(i - 1) <=> k \in 1..Len(q) /\ k < i
      BY <1>1
    <2>2. \A x : x \in OnQueue(a) <=> \E k \in 1..(i - 1) : a[k] = x
      BY <1>3 DEF OnQueue
    <2>. QED
      BY <1>3, <2>1, <2>2
  <1>8. \A x : x \in OnQueue(b) <=> \E k \in 1..Len(q) : k > i /\ q[k] = x
    <2>1. \A k \in 1..Len(q) : k > i => k - i \in 1..(Len(q) - i) /\ b[k - i] = q[k]
      BY <1>1, <1>4
    <2>2. \A k \in 1..(Len(q) - i) : i + k \in 1..Len(q) /\ i + k > i
      BY <1>1
    <2>3. \A x : x \in OnQueue(b) <=> \E k \in 1..(Len(q) - i) : b[k] = x
      BY <1>4 DEF OnQueue
    <2>. QED
      BY <1>4, <2>1, <2>2, <2>3
  <1>9. OnQueue(a) \cap OnQueue(b) = {}
    BY <1>1, <1>5, <1>7, <1>8
  <1>10. OnQueue(a) \cup OnQueue(b) = OnQueue(q) \ {t}
    <2>1. \A x : x \in OnQueue(q) <=> \E k \in 1..Len(q) : q[k] = x
      BY DEF OnQueue
    <2>2. \A k \in 1..Len(q) : k # i => k < i \/ k > i
      BY <1>1
    <2>3. \A x : x \in OnQueue(a) \cup OnQueue(b) <=> x \in OnQueue(q) \ {t}
      BY <1>1, <1>5, <1>7, <1>8, <2>1, <2>2
    <2>. QED
      BY <2>3
  <1>11. OnQueue(a \o b) = OnQueue(q) \ {t} /\ NoDuplicates(a \o b)
    BY <1>3, <1>4, <1>6, <1>9, <1>10, ConcatQueue
  <1>. QED
    BY <1>1, <1>2, <1>11 DEF a, b
-----------------------------------------------------------------------------
(***************************************************************************)
(* The inductive invariant, over any values of the variables it speaks     *)
(* about, so that it can be stated of the middle of a step as well: after  *)
(* the threads that leave wait() have been queued for the lock, say, and   *)
(* before the lock is handed to the first of them.                         *)
(***************************************************************************)
FlagSets ==
    {{"JUST_BORN"}, {"DEAD"}, {"ACTIVE"}, {"ACTIVE", "SUSPENDED"},
     {"ACTIVE", "SUSPENDED", "MONITOR_WAIT"},
     {"ACTIVE", "SUSPENDED", "CONVAR_WAIT"},
     {"ACTIVE", "SUSPENDED", "CONVAR_WAIT", "MONITOR_WAIT"}}

Ready(s)  == s = {"ACTIVE"}
Asleep(s) == s = {"ACTIVE", "SUSPENDED"}
InLine(s) == "MONITOR_WAIT" \in s
InWait(s) == "CONVAR_WAIT" \in s /\ "MONITOR_WAIT" \notin s

\* With current thread ct, run queue R, state fields st, monitor fields mo and
\* MONITORs ms, every thread is where its flags say.
Placed(ct, R, st, mo, ms) ==
    /\ NoDuplicates(R)
    /\ \A m \in Monitor : /\ NoDuplicates(ms[m].monitor_waitq)
                          /\ NoDuplicates(ms[m].condvar_waitq)
    /\ \A t \in Thread :
         /\ st[t] \in FlagSets
         /\ Ready(st[t]) <=> t = ct \/ t \in OnQueue(R)
         /\ t = ct => t \notin OnQueue(R)
         /\ InLine(st[t]) \/ InWait(st[t]) <=> mo[t] # NIL
         /\ \A m \in Monitor :
              /\ t \in OnQueue(ms[m].monitor_waitq) <=> InLine(st[t]) /\ mo[t] = m
              /\ t \in OnQueue(ms[m].condvar_waitq) <=> InWait(st[t]) /\ mo[t] = m

\* An alarm is set for every sleeping thread, and otherwise for waiting ones only.
AlarmsFit(st, wc) ==
    \A t \in Thread :
        /\ wc[t] = "resumeThread" <=> Asleep(st[t])
        /\ wc[t] = "monitorWaitAlarm" => InWait(st[t])

\* A thread that has an InterruptedException to throw can run or is in line.
InterruptsFit(ct, R, st, pe) ==
    \A t \in Thread : pe[t] => t # ct /\ (t \in OnQueue(R) \/ InLine(st[t]))

\* Only the MONITOR of an object has threads on its queues.
Attached(ms, words) ==
    \A m \in Monitor :
        \/ \E o \in Object : words[o] = RealMonitor(m)
        \/ ms[m].monitor_waitq = << >> /\ ms[m].condvar_waitq = << >>

QueueInv ==
    /\ Placed(CurrentThread, RunnableThreads, state, monitor, monitors)
    /\ AlarmsFit(state, wakeupCall)
    /\ InterruptsFit(CurrentThread, RunnableThreads, state, pendingException)
    /\ Attached(monitors, mhc)

-----------------------------------------------------------------------------
(***************************************************************************)
(* The flags.                                                              *)
(***************************************************************************)
LEMMA FlagSetsApart ==
    ASSUME NEW s \in FlagSets
    PROVE  /\ Ready(s) => ~Asleep(s) /\ ~InLine(s) /\ ~InWait(s)
           /\ Asleep(s) => ~InLine(s) /\ ~InWait(s)
           /\ InLine(s) \/ InWait(s) \/ Asleep(s) <=> "SUSPENDED" \in s
           /\ "CONVAR_WAIT" \in s => InLine(s) \/ InWait(s)
  BY DEF FlagSets, Ready, Asleep, InLine, InWait

\* The flags the routines set, one after the other.
LEMMA FlagSteps ==
    /\ {"ACTIVE"} \in FlagSets /\ Ready({"ACTIVE"})
    /\ {"DEAD"} \in FlagSets /\ ~Ready({"DEAD"}) /\ ~Asleep({"DEAD"})
    /\ ~InLine({"DEAD"}) /\ ~InWait({"DEAD"})
    /\ {"JUST_BORN"} \in FlagSets /\ ~Ready({"JUST_BORN"}) /\ ~Asleep({"JUST_BORN"})
    /\ ~InLine({"JUST_BORN"}) /\ ~InWait({"JUST_BORN"})
    /\ \A s \in FlagSets :
         /\ InWait(s) => s \cup {"MONITOR_WAIT"} \in FlagSets
         /\ InLine(s \cup {"MONITOR_WAIT"}) /\ ~InWait(s \cup {"MONITOR_WAIT"})
         /\ ~Ready(s \cup {"MONITOR_WAIT"}) /\ ~Asleep(s \cup {"MONITOR_WAIT"})
    /\ \A s : Ready(s) =>
         /\ s \cup {"SUSPENDED"} \in FlagSets /\ Asleep(s \cup {"SUSPENDED"})
         /\ (s \cup {"MONITOR_WAIT"}) \cup {"SUSPENDED"} \in FlagSets
         /\ InLine((s \cup {"MONITOR_WAIT"}) \cup {"SUSPENDED"})
         /\ (s \cup {"CONVAR_WAIT"}) \cup {"SUSPENDED"} \in FlagSets
         /\ InWait((s \cup {"CONVAR_WAIT"}) \cup {"SUSPENDED"})
  <1>1. \A s \in FlagSets : InWait(s) => s \cup {"MONITOR_WAIT"} \in FlagSets
    <2>1. \A s \in FlagSets : InWait(s) => s = {"ACTIVE", "SUSPENDED", "CONVAR_WAIT"}
      BY DEF FlagSets, InWait
    <2>2. {"ACTIVE", "SUSPENDED", "CONVAR_WAIT"} \cup {"MONITOR_WAIT"}
            = {"ACTIVE", "SUSPENDED", "CONVAR_WAIT", "MONITOR_WAIT"}
      OBVIOUS
    <2>. QED
      BY <2>1, <2>2 DEF FlagSets
  <1>2. \A s : Ready(s) =>
         /\ s \cup {"SUSPENDED"} = {"ACTIVE", "SUSPENDED"}
         /\ (s \cup {"MONITOR_WAIT"}) \cup {"SUSPENDED"}
              = {"ACTIVE", "SUSPENDED", "MONITOR_WAIT"}
         /\ (s \cup {"CONVAR_WAIT"}) \cup {"SUSPENDED"}
              = {"ACTIVE", "SUSPENDED", "CONVAR_WAIT"}
    BY DEF Ready
  <1>3. \A s : /\ InLine(s \cup {"MONITOR_WAIT"}) /\ ~InWait(s \cup {"MONITOR_WAIT"})
               /\ ~Ready(s \cup {"MONITOR_WAIT"}) /\ ~Asleep(s \cup {"MONITOR_WAIT"})
    BY DEF InLine, InWait, Ready, Asleep
  <1>4. /\ {"ACTIVE"} \in FlagSets /\ Ready({"ACTIVE"})
        /\ {"DEAD"} \in FlagSets /\ ~Ready({"DEAD"}) /\ ~Asleep({"DEAD"})
        /\ ~InLine({"DEAD"}) /\ ~InWait({"DEAD"})
        /\ {"JUST_BORN"} \in FlagSets /\ ~Ready({"JUST_BORN"}) /\ ~Asleep({"JUST_BORN"})
        /\ ~InLine({"JUST_BORN"}) /\ ~InWait({"JUST_BORN"})
    BY DEF FlagSets, Ready, Asleep, InLine, InWait
  <1>5. \A s : Ready(s) =>
         /\ s \cup {"SUSPENDED"} \in FlagSets /\ Asleep(s \cup {"SUSPENDED"})
         /\ (s \cup {"MONITOR_WAIT"}) \cup {"SUSPENDED"} \in FlagSets
         /\ InLine((s \cup {"MONITOR_WAIT"}) \cup {"SUSPENDED"})
         /\ (s \cup {"CONVAR_WAIT"}) \cup {"SUSPENDED"} \in FlagSets
         /\ InWait((s \cup {"CONVAR_WAIT"}) \cup {"SUSPENDED"})
    BY <1>2 DEF FlagSets, Asleep, InLine, InWait
  <1>. QED
    BY <1>1, <1>3, <1>4, <1>5

-----------------------------------------------------------------------------
(***************************************************************************)
(* Moves of threads, each over the values it starts from and ends with.    *)
(***************************************************************************)
\* Only the queues of the MONITORs count.
LEMMA SameQueues ==
    ASSUME NEW ct, NEW R, NEW st, NEW mo, NEW ms, NEW ns, Placed(ct, R, st, mo, ms),
           \A m \in Monitor : /\ ns[m].monitor_waitq = ms[m].monitor_waitq
                              /\ ns[m].condvar_waitq = ms[m].condvar_waitq
    PROVE  Placed(ct, R, st, mo, ns)
  BY DEF Placed

IsQueue(q) == q \in Seq(Thread)
AreFlags(st) == st \in [Thread -> SUBSET Flag]
AreMonitors(mo) == mo \in [Thread -> Monitor \cup {NIL}]
IsFirst(w, q) == q \in Seq(Thread) /\ q # << >> /\ w = Head(q)

\* The first thread in line is not in any other place.
LEMMA FirstInLine ==
    ASSUME NEW ct, NEW R \in Seq(Thread), NEW st, NEW mo, NEW ms, NEW m \in Monitor,
           NEW w, Placed(ct, R, st, mo, ms), IsFirst(w, ms[m].monitor_waitq)
    PROVE  /\ w \in Thread /\ w # ct /\ w \notin OnQueue(R)
           /\ w \in OnQueue(ms[m].monitor_waitq)
           /\ InLine(st[w]) /\ mo[w] = m /\ st[w] \in FlagSets
           /\ ~Ready(st[w]) /\ ~InWait(st[w]) /\ ~Asleep(st[w])
           /\ OnQueue(AddThreadToQueue(R, w)) = OnQueue(R) \cup {w}
           /\ NoDuplicates(AddThreadToQueue(R, w))
  <1>1. w \in Thread /\ w \in OnQueue(ms[m].monitor_waitq)
    BY QueueMember DEF IsFirst
  <1>2. InLine(st[w]) /\ mo[w] = m /\ st[w] \in FlagSets
    BY <1>1 DEF Placed
  <1>3. ~Ready(st[w]) /\ ~InWait(st[w]) /\ ~Asleep(st[w])
    BY <1>2, FlagSetsApart DEF InWait, InLine
  <1>4. w # ct /\ w \notin OnQueue(R)
    BY <1>1, <1>3 DEF Placed
  <1>5. /\ OnQueue(AddThreadToQueue(R, w)) = OnQueue(R) \cup {w}
        /\ NoDuplicates(AddThreadToQueue(R, w))
    BY <1>1, <1>4, AddedQueue DEF Placed
  <1>. QED
    BY <1>1, <1>2, <1>3, <1>4, <1>5

\* removeMonitorWait(): the first thread in line becomes runnable.
LEMMA FirstInLineResumes ==
    ASSUME NEW ct, NEW R \in Seq(Thread), NEW st, NEW mo, NEW ms,
           NEW st2, NEW mo2, NEW ms2, NEW m \in Monitor, NEW w,
           Placed(ct, R, st, mo, ms), IsFirst(w, ms[m].monitor_waitq),
           \A t \in Thread : /\ st2[t] = IF t = w THEN {"ACTIVE"} ELSE st[t]
                             /\ mo2[t] = IF t = w THEN NIL ELSE mo[t],
           ms2[m].monitor_waitq = Tail(ms[m].monitor_waitq),
           ms2[m].condvar_waitq = ms[m].condvar_waitq,
           \A n \in Monitor \ {m} : ms2[n] = ms[n]
    PROVE  Placed(ct, AddThreadToQueue(R, w), st2, mo2, ms2)
  <1>. DEFINE q == ms[m].monitor_waitq
  <1>0. w \in Thread
    BY QueueMember DEF IsFirst
  <1>1. /\ w \in OnQueue(q) /\ InLine(st[w]) /\ mo[w] = m
        /\ ~Ready(st[w]) /\ ~InWait(st[w])
        /\ w # ct /\ w \notin OnQueue(R)
        /\ OnQueue(AddThreadToQueue(R, w)) = OnQueue(R) \cup {w}
        /\ NoDuplicates(AddThreadToQueue(R, w))
    BY FirstInLine
  <1>2. /\ OnQueue(Tail(q)) = OnQueue(q) \ {w}
        /\ NoDuplicates(Tail(q))
    BY TailQueue DEF Placed, IsFirst
  <1>3. /\ {"ACTIVE"} \in FlagSets /\ Ready({"ACTIVE"})
        /\ ~InLine({"ACTIVE"}) /\ ~InWait({"ACTIVE"})
    BY FlagSteps, FlagSetsApart
  <1>4. ASSUME NEW n \in Monitor
        PROVE  /\ NoDuplicates(ms2[n].monitor_waitq)
               /\ NoDuplicates(ms2[n].condvar_waitq)
               /\ \A t \in Thread :
                    /\ t \in OnQueue(ms2[n].monitor_waitq)
                         <=> t # w /\ t \in OnQueue(ms[n].monitor_waitq)
                    /\ t \in OnQueue(ms2[n].condvar_waitq)
                         <=> t # w /\ t \in OnQueue(ms[n].condvar_waitq)
    <2>1. w \notin OnQueue(ms[n].condvar_waitq)
      BY <1>0, <1>1 DEF Placed
    <2>2. CASE n = m
      BY <1>2, <2>1, <2>2 DEF Placed
    <2>3. CASE n # m
      <3>1. ms2[n] = ms[n]
        BY <2>3
      <3>2. w \notin OnQueue(ms[n].monitor_waitq)
        BY <1>0, <1>1, <2>3 DEF Placed
      <3>. QED
        BY <2>1, <3>1, <3>2 DEF Placed
    <2>. QED
      BY <2>2, <2>3
  <1>5. NIL \notin Monitor
    BY ConstantsAssumption DEF ConstantsAssumption
  <1>6. ASSUME NEW t \in Thread
         PROVE  /\ st2[t] \in FlagSets
                /\ Ready(st2[t]) <=> t = ct \/ t \in OnQueue(R) \cup {w}
                /\ t = ct => t \notin OnQueue(R) \cup {w}
                /\ InLine(st2[t]) \/ InWait(st2[t]) <=> mo2[t] # NIL
                /\ \A n \in Monitor :
                     /\ t \in OnQueue(ms2[n].monitor_waitq) <=> InLine(st2[t]) /\ mo2[t] = n
                     /\ t \in OnQueue(ms2[n].condvar_waitq) <=> InWait(st2[t]) /\ mo2[t] = n
    <2>1. CASE t = w
      BY <1>1, <1>3, <1>4, <2>1
    <2>2. CASE t # w
      BY <1>4, <2>2 DEF Placed
    <2>. QED
      BY <2>1, <2>2
  <1>. QED
    BY <1>1, <1>4, <1>6 DEF Placed

\* addMonitorWait(): threads ts leave the condvar queue of m for its line.
LEMMA WaitersJoinLine ==
    ASSUME NEW ct, NEW R, NEW st, NEW mo, NEW ms, NEW st2, NEW mo2, NEW ms2,
           NEW m \in Monitor, NEW ts \in Seq(Thread), NEW rest \in Seq(Thread),
           Placed(ct, R, st, mo, ms),
           ms[m].monitor_waitq \in Seq(Thread), ms[m].condvar_waitq \in Seq(Thread),
           NoDuplicates(ts), NoDuplicates(rest),
           OnQueue(ts) \subseteq OnQueue(ms[m].condvar_waitq),
           OnQueue(rest) = OnQueue(ms[m].condvar_waitq) \ OnQueue(ts),
           \A t \in Thread :
             /\ st2[t] = IF t \in OnQueue(ts) THEN st[t] \cup {"MONITOR_WAIT"} ELSE st[t]
             /\ mo2[t] = IF t \in OnQueue(ts) THEN m ELSE mo[t],
           ms2[m].monitor_waitq = ms[m].monitor_waitq \o ts,
           ms2[m].condvar_waitq = rest,
           \A n \in Monitor \ {m} : ms2[n] = ms[n]
    PROVE  Placed(ct, R, st2, mo2, ms2)
  <1>. DEFINE q == ms[m].monitor_waitq
              p == ms[m].condvar_waitq
  <1>1. ASSUME NEW t \in Thread, t \in OnQueue(ts)
        PROVE  /\ InWait(st[t]) /\ mo[t] = m /\ st[t] \in FlagSets
               /\ ~Ready(st[t]) /\ ~InLine(st[t])
               /\ st2[t] \in FlagSets /\ ~Ready(st2[t])
               /\ InLine(st2[t]) /\ ~InWait(st2[t])
    <2>1. InWait(st[t]) /\ mo[t] = m /\ st[t] \in FlagSets
      BY <1>1 DEF Placed
    <2>2. st2[t] = st[t] \cup {"MONITOR_WAIT"}
      BY <1>1
    <2>3. st2[t] \in FlagSets /\ ~Ready(st2[t]) /\ InLine(st2[t]) /\ ~InWait(st2[t])
      BY <2>1, <2>2, FlagSteps
    <2>4. ~Ready(st[t]) /\ ~InLine(st[t])
      BY <2>1, FlagSetsApart DEF InWait, InLine
    <2>. QED
      BY <2>1, <2>3, <2>4
  <1>2. OnQueue(ts) \subseteq Thread
    BY QueueMember
  <1>3. OnQueue(q) \cap OnQueue(ts) = {}
    <2>1. \A t \in OnQueue(ts) : t \notin OnQueue(q)
      BY <1>1, <1>2 DEF Placed
    <2>. QED
      BY <2>1
  <1>4. NoDuplicates(q \o ts) /\ OnQueue(q \o ts) = OnQueue(q) \cup OnQueue(ts)
    BY <1>3, ConcatQueue DEF Placed
  <1>5. ASSUME NEW n \in Monitor
        PROVE  /\ NoDuplicates(ms2[n].monitor_waitq)
               /\ NoDuplicates(ms2[n].condvar_waitq)
               /\ OnQueue(ms2[n].monitor_waitq) =
                    OnQueue(ms[n].monitor_waitq) \cup (IF n = m THEN OnQueue(ts) ELSE {})
               /\ OnQueue(ms2[n].condvar_waitq) = OnQueue(ms[n].condvar_waitq) \ OnQueue(ts)
    <2>1. CASE n = m
      BY <1>4, <2>1
    <2>2. CASE n # m
      <3>1. ms2[n] = ms[n]
        BY <2>2
      <3>2. ASSUME NEW t \in OnQueue(ts)
            PROVE  t \notin OnQueue(ms[n].condvar_waitq)
        <4>1. t \in Thread /\ mo[t] # n
          BY <1>1, <1>2, <2>2
        <4>. QED
          BY <4>1 DEF Placed
      <3>. QED
        BY <2>2, <3>1, <3>2 DEF Placed
    <2>. QED
      BY <2>1, <2>2
  <1>6. NIL \notin Monitor
    BY ConstantsAssumption DEF ConstantsAssumption
  <1>7. ASSUME NEW t \in Thread
        PROVE  /\ st2[t] \in FlagSets
               /\ Ready(st2[t]) <=> t = ct \/ t \in OnQueue(R)
               /\ t = ct => t \notin OnQueue(R)
               /\ InLine(st2[t]) \/ InWait(st2[t]) <=> mo2[t] # NIL
               /\ \A n \in Monitor :
                    /\ t \in OnQueue(ms2[n].monitor_waitq) <=> InLine(st2[t]) /\ mo2[t] = n
                    /\ t \in OnQueue(ms2[n].condvar_waitq) <=> InWait(st2[t]) /\ mo2[t] = n
    <2>1. CASE t \in OnQueue(ts)
      <3>1. mo2[t] = m /\ m # NIL
        BY <1>6, <2>1
      <3>2. ~(t = ct \/ t \in OnQueue(R))
        BY <1>1, <2>1 DEF Placed
      <3>3. \A n \in Monitor : t \notin OnQueue(ms[n].monitor_waitq)
        BY <1>1, <2>1 DEF Placed
      <3>4. \A n \in Monitor : t \in OnQueue(ms2[n].monitor_waitq) <=> n = m
        BY <1>5, <2>1, <3>3
      <3>5. \A n \in Monitor : t \notin OnQueue(ms2[n].condvar_waitq)
        BY <1>5, <2>1
      <3>6. /\ st2[t] \in FlagSets /\ ~Ready(st2[t])
            /\ InLine(st2[t]) /\ ~InWait(st2[t])
        BY <1>1, <2>1
      <3>. QED
        BY <3>1, <3>2, <3>4, <3>5, <3>6
    <2>2. CASE t \notin OnQueue(ts)
      <3>1. st2[t] = st[t] /\ mo2[t] = mo[t]
        BY <2>2
      <3>2. \A n \in Monitor :
              /\ t \in OnQueue(ms2[n].monitor_waitq) <=> t \in OnQueue(ms[n].monitor_waitq)
              /\ t \in OnQueue(ms2[n].condvar_waitq) <=> t \in OnQueue(ms[n].condvar_waitq)
        BY <1>5, <2>2
      <3>. QED
        BY <3>1, <3>2 DEF Placed
    <2>. QED
      BY <2>1, <2>2
  <1>. QED
    BY <1>5, <1>7 DEF Placed

-----------------------------------------------------------------------------
(***************************************************************************)
(* addMonitorWait() and removeMonitorWait() as the actions call them.      *)
(***************************************************************************)
LEMMA EnqueuedQueues ==
    ASSUME NEW r \in MonitorStruct, NEW ts \in Seq(Thread), NoDuplicates(ts),
           OnQueue(ts) \cap OnQueue(r.monitor_waitq) = {}
    PROVE  /\ Enqueued(r, ts) = [r EXCEPT !.monitor_waitq = r.monitor_waitq \o ts]
           /\ Enqueued(r, ts).monitor_waitq = r.monitor_waitq \o ts
           /\ Enqueued(r, ts).condvar_waitq = r.condvar_waitq
           /\ Enqueued(r, ts).owner = r.owner
           /\ Enqueued(r, ts).depth = r.depth
  <1>1. r.monitor_waitq \in Seq(Thread)
    BY DEF MonitorStruct
  <1>2. ASSUME Len(ts) = 1
        PROVE  AddThreadToQueue(r.monitor_waitq, ts[1]) = r.monitor_waitq \o ts
    <2>1. ts = <<ts[1]>> /\ ts[1] \in Thread
      BY <1>2
    <2>2. ts[1] \notin OnQueue(r.monitor_waitq)
      BY <1>2 DEF OnQueue
    <2>3. AddThreadToQueue(r.monitor_waitq, ts[1]) = Append(r.monitor_waitq, ts[1])
      BY <2>2 DEF AddThreadToQueue
    <2>4. Append(r.monitor_waitq, ts[1]) = r.monitor_waitq \o <<ts[1]>>
      BY <1>1, <2>1, AppendIsConcat
    <2>. QED
      BY <2>1, <2>3, <2>4
  <1>3. Enqueued(r, ts) = [r EXCEPT !.monitor_waitq = r.monitor_waitq \o ts]
    BY <1>2 DEF Enqueued
  <1>. QED
    BY <1>3 DEF MonitorStruct

LEMMA HandedOverQueues ==
    ASSUME NEW r \in MonitorStruct, NEW md
    PROVE  /\ HandedOver(r, md).monitor_waitq = RemoveQueueStart(r.monitor_waitq)
           /\ HandedOver(r, md).condvar_waitq = r.condvar_waitq
           /\ HandedOver(r, md).owner = QueueStart(r.monitor_waitq, NIL)
           /\ HandedOver(r, md).depth =
                IF QueueStart(r.monitor_waitq, NIL) = NIL THEN 0
                ELSE md[QueueStart(r.monitor_waitq, NIL)]
  BY DEF HandedOver, MonitorStruct

LEMMA ThreadsAreNotNil == \A t \in Thread : t # NIL
  BY ConstantsAssumption DEF ConstantsAssumption

\* What a step does to the threads ts that leave a condvar queue, and to all others,
\* seen from the flags st.
MovedFrom(st, ts) ==
    /\ OnQueue(RunnableThreads) \subseteq OnQueue(RunnableThreads')
    /\ \A t \in Thread :
         IF t \in OnQueue(ts)
         THEN InLine(state'[t]) \/ t \in OnQueue(RunnableThreads')
         ELSE state'[t] = st[t] \/ (InLine(st[t]) /\ t \in OnQueue(RunnableThreads'))

LEMMA AddMonitorWaitMoves ==
    ASSUME TypeOK, NEW m \in Monitor, NEW r \in MonitorStruct, NEW ts \in Seq(Thread),
           NEW st, NEW ct,
           Placed(ct, RunnableThreads, st, monitor, monitors),
           AddMonitorWait(m, r, ts, st),
           r.monitor_waitq = monitors[m].monitor_waitq,
           NoDuplicates(ts), NoDuplicates(r.condvar_waitq),
           OnQueue(ts) \subseteq OnQueue(monitors[m].condvar_waitq),
           OnQueue(r.condvar_waitq) = OnQueue(monitors[m].condvar_waitq) \ OnQueue(ts)
    PROVE  /\ Placed(ct, RunnableThreads', state', monitor', monitors')
           /\ MovedFrom(st, ts)
           /\ \A n \in Monitor \ {m} : monitors'[n] = monitors[n]
           /\ monitors[m].monitor_waitq = << >> /\ monitors[m].condvar_waitq = << >>
                => monitors'[m].monitor_waitq = << >> /\ monitors'[m].condvar_waitq = << >>
  <1>. DEFINE R   == RunnableThreads
              r1  == Enqueued(r, ts)
              ms1 == [monitors EXCEPT ![m] = r1]
              st1 == [t \in Thread |-> IF t \in OnQueue(ts) THEN st[t] \cup {"MONITOR_WAIT"}
                                                          ELSE st[t]]
              mo1 == [t \in Thread |-> IF t \in OnQueue(ts) THEN m ELSE monitor[t]]
              q   == r1.monitor_waitq
  <1>1. /\ monitors \in [Monitor -> MonitorStruct]
        /\ monitor \in [Thread -> Monitor \cup {NIL}]
        /\ R \in Seq(Thread)
    BY DEF TypeOK
  <1>2. /\ monitors[m].monitor_waitq \in Seq(Thread)
        /\ monitors[m].condvar_waitq \in Seq(Thread)
        /\ r.condvar_waitq \in Seq(Thread)
    BY <1>1 DEF MonitorStruct
  <1>3. OnQueue(ts) \cap OnQueue(r.monitor_waitq) = {}
    <2>1. ASSUME NEW t \in OnQueue(ts)
          PROVE  t \notin OnQueue(monitors[m].monitor_waitq)
      <3>1. t \in Thread /\ t \in OnQueue(monitors[m].condvar_waitq)
        BY QueueMember
      <3>. QED
        BY <3>1 DEF Placed, InWait, InLine
    <2>. QED
      BY <2>1
  <1>4. /\ q = monitors[m].monitor_waitq \o ts
        /\ r1.condvar_waitq = r.condvar_waitq
        /\ r1.owner = r.owner
        /\ r1 \in MonitorStruct
    <2>1. Enqueued(r, ts).monitor_waitq = r.monitor_waitq \o ts
      BY <1>3, EnqueuedQueues
    <2>2. /\ Enqueued(r, ts).condvar_waitq = r.condvar_waitq
          /\ Enqueued(r, ts).owner = r.owner
      BY <1>3, EnqueuedQueues
    <2>3. Enqueued(r, ts) \in MonitorStruct
      BY EnqueuedType
    <2>. QED
      BY <2>1, <2>2, <2>3
  <1>5. ms1[m] = r1 /\ \A n \in Monitor \ {m} : ms1[n] = monitors[n]
    BY <1>1
  <1>. HIDE DEF r1
  <1>6. Placed(ct, R, st1, mo1, ms1)
    BY <1>1, <1>2, <1>4, <1>5, WaitersJoinLine
  <1>7. q \in Seq(Thread)
    BY <1>4 DEF MonitorStruct
  <1>8. monitors' = [monitors EXCEPT ![m] = AfterMonitorWait(r, ts)]
    BY DEF AddMonitorWait
  <1>9. \A t \in OnQueue(ts) : InLine(st[t] \cup {"MONITOR_WAIT"})
    BY DEF InLine
  <1>10. CASE ~(r.owner = NIL /\ ts # << >>)
    <2>1. state' = st1 /\ monitor' = mo1 /\ RunnableThreads' = R
      BY <1>10 DEF AddMonitorWait, WakeNewOwner
    <2>2. monitors' = ms1
      BY <1>8, <1>10 DEF AfterMonitorWait, r1
    <2>3. Placed(ct, RunnableThreads', state', monitor', monitors')
      BY <1>6, <2>1, <2>2
    <2>4. monitors[m].monitor_waitq = << >> /\ monitors[m].condvar_waitq = << >>
            => monitors'[m].monitor_waitq = << >> /\ monitors'[m].condvar_waitq = << >>
      <3>1. SUFFICES ASSUME monitors[m].monitor_waitq = << >>,
                            monitors[m].condvar_waitq = << >>
                     PROVE  monitors'[m].monitor_waitq = << >>
                            /\ monitors'[m].condvar_waitq = << >>
        OBVIOUS
      <3>2. OnQueue(ts) = {} /\ OnQueue(r.condvar_waitq) = {}
        BY <3>1, EmptyQueue
      <3>3. ts = << >> /\ r.condvar_waitq = << >>
        BY <1>2, <3>2, QueueMember
      <3>. QED
        BY <1>4, <1>5, <2>2, <3>1, <3>3
    <2>5. \A t \in Thread : IF t \in OnQueue(ts) THEN InLine(state'[t])
                                                  ELSE state'[t] = st[t]
      BY <1>9, <2>1
    <2>6. \A n \in Monitor \ {m} : monitors'[n] = monitors[n]
      BY <1>5, <2>2
    <2>. HIDE DEF st1, mo1, ms1
    <2>. QED
      BY <2>1, <2>3, <2>4, <2>5, <2>6 DEF MovedFrom
  <1>11. CASE r.owner = NIL /\ ts # << >>
    <2>. DEFINE w == Head(q)
    <2>1. q # << >> /\ w \in Thread /\ w # NIL /\ QueueStart(q, NIL) = w
      <3>1. q # << >>
        BY <1>2, <1>4, <1>11
      <3>. QED
        BY <1>7, <3>1, ThreadsAreNotNil DEF QueueStart
    <2>2. WakeNewOwner(w, st1, mo1, monitor_depth)
      BY <1>11, <2>1 DEF AddMonitorWait, r1
    <2>. HIDE DEF w
    <2>3. /\ state' = Resumed(st1, w) /\ monitor' = [mo1 EXCEPT ![w] = NIL]
          /\ RunnableThreads' = AddThreadToQueue(R, w)
      BY <2>1, <2>2 DEF WakeNewOwner
    <2>4. monitors' = [monitors EXCEPT ![m] = HandedOver(r1, monitor_depth)]
      BY <1>8, <1>11 DEF AfterMonitorWait, r1
    <2>5. /\ monitors'[m].monitor_waitq = Tail(q)
          /\ monitors'[m].condvar_waitq = r1.condvar_waitq
          /\ \A n \in Monitor \ {m} : monitors'[n] = monitors[n]
      BY <1>1, <1>4, <2>1, <2>4, HandedOverQueues DEF RemoveQueueStart
    <2>6. \A t \in Thread : /\ state'[t] = IF t = w THEN {"ACTIVE"} ELSE st1[t]
                            /\ monitor'[t] = IF t = w THEN NIL ELSE mo1[t]
      BY <2>3 DEF Resumed
    <2>. HIDE DEF st1, mo1, ms1, R
    <2>. HIDE DEF q
    <2>7. /\ Placed(ct, AddThreadToQueue(R, w), state', monitor', monitors')
          /\ OnQueue(AddThreadToQueue(R, w)) = OnQueue(R) \cup {w}
          /\ InLine(st1[w])
      <3>1. ms1[m].monitor_waitq = q /\ ms1[m].condvar_waitq = r1.condvar_waitq
        BY <1>5 DEF q
      <3>2. \A n \in Monitor \ {m} : monitors'[n] = ms1[n]
        BY <1>5, <2>5
      <3>3. IsFirst(w, ms1[m].monitor_waitq)
        BY <1>7, <2>1, <3>1 DEF w, IsFirst
      <3>4. /\ monitors'[m].monitor_waitq = Tail(ms1[m].monitor_waitq)
            /\ monitors'[m].condvar_waitq = ms1[m].condvar_waitq
        BY <2>5, <3>1
      <3>5. R \in Seq(Thread)
        BY <1>1 DEF R
      <3>. HIDE DEF w, q
      <3>6. Placed(ct, AddThreadToQueue(R, w), state', monitor', monitors')
        BY <1>6, <2>1, <2>6, <3>2, <3>3, <3>4, <3>5, FirstInLineResumes
      <3>7. /\ OnQueue(AddThreadToQueue(R, w)) = OnQueue(R) \cup {w}
            /\ InLine(st1[w])
        BY <1>6, <3>3, <3>5, FirstInLine
      <3>. QED
        BY <3>6, <3>7
    <2>8. \A t \in Thread : t \notin OnQueue(ts) => st1[t] = st[t]
      BY DEF st1
    <2>9. \A t \in Thread : t \in OnQueue(ts) => InLine(st1[t])
      BY <1>9 DEF st1
    <2>10. monitors[m].condvar_waitq # << >>
      BY <1>11, EmptyQueue, QueueMember
    <2>11. \A t \in Thread :
             IF t \in OnQueue(ts)
             THEN InLine(state'[t]) \/ t \in OnQueue(RunnableThreads')
             ELSE state'[t] = st[t] \/ (InLine(st[t]) /\ t \in OnQueue(RunnableThreads'))
      BY <2>3, <2>6, <2>7, <2>8, <2>9
    <2>. QED
      BY <2>3, <2>5, <2>7, <2>10, <2>11 DEF R, MovedFrom
  <1>. QED
    BY <1>10, <1>11

\* removeMonitorWait(), when the lock of m is given up: st, mo and ms are the
\* values set up before the call.
LEMMA WakeNewOwnerMoves ==
    ASSUME TypeOK, NEW m \in Monitor, NEW st, NEW mo, NEW md, NEW ms, NEW ct,
           AreFlags(st), AreMonitors(mo),
           Placed(ct, RunnableThreads, st, mo, ms),
           IsQueue(ms[m].monitor_waitq),
           WakeNewOwner(QueueStart(ms[m].monitor_waitq, NIL), st, mo, md),
           monitors'[m].monitor_waitq = RemoveQueueStart(ms[m].monitor_waitq),
           monitors'[m].condvar_waitq = ms[m].condvar_waitq,
           \A n \in Monitor \ {m} : monitors'[n] = ms[n]
    PROVE  /\ Placed(ct, RunnableThreads', state', monitor', monitors')
           /\ MovedFrom(st, << >>)
  <1>. DEFINE q == ms[m].monitor_waitq
  <1>0. RunnableThreads \in Seq(Thread)
    BY DEF TypeOK
  <1>1. CASE q = << >>
    <2>1. QueueStart(q, NIL) = NIL /\ RemoveQueueStart(q) = q
      BY <1>1 DEF QueueStart, RemoveQueueStart
    <2>2. state' = st /\ monitor' = mo /\ RunnableThreads' = RunnableThreads
      BY <2>1 DEF WakeNewOwner
    <2>3. \A n \in Monitor : /\ monitors'[n].monitor_waitq = ms[n].monitor_waitq
                             /\ monitors'[n].condvar_waitq = ms[n].condvar_waitq
      BY <2>1
    <2>4. Placed(ct, RunnableThreads, st, mo, monitors')
      BY <2>3, SameQueues
    <2>. QED
      BY <2>2, <2>4, EmptyQueue DEF MovedFrom
  <1>2. CASE q # << >>
    <2>1. PICK w : IsFirst(w, q)
      BY <1>2 DEF IsFirst, IsQueue
    <2>2. w \in Thread /\ w # NIL
      BY <2>1, ThreadsAreNotNil, QueueMember DEF IsFirst
    <2>3. QueueStart(q, NIL) = w /\ RemoveQueueStart(q) = Tail(q)
      BY <1>2, <2>1 DEF QueueStart, RemoveQueueStart, IsFirst
    <2>4. /\ state' = Resumed(st, w) /\ monitor' = [mo EXCEPT ![w] = NIL]
          /\ RunnableThreads' = AddThreadToQueue(RunnableThreads, w)
      BY <2>2, <2>3 DEF WakeNewOwner
    <2>5. \A t \in Thread : /\ state'[t] = IF t = w THEN {"ACTIVE"} ELSE st[t]
                            /\ monitor'[t] = IF t = w THEN NIL ELSE mo[t]
      BY <2>4 DEF Resumed, AreFlags, AreMonitors
    <2>6. monitors'[m].monitor_waitq = Tail(ms[m].monitor_waitq)
      BY <2>3
    <2>7. Placed(ct, AddThreadToQueue(RunnableThreads, w), state', monitor', monitors')
      BY <1>0, <2>1, <2>5, <2>6, FirstInLineResumes
    <2>8. /\ OnQueue(AddThreadToQueue(RunnableThreads, w)) = OnQueue(RunnableThreads) \cup {w}
          /\ InLine(st[w])
      BY <1>0, <2>1, FirstInLine
    <2>9. \A t \in Thread : state'[t] = st[t] \/ (InLine(st[t]) /\ t \in OnQueue(RunnableThreads'))
      BY <2>4, <2>5, <2>8
    <2>10. OnQueue(RunnableThreads) \subseteq OnQueue(RunnableThreads')
      BY <2>4, <2>8
    <2>. QED
      BY <2>4, <2>7, <2>9, <2>10, EmptyQueue DEF MovedFrom
  <1>. QED
    BY <1>1, <1>2

\* The alarms of the threads that left wait() are gone, and nobody else needs
\* another alarm than before.
LEMMA MovedAlarms ==
    ASSUME NEW ct, NEW st, NEW mo, NEW ms, NEW ts,
           Placed(ct, RunnableThreads, st, mo, ms),
           Placed(ct, RunnableThreads', state', monitor', monitors'),
           MovedFrom(st, ts), AlarmsFit(st, wakeupCall),
           \A t \in Thread : wakeupCall'[t] = IF t \in OnQueue(ts) THEN NIL ELSE wakeupCall[t]
    PROVE  AlarmsFit(state', wakeupCall')
  <1>. SUFFICES ASSUME NEW t \in Thread
                PROVE  /\ wakeupCall'[t] = "resumeThread" <=> Asleep(state'[t])
                       /\ wakeupCall'[t] = "monitorWaitAlarm" => InWait(state'[t])
    BY DEF AlarmsFit
  <1>1. st[t] \in FlagSets /\ state'[t] \in FlagSets
    BY DEF Placed
  <1>2. t \in OnQueue(RunnableThreads') => Ready(state'[t])
    BY DEF Placed
  <1>3. InLine(state'[t]) \/ Ready(state'[t]) => ~Asleep(state'[t]) /\ ~InWait(state'[t])
    BY <1>1, FlagSetsApart DEF InLine, InWait
  <1>4. InLine(st[t]) => ~Asleep(st[t]) /\ ~InWait(st[t])
    BY <1>1, FlagSetsApart DEF InLine, InWait
  <1>5. CASE t \in OnQueue(ts)
    BY <1>2, <1>3, <1>5, ConstantsAssumption DEF MovedFrom, ConstantsAssumption
  <1>6. CASE t \notin OnQueue(ts)
    <2>1. /\ wakeupCall'[t] = wakeupCall[t]
          /\ state'[t] = st[t] \/ (InLine(st[t]) /\ t \in OnQueue(RunnableThreads'))
      BY <1>6 DEF MovedFrom
    <2>2. /\ wakeupCall[t] = "resumeThread" <=> Asleep(st[t])
          /\ wakeupCall[t] = "monitorWaitAlarm" => InWait(st[t])
      BY DEF AlarmsFit
    <2>. QED
      BY <1>2, <1>3, <1>4, <2>1, <2>2
  <1>. QED
    BY <1>5, <1>6

LEMMA MovedInterrupts ==
    ASSUME NEW ct, NEW st, NEW mo, NEW ms, NEW ts, NEW pe,
           Placed(ct, RunnableThreads, st, mo, ms),
           MovedFrom(st, ts), InterruptsFit(ct, RunnableThreads, st, pe),
           \A t \in Thread : t \in OnQueue(ts) => InWait(st[t]),
           \A t \in Thread : pendingException'[t] => pe[t] \/ t \in OnQueue(ts)
    PROVE  InterruptsFit(ct, RunnableThreads', state', pendingException')
  <1>. SUFFICES ASSUME NEW t \in Thread, pendingException'[t]
                PROVE  t # ct /\ (t \in OnQueue(RunnableThreads') \/ InLine(state'[t]))
    BY DEF InterruptsFit
  <1>1. CASE t \in OnQueue(ts)
    <2>1. ~Ready(st[t])
      BY <1>1, FlagSetsApart DEF Placed
    <2>. QED
      BY <1>1, <2>1 DEF Placed, MovedFrom
  <1>2. CASE t \notin OnQueue(ts)
    BY <1>2 DEF InterruptsFit, MovedFrom
  <1>. QED
    BY <1>1, <1>2


-----------------------------------------------------------------------------
(***************************************************************************)
(* Which MONITORs have threads on their queues.                            *)
(***************************************************************************)
LEMMA AttachedKept ==
    ASSUME Attached(monitors, mhc),
           \A o \in Object, m \in Monitor : mhc[o] = RealMonitor(m) => mhc'[o] = RealMonitor(m),
           \A m \in Monitor :
             monitors[m].monitor_waitq = << >> /\ monitors[m].condvar_waitq = << >>
               => monitors'[m].monitor_waitq = << >> /\ monitors'[m].condvar_waitq = << >>
    PROVE  Attached(monitors', mhc')
  BY DEF Attached

\* The MONITOR upgradeToRealMonitor() takes for an object brings no threads
\* along that are not waiting for this object.
LEMMA UpgradedQueues ==
    ASSUME TypeOK, LockInv, Attached(monitors, mhc), NEW o \in Object, NEW m \in Monitor,
           IsMonitorFor(o, m)
    PROVE  /\ Upgraded(o).monitor_waitq = monitors[m].monitor_waitq
           /\ Upgraded(o).condvar_waitq = monitors[m].condvar_waitq
  <1>1. CASE HasMonitor(o)
    BY <1>1 DEF Upgraded, IsMonitorFor
  <1>2. CASE ~HasMonitor(o)
    <2>1. \A p \in Object : mhc[p] # RealMonitor(m)
      BY <1>2, UpgradeIsExclusive DEF HasMonitor, RealMonitor
    <2>2. monitors[m].monitor_waitq = << >> /\ monitors[m].condvar_waitq = << >>
      BY <2>1 DEF Attached
    <2>3. Upgraded(o).monitor_waitq = << >> /\ Upgraded(o).condvar_waitq = << >>
      BY <1>2 DEF Upgraded, NewMonitor
    <2>. QED
      BY <2>2, <2>3
  <1>. QED
    BY <1>1, <1>2

LEMMA UpgradeAttached ==
    ASSUME TypeOK, Attached(monitors, mhc), NEW o \in Object, NEW m \in Monitor, NEW r,
           UpgradeToRealMonitor(o, m, r)
    PROVE  /\ Attached(monitors', mhc')
           /\ monitors'[m] = r
           /\ \A n \in Monitor \ {m} : monitors'[n] = monitors[n]
  <1>1. /\ mhc' = [mhc EXCEPT ![o] = RealMonitor(m)]
        /\ monitors' = [monitors EXCEPT ![m] = r]
        /\ IsMonitorFor(o, m)
    BY DEF UpgradeToRealMonitor
  <1>2. mhc'[o] = RealMonitor(m) /\ \A p \in Object : p # o => mhc'[p] = mhc[p]
    BY <1>1 DEF TypeOK
  <1>3. monitors'[m] = r /\ \A n \in Monitor \ {m} : monitors'[n] = monitors[n]
    BY <1>1 DEF TypeOK
  <1>4. \A n \in Monitor \ {m} : mhc[o] # RealMonitor(n)
    BY <1>1 DEF IsMonitorFor, HasMonitor, RealMonitor
  <1>. QED
    BY <1>2, <1>3, <1>4 DEF Attached

LEMMA FastWordsKeepMonitors ==
    ASSUME TypeOK, NEW o \in Object, NEW word,
           ~HasMonitor(o), mhc' = [mhc EXCEPT ![o] = word] \/ mhc' = mhc
    PROVE  \A p \in Object, m \in Monitor : mhc[p] = RealMonitor(m) => mhc'[p] = RealMonitor(m)
  BY DEF TypeOK, HasMonitor, RealMonitor

-----------------------------------------------------------------------------
(***************************************************************************)
(* QueueInv, action by action.                                             *)
(***************************************************************************)
placeVars == <<CurrentThread, RunnableThreads, state, monitor, wakeupCall, pendingException>>

\* Nobody moves.
LEMMA QueueInvStill ==
    ASSUME QueueInv, UNCHANGED placeVars, Attached(monitors', mhc'),
           \A m \in Monitor : /\ monitors'[m].monitor_waitq = monitors[m].monitor_waitq
                              /\ monitors'[m].condvar_waitq = monitors[m].condvar_waitq
    PROVE  QueueInv'
  <1>1. Placed(CurrentThread, RunnableThreads, state, monitor, monitors')
    BY SameQueues DEF QueueInv
  <1>. QED
    BY <1>1 DEF QueueInv, placeVars

LEMMA QueueInvSame ==
    ASSUME QueueInv, UNCHANGED placeVars, UNCHANGED monitors,
           \A o \in Object, m \in Monitor : mhc[o] = RealMonitor(m) => mhc'[o] = RealMonitor(m)
    PROVE  QueueInv'
  BY AttachedKept, QueueInvStill DEF QueueInv

\* An upgrade alone moves nobody either.
LEMMA QueueInvUpgrade ==
    ASSUME TypeOK, LockInv, QueueInv, UNCHANGED placeVars,
           NEW o \in Object, NEW m \in Monitor, NEW r, UpgradeToRealMonitor(o, m, r),
           r.monitor_waitq = Upgraded(o).monitor_waitq,
           r.condvar_waitq = Upgraded(o).condvar_waitq
    PROVE  QueueInv'
  <1>1. IsMonitorFor(o, m)
    BY DEF UpgradeToRealMonitor
  <1>2. /\ r.monitor_waitq = monitors[m].monitor_waitq
        /\ r.condvar_waitq = monitors[m].condvar_waitq
    BY <1>1, UpgradedQueues DEF QueueInv
  <1>3. /\ Attached(monitors', mhc')
        /\ monitors'[m] = r
        /\ \A n \in Monitor \ {m} : monitors'[n] = monitors[n]
    BY UpgradeAttached DEF QueueInv
  <1>. QED
    BY <1>2, <1>3, QueueInvStill

LEMMA QueueInvInit == Init => QueueInv
  <1>. SUFFICES ASSUME Init PROVE QueueInv
    OBVIOUS
  <1>1. /\ CurrentThread = MainThread /\ RunnableThreads = << >>
        /\ \A t \in Thread :
             /\ state[t] = IF t = MainThread THEN {"ACTIVE"} ELSE {"JUST_BORN"}
             /\ monitor[t] = NIL /\ wakeupCall[t] = NIL /\ pendingException[t] = FALSE
        /\ \A m \in Monitor :
             monitors[m].monitor_waitq = << >> /\ monitors[m].condvar_waitq = << >>
    BY DEF Init, NewMonitor
  <1>2. /\ {"ACTIVE"} \in FlagSets /\ Ready({"ACTIVE"}) /\ ~Asleep({"ACTIVE"})
        /\ ~InLine({"ACTIVE"}) /\ ~InWait({"ACTIVE"})
        /\ {"JUST_BORN"} \in FlagSets /\ ~Ready({"JUST_BORN"}) /\ ~Asleep({"JUST_BORN"})
        /\ ~InLine({"JUST_BORN"}) /\ ~InWait({"JUST_BORN"})
    BY FlagSteps, FlagSetsApart
  <1>3. OnQueue(RunnableThreads) = {} /\ NoDuplicates(RunnableThreads)
    BY <1>1, EmptyQueue
  <1>4. \A m \in Monitor : /\ OnQueue(monitors[m].monitor_waitq) = {}
                           /\ NoDuplicates(monitors[m].monitor_waitq)
                           /\ OnQueue(monitors[m].condvar_waitq) = {}
                           /\ NoDuplicates(monitors[m].condvar_waitq)
    BY <1>1, EmptyQueue
  <1>5. Placed(CurrentThread, RunnableThreads, state, monitor, monitors)
    BY <1>1, <1>2, <1>3, <1>4 DEF Placed
  <1>6. AlarmsFit(state, wakeupCall)
    BY <1>1, <1>2, ConstantsAssumption DEF AlarmsFit, ConstantsAssumption
  <1>7. InterruptsFit(CurrentThread, RunnableThreads, state, pendingException)
    BY <1>1 DEF InterruptsFit
  <1>8. Attached(monitors, mhc)
    BY <1>1 DEF Attached
  <1>. QED
    BY <1>5, <1>6, <1>7, <1>8 DEF QueueInv

\* The current thread t gives up the processor with flags f: it is in line for m,
\* waits on m, sleeps, or is dead.
NewFields(t, f, m, st, mo, st2, mo2) ==
    \A u \in Thread :
        /\ st2[u] = IF u = t THEN f ELSE st[u]
        /\ mo2[u] = IF u # t THEN mo[u] ELSE IF InLine(f) \/ InWait(f) THEN m ELSE NIL
NewQueues(t, f, m, ms, ms2) ==
    \A n \in Monitor :
        /\ NoDuplicates(ms2[n].monitor_waitq)
        /\ NoDuplicates(ms2[n].condvar_waitq)
        /\ OnQueue(ms2[n].monitor_waitq) = OnQueue(ms[n].monitor_waitq)
             \cup (IF InLine(f) /\ n = m THEN {t} ELSE {})
        /\ OnQueue(ms2[n].condvar_waitq) = OnQueue(ms[n].condvar_waitq)
             \cup (IF InWait(f) /\ n = m THEN {t} ELSE {})

LEMMA CurrentLeaves ==
    ASSUME NEW t \in Thread, NEW R, NEW st, NEW mo, NEW ms, NEW st2, NEW mo2, NEW ms2,
           NEW f \in FlagSets, ~Ready(f), NEW m,
           InLine(f) \/ InWait(f) => m \in Monitor,
           Placed(t, R, st, mo, ms),
           NewFields(t, f, m, st, mo, st2, mo2), NewQueues(t, f, m, ms, ms2)
    PROVE  Placed(NIL, R, st2, mo2, ms2)
  <1>1. Ready(st[t]) /\ t \notin OnQueue(R) /\ st[t] \in FlagSets
    BY DEF Placed
  <1>2. ~InLine(st[t]) /\ ~InWait(st[t])
    BY <1>1, FlagSetsApart
  <1>3. NIL \notin Monitor /\ \A u \in Thread : u # NIL
    BY ConstantsAssumption DEF ConstantsAssumption
  <1>4. ~(InLine(f) /\ InWait(f))
    BY DEF InLine, InWait
  <1>5. ASSUME NEW u \in Thread
        PROVE  /\ st2[u] \in FlagSets
               /\ Ready(st2[u]) <=> u = NIL \/ u \in OnQueue(R)
               /\ u = NIL => u \notin OnQueue(R)
               /\ InLine(st2[u]) \/ InWait(st2[u]) <=> mo2[u] # NIL
               /\ \A n \in Monitor :
                    /\ u \in OnQueue(ms2[n].monitor_waitq) <=> InLine(st2[u]) /\ mo2[u] = n
                    /\ u \in OnQueue(ms2[n].condvar_waitq) <=> InWait(st2[u]) /\ mo2[u] = n
    <2>1. CASE u = t
      <3>1. st2[u] = f /\ mo2[u] = IF InLine(f) \/ InWait(f) THEN m ELSE NIL
        BY <2>1 DEF NewFields
      <3>2. \A n \in Monitor : /\ u \notin OnQueue(ms[n].monitor_waitq)
                               /\ u \notin OnQueue(ms[n].condvar_waitq)
        BY <1>2, <2>1 DEF Placed
      <3>3. \A n \in Monitor :
              /\ u \in OnQueue(ms2[n].monitor_waitq) <=> InLine(f) /\ n = m
              /\ u \in OnQueue(ms2[n].condvar_waitq) <=> InWait(f) /\ n = m
        BY <2>1, <3>2 DEF NewQueues
      <3>. QED
        BY <1>1, <1>3, <2>1, <3>1, <3>3
    <2>2. CASE u # t
      <3>1. st2[u] = st[u] /\ mo2[u] = mo[u]
        BY <2>2 DEF NewFields
      <3>2. \A n \in Monitor :
              /\ u \in OnQueue(ms2[n].monitor_waitq) <=> u \in OnQueue(ms[n].monitor_waitq)
              /\ u \in OnQueue(ms2[n].condvar_waitq) <=> u \in OnQueue(ms[n].condvar_waitq)
        BY <2>2 DEF NewQueues
      <3>. QED
        BY <1>3, <2>2, <3>1, <3>2 DEF Placed
    <2>. QED
      BY <2>1, <2>2
  <1>. QED
    BY <1>5 DEF Placed, NewQueues

\* What Placed and the two other parts say of the running thread.
LEMMA CurrentIsReady ==
    ASSUME QueueInv, NEW t \in Thread, CurrentThread = t
    PROVE  /\ Ready(state[t]) /\ monitor[t] = NIL /\ ~pendingException[t]
           /\ wakeupCall[t] # "resumeThread" /\ wakeupCall[t] # "monitorWaitAlarm"
           /\ t \notin OnQueue(RunnableThreads)
           /\ ~Asleep(state[t]) /\ ~InLine(state[t]) /\ ~InWait(state[t])
           /\ \A m \in Monitor : /\ t \notin OnQueue(monitors[m].monitor_waitq)
                                 /\ t \notin OnQueue(monitors[m].condvar_waitq)
  <1>1. Ready(state[t]) /\ state[t] \in FlagSets /\ t \notin OnQueue(RunnableThreads)
    BY DEF QueueInv, Placed
  <1>2. ~Asleep(state[t]) /\ ~InLine(state[t]) /\ ~InWait(state[t])
    BY <1>1, FlagSetsApart
  <1>. QED
    BY <1>1, <1>2 DEF QueueInv, Placed, AlarmsFit, InterruptsFit

LEMMA QueueEnter ==
    ASSUME TypeOK, LockInv, QueueInv, NEW t \in Thread, NEW o \in Object, MonitorEnter(t, o)
    PROVE  QueueInv'
  <1>1. CASE MonitorEnterFast(t, o)
    <2>1. UNCHANGED placeVars /\ UNCHANGED monitors
      BY <1>1 DEF MonitorEnterFast, placeVars, schedVars, waitVars, alarmVars, intrVars
    <2>2. ~HasMonitor(o) /\ \E word : mhc' = [mhc EXCEPT ![o] = word] \/ mhc' = mhc
      BY <1>1 DEF MonitorEnterFast, FastEnter, HasMonitor, Unlocked, SimpleLock, ExtendedLock
    <2>. QED
      BY <2>1, <2>2, FastWordsKeepMonitors, QueueInvSame
  <1>2. CASE MonitorEnterReal(t, o)
    <2>. DEFINE r == [Upgraded(o) EXCEPT !.owner = t,
                               !.depth = IF Owner(o) = NIL THEN 1 ELSE @ + 1]
    <2>1. PICK m \in Monitor : UpgradeToRealMonitor(o, m, r)
      BY <1>2 DEF MonitorEnterReal
    <2>2. /\ r.monitor_waitq = Upgraded(o).monitor_waitq
          /\ r.condvar_waitq = Upgraded(o).condvar_waitq
      BY UpgradedType DEF MonitorStruct
    <2>3. UNCHANGED placeVars
      BY <1>2 DEF MonitorEnterReal, placeVars, schedVars, waitVars, alarmVars, intrVars
    <2>. HIDE DEF r
    <2>. QED
      BY <2>1, <2>2, <2>3, QueueInvUpgrade
  <1>3. CASE MonitorEnterBlocked(t, o)
    <2>. DEFINE r == [Upgraded(o) EXCEPT !.monitor_waitq = AddThreadToQueue(@, t)]
                f == (state[t] \cup {"MONITOR_WAIT"}) \cup {"SUSPENDED"}
    <2>1. PICK m \in Monitor : /\ UpgradeToRealMonitor(o, m, r)
                               /\ monitor' = [monitor EXCEPT ![t] = m]
      BY <1>3 DEF MonitorEnterBlocked
    <2>2. /\ CurrentThread = t /\ CurrentThread' = NIL
          /\ state' = Suspended([state EXCEPT ![t] = @ \cup {"MONITOR_WAIT"}], t)
          /\ UNCHANGED <<RunnableThreads, wakeupCall, pendingException>>
      BY <1>3 DEF MonitorEnterBlocked, Running, Suspend, alarmVars, intrVars
    <2>3. /\ Ready(state[t]) /\ ~Asleep(state[t])
          /\ wakeupCall[t] # "resumeThread" /\ wakeupCall[t] # "monitorWaitAlarm"
          /\ ~pendingException[t] /\ t \notin OnQueue(monitors[m].monitor_waitq)
      BY <2>2, CurrentIsReady
    <2>4. IsMonitorFor(o, m)
      BY <2>1 DEF UpgradeToRealMonitor
    <2>5. /\ Upgraded(o).monitor_waitq = monitors[m].monitor_waitq
          /\ Upgraded(o).condvar_waitq = monitors[m].condvar_waitq
      BY <2>4, UpgradedQueues DEF QueueInv
    <2>6. /\ r.monitor_waitq = AddThreadToQueue(monitors[m].monitor_waitq, t)
          /\ r.condvar_waitq = monitors[m].condvar_waitq
      BY <2>5, UpgradedType DEF MonitorStruct
    <2>7. /\ OnQueue(r.monitor_waitq) = OnQueue(monitors[m].monitor_waitq) \cup {t}
          /\ NoDuplicates(r.monitor_waitq)
      <3>1. monitors[m].monitor_waitq \in Seq(Thread)
        BY DEF TypeOK, MonitorStruct
      <3>2. NoDuplicates(monitors[m].monitor_waitq)
        BY DEF QueueInv, Placed
      <3>. QED
        BY <2>3, <2>6, <3>1, <3>2, AddedQueue
    <2>. HIDE DEF r
    <2>8. /\ Attached(monitors', mhc')
          /\ monitors'[m] = r
          /\ \A n \in Monitor \ {m} : monitors'[n] = monitors[n]
      BY <2>1, UpgradeAttached DEF QueueInv
    <2>9. /\ f \in FlagSets /\ InLine(f)
      BY <2>3, FlagSteps
    <2>10. ~Ready(f) /\ ~Asleep(f) /\ ~InWait(f)
      BY <2>9, FlagSetsApart DEF InLine, InWait
    <2>11. \A u \in Thread : /\ state'[u] = IF u = t THEN f ELSE state[u]
                             /\ monitor'[u] = IF u = t THEN m ELSE monitor[u]
      BY <2>1, <2>2 DEF TypeOK, Suspended
    <2>. HIDE DEF f
    <2>12. NewQueues(t, f, m, monitors, monitors')
      BY <2>6, <2>7, <2>8, <2>9, <2>10 DEF QueueInv, Placed, NewQueues
    <2>13. Placed(t, RunnableThreads, state, monitor, monitors)
      BY <2>2 DEF QueueInv
    <2>14. Placed(NIL, RunnableThreads, state', monitor', monitors')
      <3>1. NewFields(t, f, m, state, monitor, state', monitor')
        BY <2>9, <2>11 DEF NewFields
      <3>. QED
        BY <2>9, <2>10, <2>12, <2>13, <3>1, CurrentLeaves
    <2>15. AlarmsFit(state', wakeupCall')
      BY <2>2, <2>3, <2>10, <2>11 DEF QueueInv, AlarmsFit
    <2>16. InterruptsFit(NIL, RunnableThreads, state', pendingException')
      BY <2>2, <2>3, <2>11, ThreadsAreNotNil DEF QueueInv, InterruptsFit
    <2>. QED
      BY <2>2, <2>8, <2>14, <2>15, <2>16 DEF QueueInv
  <1>. QED
    BY <1>1, <1>2, <1>3 DEF MonitorEnter

LEMMA QueueExit ==
    ASSUME TypeOK, LockInv, QueueInv, NEW t \in Thread, NEW o \in Object, MonitorExit(t, o)
    PROVE  QueueInv'
  <1>1. CASE MonitorExitFast(t, o)
    <2>1. UNCHANGED placeVars /\ UNCHANGED monitors
      BY <1>1 DEF MonitorExitFast, placeVars, schedVars, waitVars, alarmVars, intrVars
    <2>2. ~HasMonitor(o) /\ \E word : mhc' = [mhc EXCEPT ![o] = word] \/ mhc' = mhc
      BY <1>1 DEF MonitorExitFast, FastExit, HasMonitor, Unlocked, SimpleLock, ExtendedLock
    <2>. QED
      BY <2>1, <2>2, FastWordsKeepMonitors, QueueInvSame
  <1>2. CASE MonitorExitNested(t, o)
    <2>1. /\ UNCHANGED placeVars /\ UNCHANGED mhc
          /\ mhc[o].val \in Monitor
          /\ monitors' = [monitors EXCEPT ![mhc[o].val].depth = @ - 1]
      BY <1>2, MhcValues DEF MonitorExitNested, HasMonitor, placeVars, schedVars,
                             waitVars, alarmVars, intrVars
    <2>2. \A m \in Monitor : /\ monitors'[m].monitor_waitq = monitors[m].monitor_waitq
                             /\ monitors'[m].condvar_waitq = monitors[m].condvar_waitq
      BY <2>1 DEF TypeOK, MonitorStruct
    <2>3. Attached(monitors', mhc')
      BY <2>1, <2>2, AttachedKept DEF QueueInv
    <2>. QED
      BY <2>1, <2>2, <2>3, QueueInvStill
  <1>3. CASE MonitorExitRelease(t, o)
    <2>. DEFINE m == mhc[o].val
                s == [monitors[m] EXCEPT !.depth = 0]
                r == HandedOver(s, monitor_depth)
    <2>1. m \in Monitor /\ mhc[o] = RealMonitor(m)
      BY <1>3, MhcValues DEF MonitorExitRelease, HasMonitor, RealMonitor
    <2>2. /\ s \in MonitorStruct
          /\ s.monitor_waitq = monitors[m].monitor_waitq
          /\ s.condvar_waitq = monitors[m].condvar_waitq
      <3>1. monitors[m] \in MonitorStruct
        BY <2>1 DEF TypeOK
      <3>. QED
        BY <3>1 DEF MonitorStruct
    <2>. HIDE DEF s
    <2>3. /\ r.monitor_waitq = RemoveQueueStart(monitors[m].monitor_waitq)
          /\ r.condvar_waitq = monitors[m].condvar_waitq
          /\ r.owner = QueueStart(monitors[m].monitor_waitq, NIL)
      BY <2>2, HandedOverQueues
    <2>4. /\ monitors' = [monitors EXCEPT ![m] = r]
          /\ WakeNewOwner(r.owner, state, monitor, monitor_depth)
          /\ IF IsDead(r)
             THEN mhc' = [mhc EXCEPT ![o] = Unlocked(r.hashCode)]
             ELSE mhc' = mhc
          /\ CurrentThread' = CurrentThread
          /\ wakeupCall' = wakeupCall /\ pendingException' = pendingException
      BY <1>3 DEF MonitorExitRelease, alarmVars, intrVars, s
    <2>. HIDE DEF r, m
    <2>5. monitors'[m] = r /\ \A n \in Monitor \ {m} : monitors'[n] = monitors[n]
      BY <2>1, <2>4 DEF TypeOK
    <2>6. /\ IsQueue(monitors[m].monitor_waitq) /\ AreFlags(state) /\ AreMonitors(monitor)
      BY <2>1 DEF TypeOK, MonitorStruct, IsQueue, AreFlags, AreMonitors
    <2>7. /\ Placed(CurrentThread, RunnableThreads', state', monitor', monitors')
          /\ MovedFrom(state, << >>)
      <3>1. Placed(CurrentThread, RunnableThreads, state, monitor, monitors)
        BY DEF QueueInv
      <3>2. WakeNewOwner(QueueStart(monitors[m].monitor_waitq, NIL), state, monitor,
                         monitor_depth)
        BY <2>3, <2>4
      <3>3. /\ monitors'[m].monitor_waitq = RemoveQueueStart(monitors[m].monitor_waitq)
            /\ monitors'[m].condvar_waitq = monitors[m].condvar_waitq
        BY <2>3, <2>5
      <3>. QED
        BY <2>1, <2>5, <2>6, <3>1, <3>2, <3>3, WakeNewOwnerMoves
    <2>8. AlarmsFit(state', wakeupCall')
      BY <2>4, <2>7, MovedAlarms, EmptyQueue DEF QueueInv
    <2>9. InterruptsFit(CurrentThread, RunnableThreads', state', pendingException')
      BY <2>4, <2>7, MovedInterrupts, EmptyQueue DEF QueueInv
    <2>10. Attached(monitors', mhc')
      <3>1. ASSUME NEW n \in Monitor
            PROVE  \/ \E p \in Object : mhc'[p] = RealMonitor(n)
                   \/ monitors'[n].monitor_waitq = << >> /\ monitors'[n].condvar_waitq = << >>
        <4>1. CASE n = m
          <5>1. CASE IsDead(r)
            BY <2>5, <4>1, <5>1 DEF IsDead
          <5>2. CASE ~IsDead(r)
            BY <2>1, <2>4, <4>1, <5>2
          <5>. QED
            BY <5>1, <5>2
        <4>2. CASE n # m
          <5>1. monitors'[n] = monitors[n]
            BY <2>5, <4>2
          <5>2. \A p \in Object : mhc[p] = RealMonitor(n) => p # o
            BY <2>1, <4>2 DEF RealMonitor
          <5>3. \A p \in Object : mhc[p] = RealMonitor(n) => mhc'[p] = RealMonitor(n)
            BY <2>4, <5>2 DEF TypeOK
          <5>. QED
            BY <5>1, <5>3 DEF QueueInv, Attached
        <4>. QED
          BY <4>1, <4>2
      <3>. QED
        BY <3>1 DEF Attached
    <2>. QED
      BY <2>4, <2>7, <2>8, <2>9, <2>10 DEF QueueInv
  <1>. QED
    BY <1>1, <1>2, <1>3 DEF MonitorExit

LEMMA QueueWaitThrows ==
    ASSUME TypeOK, LockInv, QueueInv, NEW t \in Thread, NEW o \in Object,
           MonitorWaitThrows(t, o)
    PROVE  QueueInv'
  <1>1. PICK m \in Monitor : UpgradeToRealMonitor(o, m, Upgraded(o))
    BY DEF MonitorWaitThrows
  <1>2. UNCHANGED placeVars
    BY DEF MonitorWaitThrows, placeVars, schedVars, waitVars, alarmVars
  <1>. QED
    BY <1>1, <1>2, QueueInvUpgrade

LEMMA QueueWait ==
    ASSUME TypeOK, LockInv, QueueInv, NEW t \in Thread, NEW o \in Object,
           NEW delta \in 0..MaxDelta, MonitorWait(t, o, delta)
    PROVE  QueueInv'
  <1>. DEFINE r == [Upgraded(o) EXCEPT !.condvar_waitq = AddThreadToQueue(@, t)]
              d == [monitor_depth EXCEPT ![t] = ToShort(r.depth)]
              f == (state[t] \cup {"CONVAR_WAIT"}) \cup {"SUSPENDED"}
              st == Suspended([state EXCEPT ![t] = @ \cup {"CONVAR_WAIT"}], t)
  <1>1. PICK m \in Monitor :
          /\ UpgradeToRealMonitor(o, m, HandedOver(r, d))
          /\ WakeNewOwner(QueueStart(r.monitor_waitq, NIL), st,
                          [monitor EXCEPT ![t] = m], d)
    BY DEF MonitorWait
  <1>2. /\ CurrentThread = t /\ CurrentThread' = NIL
        /\ pendingException' = pendingException
        /\ \/ UNCHANGED wakeupCall
           \/ wakeupCall' = [wakeupCall EXCEPT ![t] = "monitorWaitAlarm"]
    BY DEF MonitorWait, Running, Suspend, alarmVars, intrVars, RegisterAlarm
  <1>3. /\ Ready(state[t]) /\ ~Asleep(state[t])
        /\ wakeupCall[t] # "resumeThread" /\ wakeupCall[t] # "monitorWaitAlarm"
        /\ ~pendingException[t] /\ t \notin OnQueue(monitors[m].condvar_waitq)
    BY <1>2, CurrentIsReady
  <1>4. IsMonitorFor(o, m)
    BY <1>1 DEF UpgradeToRealMonitor
  <1>5. /\ Upgraded(o).monitor_waitq = monitors[m].monitor_waitq
        /\ Upgraded(o).condvar_waitq = monitors[m].condvar_waitq
    BY <1>4, UpgradedQueues DEF QueueInv
  <1>6. /\ r.monitor_waitq = monitors[m].monitor_waitq
        /\ r.condvar_waitq = AddThreadToQueue(monitors[m].condvar_waitq, t)
        /\ r \in MonitorStruct
    <2>1. Upgraded(o) \in MonitorStruct
      BY UpgradedType
    <2>2. AddThreadToQueue(Upgraded(o).condvar_waitq, t) \in Seq(Thread)
      BY <2>1, AddType DEF MonitorStruct
    <2>. QED
      BY <1>5, <2>1, <2>2 DEF MonitorStruct
  <1>. HIDE DEF r, d
  <1>7. /\ OnQueue(r.condvar_waitq) = OnQueue(monitors[m].condvar_waitq) \cup {t}
        /\ NoDuplicates(r.condvar_waitq)
    <2>1. monitors[m].condvar_waitq \in Seq(Thread)
      BY DEF TypeOK, MonitorStruct
    <2>2. NoDuplicates(monitors[m].condvar_waitq)
      BY DEF QueueInv, Placed
    <2>. QED
      BY <1>3, <1>6, <2>1, <2>2, AddedQueue
  <1>8. /\ Attached(monitors', mhc')
        /\ monitors'[m] = HandedOver(r, d)
        /\ \A n \in Monitor \ {m} : monitors'[n] = monitors[n]
    BY <1>1, UpgradeAttached DEF QueueInv
  <1>9. /\ f \in FlagSets /\ InWait(f)
    BY <1>3, FlagSteps
  <1>10. ~Ready(f) /\ ~Asleep(f) /\ ~InLine(f)
    BY <1>9, FlagSetsApart DEF InLine, InWait
  <1>. DEFINE mo1 == [monitor EXCEPT ![t] = m]
              ms1 == [monitors EXCEPT ![m] = r]
  <1>11. \A u \in Thread : st[u] = IF u = t THEN f ELSE state[u]
    BY DEF TypeOK, Suspended
  <1>12. \A u \in Thread : mo1[u] = IF u # t THEN monitor[u]
                                    ELSE IF InLine(f) \/ InWait(f) THEN m ELSE NIL
    BY <1>9 DEF TypeOK
  <1>13. AreFlags(st) /\ AreMonitors(mo1)
    <2>1. AreFlags(st)
      BY DEF TypeOK, Suspended, AreFlags, Flag
    <2>. QED
      BY <2>1 DEF TypeOK, AreMonitors
  <1>14. ms1[m] = r /\ \A n \in Monitor \ {m} : ms1[n] = monitors[n]
    BY DEF TypeOK
  <1>. HIDE DEF f, st, mo1, ms1
  <1>15. NewQueues(t, f, m, monitors, ms1)
    BY <1>6, <1>7, <1>9, <1>10, <1>14 DEF QueueInv, Placed, NewQueues
  <1>16. Placed(NIL, RunnableThreads, st, mo1, ms1)
    <2>1. Placed(t, RunnableThreads, state, monitor, monitors)
      BY <1>2 DEF QueueInv
    <2>2. NewFields(t, f, m, state, monitor, st, mo1)
      BY <1>11, <1>12 DEF NewFields
    <2>. QED
      BY <1>9, <1>10, <1>15, <2>1, <2>2, CurrentLeaves
  <1>17. AlarmsFit(st, wakeupCall')
    <2>1. \A u \in Thread : u # t => wakeupCall'[u] = wakeupCall[u] /\ st[u] = state[u]
      BY <1>2, <1>11 DEF TypeOK
    <2>2. wakeupCall'[t] # "resumeThread"
      BY <1>2, <1>3 DEF TypeOK
    <2>. QED
      BY <1>9, <1>10, <1>11, <2>1, <2>2 DEF QueueInv, AlarmsFit
  <1>18. InterruptsFit(NIL, RunnableThreads, st, pendingException)
    BY <1>2, <1>3, <1>11, ThreadsAreNotNil DEF QueueInv, InterruptsFit
  <1>19. /\ monitors'[m].monitor_waitq = RemoveQueueStart(ms1[m].monitor_waitq)
         /\ monitors'[m].condvar_waitq = ms1[m].condvar_waitq
         /\ \A n \in Monitor \ {m} : monitors'[n] = ms1[n]
    BY <1>6, <1>8, <1>14, HandedOverQueues
  <1>20. /\ IsQueue(ms1[m].monitor_waitq)
         /\ WakeNewOwner(QueueStart(ms1[m].monitor_waitq, NIL), st, mo1, d)
    BY <1>1, <1>6, <1>14 DEF IsQueue, MonitorStruct, mo1
  <1>21. /\ Placed(NIL, RunnableThreads', state', monitor', monitors')
         /\ MovedFrom(st, << >>)
    BY <1>13, <1>16, <1>19, <1>20, WakeNewOwnerMoves
  <1>22. AlarmsFit(state', wakeupCall')
    <2>1. ASSUME NEW u \in Thread
          PROVE  /\ wakeupCall'[u] = "resumeThread" <=> Asleep(state'[u])
                 /\ wakeupCall'[u] = "monitorWaitAlarm" => InWait(state'[u])
      <3>1. /\ wakeupCall'[u] = "resumeThread" <=> Asleep(st[u])
            /\ wakeupCall'[u] = "monitorWaitAlarm" => InWait(st[u])
        BY <1>17 DEF AlarmsFit
      <3>2. state'[u] = st[u] \/ (InLine(st[u]) /\ u \in OnQueue(RunnableThreads'))
        BY <1>21, EmptyQueue DEF MovedFrom
      <3>3. InLine(st[u]) => ~Asleep(st[u]) /\ ~InWait(st[u])
        BY <1>16, FlagSetsApart DEF Placed, InLine, InWait
      <3>4. u \in OnQueue(RunnableThreads') => Ready(state'[u]) /\ ~Asleep(state'[u])
        BY <1>21, FlagSetsApart DEF Placed
      <3>. QED
        BY <3>1, <3>2, <3>3, <3>4
    <2>. QED
      BY <2>1 DEF AlarmsFit
  <1>23. InterruptsFit(NIL, RunnableThreads', state', pendingException')
    BY <1>2, <1>16, <1>18, <1>21, MovedInterrupts, EmptyQueue
  <1>. QED
    BY <1>2, <1>8, <1>21, <1>22, <1>23 DEF QueueInv

\* Threads ts leave the condvar queue of m, and nothing else changes places.
LeavesWait(m, r, ts) ==
    /\ r \in MonitorStruct
    /\ r.monitor_waitq = monitors[m].monitor_waitq
    /\ r.owner = monitors[m].owner /\ r.depth = monitors[m].depth
    /\ r.hashCode = monitors[m].hashCode
    /\ NoDuplicates(ts) /\ NoDuplicates(r.condvar_waitq)
    /\ OnQueue(ts) \subseteq OnQueue(monitors[m].condvar_waitq)
    /\ OnQueue(r.condvar_waitq) = OnQueue(monitors[m].condvar_waitq) \ OnQueue(ts)

\* ts are the first threads of the queue q, one or all of them, and p the others.
FirstLeave(q, ts, p) ==
    q # << >> => \E k \in {1, Len(q)} : ts = SubSeq(q, 1, k) /\ p = SubSeq(q, k + 1, Len(q))

\* p is what is left of q without the thread u.
OneLeft(q, u, p) ==
    \E i \in 1..Len(q) : q[i] = u /\ p = SubSeq(q, 1, i - 1) \o SubSeq(q, i + 1, Len(q))

LEMMA LeavingWait ==
    ASSUME TypeOK, NEW m \in Monitor, NEW r, NEW ts \in Seq(Thread), NEW st, NEW ct,
           Placed(ct, RunnableThreads, st, monitor, monitors),
           AlarmsFit(st, wakeupCall),
           InterruptsFit(ct, RunnableThreads, st, pendingException),
           Attached(monitors, mhc),
           LeavesWait(m, r, ts), AddMonitorWait(m, r, ts, st),
           RemovePendingAlarms(OnQueue(ts)),
           CurrentThread' = ct, mhc' = mhc,
           \A t \in Thread : pendingException'[t] => pendingException[t] \/ t \in OnQueue(ts)
    PROVE  QueueInv'
  <1>1. /\ Placed(ct, RunnableThreads', state', monitor', monitors')
        /\ MovedFrom(st, ts)
        /\ \A n \in Monitor \ {m} : monitors'[n] = monitors[n]
        /\ monitors[m].monitor_waitq = << >> /\ monitors[m].condvar_waitq = << >>
             => monitors'[m].monitor_waitq = << >> /\ monitors'[m].condvar_waitq = << >>
    BY AddMonitorWaitMoves DEF LeavesWait
  <1>2. \A t \in Thread : wakeupCall'[t] = IF t \in OnQueue(ts) THEN NIL ELSE wakeupCall[t]
    BY DEF RemovePendingAlarms
  <1>3. AlarmsFit(state', wakeupCall')
    BY <1>1, <1>2, MovedAlarms
  <1>4. \A t \in Thread : t \in OnQueue(ts) => InWait(st[t])
    BY DEF LeavesWait, Placed
  <1>5. InterruptsFit(ct, RunnableThreads', state', pendingException')
    BY <1>1, <1>4, MovedInterrupts
  <1>6. Attached(monitors', mhc')
    BY <1>1, AttachedKept
  <1>. QED
    BY <1>1, <1>3, <1>5, <1>6 DEF QueueInv

\* removeCondvarWait() takes all waiting threads, or the first.
LEMMA NotifiedLeave ==
    ASSUME TypeOK, NEW m \in Monitor, NEW notifyAll \in BOOLEAN, NEW st, NEW ct,
           Placed(ct, RunnableThreads, st, monitor, monitors),
           RemoveCondvarWait(m, notifyAll, st)
    PROVE  \E r, ts : /\ ts \in Seq(Thread) /\ LeavesWait(m, r, ts)
                      /\ AddMonitorWait(m, r, ts, st) /\ RemovePendingAlarms(OnQueue(ts))
                      /\ FirstLeave(monitors[m].condvar_waitq, ts, r.condvar_waitq)
  <1>. DEFINE q  == monitors[m].condvar_waitq
              ts == IF notifyAll \/ q = << >> THEN q ELSE <<Head(q)>>
              p  == IF notifyAll THEN << >> ELSE RemoveQueueStart(q)
              r  == [monitors[m] EXCEPT !.condvar_waitq =
                       IF notifyAll THEN << >> ELSE RemoveQueueStart(@)]
  <1>1. monitors[m] \in MonitorStruct /\ q \in Seq(Thread) /\ NoDuplicates(q)
    BY DEF TypeOK, MonitorStruct, Placed
  <1>2. /\ ts \in Seq(Thread) /\ p \in Seq(Thread)
        /\ NoDuplicates(ts) /\ NoDuplicates(p)
        /\ OnQueue(ts) \subseteq OnQueue(q)
        /\ OnQueue(p) = OnQueue(q) \ OnQueue(ts)
        /\ FirstLeave(q, ts, p)
    <2>1. CASE q = << >>
      <3>1. ts = << >> /\ p = << >>
        BY <2>1 DEF RemoveQueueStart
      <3>. HIDE DEF ts, p
      <3>. QED
        BY <2>1, <3>1, EmptyQueue DEF FirstLeave
    <2>2. CASE q # << >> /\ notifyAll
      <3>1. ts = q /\ p = << >>
        BY <2>2
      <3>. HIDE DEF ts, p, q
      <3>2. FirstLeave(q, ts, p)
        <4>1. ts = SubSeq(q, 1, Len(q)) /\ p = SubSeq(q, Len(q) + 1, Len(q))
          BY <1>1, <3>1
        <4>. QED
          BY <4>1 DEF FirstLeave
      <3>. QED
        BY <1>1, <3>1, <3>2, EmptyQueue
    <2>3. CASE q # << >> /\ ~notifyAll
      <3>1. ts = <<Head(q)>> /\ p = Tail(q)
        BY <2>3 DEF RemoveQueueStart
      <3>2. /\ OnQueue(Tail(q)) = OnQueue(q) \ {Head(q)} /\ NoDuplicates(Tail(q))
            /\ Tail(q) \in Seq(Thread)
        BY <1>1, <2>3, TailQueue
      <3>3. Head(q) \in OnQueue(q) /\ Head(q) \in Thread
        BY <1>1, <2>3, QueueMember
      <3>4. OnQueue(<<Head(q)>>) = {Head(q)} /\ NoDuplicates(<<Head(q)>>)
        BY SingleQueue
      <3>. HIDE DEF ts, p, q
      <3>5. FirstLeave(q, ts, p)
        <4>1. <<Head(q)>> = SubSeq(q, 1, 1) /\ Tail(q) = SubSeq(q, 1 + 1, Len(q))
          BY <1>1, <2>3
        <4>. QED
          BY <3>1, <4>1 DEF FirstLeave
      <3>. QED
        BY <3>1, <3>2, <3>3, <3>4, <3>5
    <2>. QED
      BY <2>1, <2>2, <2>3
  <1>3. /\ r \in MonitorStruct /\ r.condvar_waitq = p
        /\ r.monitor_waitq = monitors[m].monitor_waitq
        /\ r.owner = monitors[m].owner /\ r.depth = monitors[m].depth
        /\ r.hashCode = monitors[m].hashCode
    BY <1>1, <1>2 DEF MonitorStruct
  <1>4. AddMonitorWait(m, r, ts, st) /\ RemovePendingAlarms(OnQueue(ts))
    BY DEF RemoveCondvarWait
  <1>. HIDE DEF ts, p, r
  <1>5. LeavesWait(m, r, ts)
    BY <1>2, <1>3 DEF LeavesWait
  <1>6. FirstLeave(q, ts, r.condvar_waitq)
    BY <1>2, <1>3
  <1>. QED
    BY <1>2, <1>4, <1>5, <1>6

LEMMA QueueNotify ==
    ASSUME TypeOK, QueueInv, NEW t \in Thread, NEW o \in Object, NEW notifyAll \in BOOLEAN,
           MonitorNotify(t, o, notifyAll)
    PROVE  QueueInv'
  <1>. DEFINE m == mhc[o].val
  <1>1. m \in Monitor
    BY MhcValues DEF MonitorNotify, HasMonitor
  <1>2. /\ RemoveCondvarWait(m, notifyAll, state)
        /\ CurrentThread' = CurrentThread /\ mhc' = mhc /\ pendingException' = pendingException
    BY DEF MonitorNotify, intrVars
  <1>. HIDE DEF m
  <1>3. PICK r, ts : /\ ts \in Seq(Thread) /\ LeavesWait(m, r, ts)
                     /\ AddMonitorWait(m, r, ts, state) /\ RemovePendingAlarms(OnQueue(ts))
    BY <1>1, <1>2, NotifiedLeave DEF QueueInv
  <1>. QED
    BY <1>1, <1>2, <1>3, LeavingWait DEF QueueInv

LEMMA QueueHashCode ==
    ASSUME TypeOK, LockInv, QueueInv, NEW t \in Thread, NEW o \in Object,
           ObjectHashCode(t, o)
    PROVE  QueueInv'
  <1>1. UNCHANGED placeVars
    BY DEF ObjectHashCode, placeVars, schedVars, waitVars, alarmVars, intrVars
  <1>2. CASE HashCodePromotesToReal(t, o)
    <2>1. PICK m \in Monitor, h \in HashCode :
            UpgradeToRealMonitor(o, m, [Upgraded(o) EXCEPT !.hashCode = h])
      BY <1>2 DEF HashCodePromotesToReal
    <2>2. /\ [Upgraded(o) EXCEPT !.hashCode = h].monitor_waitq = Upgraded(o).monitor_waitq
          /\ [Upgraded(o) EXCEPT !.hashCode = h].condvar_waitq = Upgraded(o).condvar_waitq
      BY UpgradedType DEF MonitorStruct
    <2>. QED
      BY <1>1, <2>1, <2>2, QueueInvUpgrade
  <1>3. CASE HashCodeInPlace(t, o)
    <2>1. UNCHANGED monitors
      BY <1>3 DEF HashCodeInPlace
    <2>2. \/ UNCHANGED mhc
          \/ ~HasMonitor(o) /\ \E word : mhc' = [mhc EXCEPT ![o] = word]
      BY <1>3 DEF HashCodeInPlace, HasMonitor
    <2>3. \A p \in Object, m \in Monitor : mhc[p] = RealMonitor(m) => mhc'[p] = RealMonitor(m)
      BY <2>2, FastWordsKeepMonitors
    <2>. QED
      BY <1>1, <2>1, <2>3, QueueInvSame
  <1>. QED
    BY <1>2, <1>3 DEF ObjectHashCode

\* The current thread goes to sleep, or ends.
LEMMA CurrentRests ==
    ASSUME TypeOK, QueueInv, NEW t \in Thread, CurrentThread = t, NEW f \in FlagSets,
           ~Ready(f), ~InLine(f), ~InWait(f), NEW st,
           \A u \in Thread : st[u] = IF u = t THEN f ELSE state[u]
    PROVE  /\ Placed(NIL, RunnableThreads, st, monitor, monitors)
           /\ InterruptsFit(NIL, RunnableThreads, st, pendingException)
  <1>1. monitor[t] = NIL /\ ~pendingException[t]
    BY CurrentIsReady
  <1>2. NewFields(t, f, NIL, state, monitor, st, monitor)
    BY <1>1 DEF NewFields
  <1>3. NewQueues(t, f, NIL, monitors, monitors)
    BY DEF NewQueues, QueueInv, Placed
  <1>4. Placed(t, RunnableThreads, state, monitor, monitors)
    BY DEF QueueInv
  <1>5. Placed(NIL, RunnableThreads, st, monitor, monitors)
    BY <1>2, <1>3, <1>4, CurrentLeaves
  <1>6. InterruptsFit(NIL, RunnableThreads, st, pendingException)
    BY <1>1, ThreadsAreNotNil DEF QueueInv, InterruptsFit
  <1>. QED
    BY <1>5, <1>6

LEMMA QueueSleep ==
    ASSUME TypeOK, QueueInv, NEW t \in Thread, NEW delta \in 1..MaxDelta, Sleep(t, delta)
    PROVE  QueueInv'
  <1>. DEFINE f == state[t] \cup {"SUSPENDED"}
  <1>1. /\ CurrentThread = t /\ CurrentThread' = NIL
        /\ state' = Suspended(state, t)
        /\ RegisterAlarm(t, delta, "resumeThread")
        /\ UNCHANGED <<RunnableThreads, monitor, monitors, mhc, pendingException>>
    BY DEF Sleep, Running, Suspend, intrVars, lockVars
  <1>2. /\ Ready(state[t]) /\ ~Asleep(state[t])
        /\ wakeupCall[t] # "resumeThread" /\ wakeupCall[t] # "monitorWaitAlarm"
    BY <1>1, CurrentIsReady
  <1>3. wakeupCall' = [wakeupCall EXCEPT ![t] = "resumeThread"]
    BY <1>1, <1>2 DEF RegisterAlarm, TypeOK, WakeupCall
  <1>4. f \in FlagSets /\ Asleep(f) /\ ~Ready(f) /\ ~InLine(f) /\ ~InWait(f)
    BY <1>2, FlagSteps, FlagSetsApart
  <1>5. \A u \in Thread : state'[u] = IF u = t THEN f ELSE state[u]
    BY <1>1 DEF Suspended, TypeOK
  <1>. HIDE DEF f
  <1>6. /\ Placed(NIL, RunnableThreads, state', monitor, monitors)
        /\ InterruptsFit(NIL, RunnableThreads, state', pendingException)
    BY <1>1, <1>4, <1>5, CurrentRests
  <1>7. AlarmsFit(state', wakeupCall')
    BY <1>3, <1>4, <1>5 DEF TypeOK, QueueInv, AlarmsFit
  <1>8. Attached(monitors', mhc')
    BY <1>1, AttachedKept DEF QueueInv
  <1>. QED
    BY <1>1, <1>6, <1>7, <1>8 DEF QueueInv

LEMMA QueueStop ==
    ASSUME TypeOK, QueueInv, NEW t \in Thread, Stop(t)
    PROVE  QueueInv'
  <1>. DEFINE o  == javaThread[t]
              st == [state EXCEPT ![t] = {"DEAD"}]
  <1>1. /\ CurrentThread = t /\ CurrentThread' = NIL
        /\ UNCHANGED <<mhc, pendingException>>
    BY DEF Stop, Running, intrVars
  <1>2. /\ wakeupCall[t] # "resumeThread" /\ wakeupCall[t] # "monitorWaitAlarm"
    BY <1>1, CurrentIsReady
  <1>3. \A u \in Thread : st[u] = IF u = t THEN {"DEAD"} ELSE state[u]
    BY DEF TypeOK
  <1>4. /\ IF o # NIL /\ HasMonitor(o)
           THEN RemoveCondvarWait(mhc[o].val, TRUE, st)
           ELSE /\ state' = st
                /\ UNCHANGED <<RunnableThreads, monitor, monitor_depth,
                               monitors, alarmVars>>
    BY DEF Stop
  <1>. HIDE DEF st
  <1>5. /\ Placed(NIL, RunnableThreads, st, monitor, monitors)
        /\ InterruptsFit(NIL, RunnableThreads, st, pendingException)
    BY <1>1, <1>3, FlagSteps, CurrentRests
  <1>6. AlarmsFit(st, wakeupCall)
    BY <1>2, <1>3, FlagSteps DEF QueueInv, AlarmsFit
  <1>7. CASE o # NIL /\ HasMonitor(o)
    <2>. DEFINE m == mhc[o].val
    <2>1. m \in Monitor
      <3>1. o \in Object
        BY <1>7, ConstantsAssumption DEF ConstantsAssumption
      <3>. QED
        BY <1>7, <3>1, MhcValues DEF HasMonitor
    <2>2. RemoveCondvarWait(m, TRUE, st)
      BY <1>4, <1>7
    <2>. HIDE DEF m
    <2>3. PICK r, ts : /\ ts \in Seq(Thread) /\ LeavesWait(m, r, ts)
                       /\ AddMonitorWait(m, r, ts, st) /\ RemovePendingAlarms(OnQueue(ts))
      BY <1>5, <2>1, <2>2, NotifiedLeave
    <2>4. Attached(monitors, mhc)
      BY DEF QueueInv
    <2>. QED
      BY <1>1, <1>5, <1>6, <2>1, <2>3, <2>4, LeavingWait
  <1>8. CASE ~(o # NIL /\ HasMonitor(o))
    <2>1. state' = st /\ UNCHANGED <<RunnableThreads, monitor, monitors, wakeupCall>>
      BY <1>4, <1>8 DEF alarmVars
    <2>2. Attached(monitors', mhc')
      BY <1>1, <2>1, AttachedKept DEF QueueInv
    <2>. QED
      BY <1>1, <1>5, <1>6, <2>1, <2>2 DEF QueueInv
  <1>. QED
    BY <1>7, <1>8

\* resumeThread(u), for a u that is on no queue.
Resumes(u) ==
    /\ state' = Resumed(state, u)
    /\ RunnableThreads' = AddThreadToQueue(RunnableThreads, u)
    /\ UNCHANGED <<CurrentThread, monitor, monitors, mhc>>

LEMMA Resuming ==
    ASSUME TypeOK, QueueInv, NEW u \in Thread, Resumes(u),
           ~Ready(state[u]), ~InLine(state[u]), ~InWait(state[u]),
           wakeupCall'[u] # "resumeThread", wakeupCall'[u] # "monitorWaitAlarm",
           \A t \in Thread : t # u => wakeupCall'[t] = wakeupCall[t],
           \A t \in Thread : pendingException'[t] => pendingException[t] \/ t = u
    PROVE  QueueInv'
  <1>1. u # CurrentThread /\ u \notin OnQueue(RunnableThreads) /\ monitor[u] = NIL
    BY DEF QueueInv, Placed
  <1>2. /\ OnQueue(RunnableThreads') = OnQueue(RunnableThreads) \cup {u}
        /\ NoDuplicates(RunnableThreads')
    BY <1>1, AddedQueue DEF TypeOK, Resumes, QueueInv, Placed
  <1>3. \A t \in Thread : state'[t] = IF t = u THEN {"ACTIVE"} ELSE state[t]
    BY DEF Resumes, Resumed, TypeOK
  <1>4. /\ {"ACTIVE"} \in FlagSets /\ Ready({"ACTIVE"}) /\ ~Asleep({"ACTIVE"})
        /\ ~InLine({"ACTIVE"}) /\ ~InWait({"ACTIVE"})
    BY FlagSteps, FlagSetsApart
  <1>5. UNCHANGED <<CurrentThread, monitor, monitors, mhc>>
    BY DEF Resumes
  <1>6. ASSUME NEW t \in Thread
        PROVE  /\ state'[t] \in FlagSets
               /\ Ready(state'[t]) <=> t = CurrentThread \/ t \in OnQueue(RunnableThreads')
               /\ t = CurrentThread => t \notin OnQueue(RunnableThreads')
               /\ InLine(state'[t]) \/ InWait(state'[t]) <=> monitor[t] # NIL
               /\ \A n \in Monitor :
                    /\ t \in OnQueue(monitors[n].monitor_waitq)
                         <=> InLine(state'[t]) /\ monitor[t] = n
                    /\ t \in OnQueue(monitors[n].condvar_waitq)
                         <=> InWait(state'[t]) /\ monitor[t] = n
    <2>1. CASE t = u
      BY <1>1, <1>2, <1>3, <1>4, <2>1 DEF QueueInv, Placed
    <2>2. CASE t # u
      BY <1>2, <1>3, <2>2 DEF QueueInv, Placed
    <2>. QED
      BY <2>1, <2>2
  <1>7. Placed(CurrentThread, RunnableThreads', state', monitor, monitors)
    BY <1>2, <1>6 DEF QueueInv, Placed
  <1>8. AlarmsFit(state', wakeupCall')
    BY <1>3, <1>4 DEF QueueInv, AlarmsFit
  <1>9. InterruptsFit(CurrentThread, RunnableThreads', state', pendingException')
    BY <1>1, <1>2, <1>3 DEF QueueInv, InterruptsFit
  <1>. QED
    BY <1>5, <1>7, <1>8, <1>9 DEF QueueInv

LEMMA QueueStartThread ==
    ASSUME TypeOK, QueueInv, NEW t \in Thread, NEW u \in Thread, Start(t, u)
    PROVE  QueueInv'
  <1>1. Resumes(u) /\ UNCHANGED <<wakeupCall, pendingException>>
    BY DEF Start, Resumes, alarmVars, intrVars, lockVars
  <1>2. /\ ~Ready(state[u]) /\ ~InLine(state[u]) /\ ~InWait(state[u])
        /\ ~Asleep(state[u])
    BY FlagSteps DEF Start
  <1>3. wakeupCall'[u] # "resumeThread" /\ wakeupCall'[u] # "monitorWaitAlarm"
    BY <1>1, <1>2 DEF QueueInv, AlarmsFit
  <1>. QED
    BY <1>1, <1>2, <1>3, Resuming

\* A waiting thread alone leaves the condvar queue it is on.
LEMMA OneLeaves ==
    ASSUME TypeOK, QueueInv, NEW u \in Thread, InWait(state[u])
    PROVE  /\ monitor[u] \in Monitor
           /\ u \in OnQueue(monitors[monitor[u]].condvar_waitq)
           /\ <<u>> \in Seq(Thread) /\ OnQueue(<<u>>) = {u}
           /\ \A r : r = [monitors[monitor[u]] EXCEPT !.condvar_waitq = RemoveFromQueue(@, u)]
                       => /\ LeavesWait(monitor[u], r, <<u>>)
                          /\ OneLeft(monitors[monitor[u]].condvar_waitq, u, r.condvar_waitq)
  <1>1. PICK m \in Monitor : monitor[u] = m
    BY DEF TypeOK, QueueInv, Placed
  <1>. DEFINE q == monitors[m].condvar_waitq
  <1>2. monitors[m] \in MonitorStruct /\ q \in Seq(Thread) /\ NoDuplicates(q)
    BY DEF TypeOK, MonitorStruct, QueueInv, Placed
  <1>3. u \in OnQueue(q)
    BY <1>1 DEF QueueInv, Placed
  <1>4. OnQueue(<<u>>) = {u} /\ NoDuplicates(<<u>>)
    BY SingleQueue
  <1>. HIDE DEF q
  <1>5. /\ OnQueue(RemoveFromQueue(q, u)) = OnQueue(q) \ {u}
        /\ NoDuplicates(RemoveFromQueue(q, u))
        /\ RemoveFromQueue(q, u) \in Seq(Thread)
        /\ OneLeft(q, u, RemoveFromQueue(q, u))
    BY <1>2, <1>3, RemovedQueue, RemoveType DEF OneLeft
  <1>6. ASSUME NEW r, r = [monitors[m] EXCEPT !.condvar_waitq = RemoveFromQueue(@, u)]
        PROVE  LeavesWait(m, r, <<u>>) /\ OneLeft(q, u, r.condvar_waitq)
    <2>1. /\ r.condvar_waitq = RemoveFromQueue(q, u)
          /\ r.monitor_waitq = monitors[m].monitor_waitq
          /\ r.owner = monitors[m].owner /\ r.depth = monitors[m].depth
          /\ r.hashCode = monitors[m].hashCode
          /\ r \in MonitorStruct
      BY <1>2, <1>5, <1>6 DEF MonitorStruct, q
    <2>. QED
      BY <1>3, <1>4, <1>5, <2>1 DEF LeavesWait, q
  <1>. QED
    BY <1>1, <1>3, <1>4, <1>6 DEF q

LEMMA QueueInterrupt ==
    ASSUME TypeOK, QueueInv, ~RepeatInterrupt, NEW t \in Thread, NEW u \in Thread,
           Interrupt(t, u)
    PROVE  QueueInv'
  <1>1. UNCHANGED <<CurrentThread, mhc>>
    BY DEF Interrupt
  <1>2. CASE InterruptWaiting(u)
    <2>. DEFINE m == monitor[u]
                r == [monitors[m] EXCEPT !.condvar_waitq = RemoveFromQueue(@, u)]
    <2>1. InWait(state[u])
      BY <1>2 DEF InterruptWaiting, Waiting, InWait
    <2>2. /\ AddMonitorWait(m, r, <<u>>, state)
          /\ RemovePendingAlarms({u})
          /\ pendingException' = [pendingException EXCEPT ![u] = TRUE]
      BY <1>2 DEF InterruptWaiting
    <2>3. /\ m \in Monitor /\ LeavesWait(m, r, <<u>>)
          /\ <<u>> \in Seq(Thread) /\ OnQueue(<<u>>) = {u}
      BY <2>1, OneLeaves
    <2>4. \A x \in Thread : pendingException'[x] => pendingException[x] \/ x \in OnQueue(<<u>>)
      BY <2>2, <2>3 DEF TypeOK
    <2>5. RemovePendingAlarms(OnQueue(<<u>>))
      BY <2>2, <2>3
    <2>. HIDE DEF m, r
    <2>. QED
      BY <1>1, <2>2, <2>3, <2>4, <2>5, LeavingWait DEF QueueInv
  <1>3. CASE InterruptSleeping(u)
    <2>1. /\ Resumes(u) /\ RemovePendingAlarms({u})
          /\ pendingException' = [pendingException EXCEPT ![u] = TRUE]
          /\ Sleeping(u) /\ ~Waiting(u)
      BY <1>1, <1>3 DEF InterruptSleeping, Resumes
    <2>2. Asleep(state[u])
      BY <2>1 DEF TypeOK, WakeupCall, Sleeping, Waiting, InWait, QueueInv, AlarmsFit
    <2>3. ~Ready(state[u]) /\ ~InLine(state[u]) /\ ~InWait(state[u])
      BY <2>2, FlagSetsApart DEF QueueInv, Placed
    <2>4. /\ wakeupCall'[u] = NIL
          /\ \A x \in Thread : x # u => wakeupCall'[x] = wakeupCall[x]
      BY <2>1 DEF RemovePendingAlarms
    <2>5. wakeupCall'[u] # "resumeThread" /\ wakeupCall'[u] # "monitorWaitAlarm"
      BY <2>4, ConstantsAssumption DEF ConstantsAssumption
    <2>6. \A x \in Thread : pendingException'[x] => pendingException[x] \/ x = u
      BY <2>1 DEF TypeOK
    <2>. QED
      BY <2>1, <2>3, <2>4, <2>5, <2>6, Resuming
  <1>4. CASE InterruptLater(u)
    <2>1. UNCHANGED placeVars /\ UNCHANGED <<monitors, mhc>>
      BY <1>1, <1>4 DEF InterruptLater, placeVars, waitVars, alarmVars
    <2>. QED
      BY <2>1, QueueInvSame
  <1>. QED
    BY <1>2, <1>3, <1>4 DEF Interrupt

LEMMA QueueFireAlarm ==
    ASSUME TypeOK, QueueInv, NEW u \in Thread, FireAlarm(u)
    PROVE  QueueInv'
  <1>1. /\ wakeupCall[u] # NIL
        /\ RemovePendingAlarms({u})
        /\ UNCHANGED <<CurrentThread, pendingException, mhc>>
    BY DEF FireAlarm, Due, intrVars
  <1>2. /\ wakeupCall'[u] = NIL
        /\ \A t \in Thread : t # u => wakeupCall'[t] = wakeupCall[t]
    BY <1>1 DEF RemovePendingAlarms
  <1>3. CASE wakeupCall[u] = "resumeThread"
    <2>1. Resumes(u)
      BY <1>1, <1>3 DEF FireAlarm, Resumes
    <2>2. ~Ready(state[u]) /\ ~InLine(state[u]) /\ ~InWait(state[u])
      BY <1>3, FlagSetsApart DEF QueueInv, Placed, AlarmsFit
    <2>3. wakeupCall'[u] # "resumeThread" /\ wakeupCall'[u] # "monitorWaitAlarm"
      BY <1>2, ConstantsAssumption DEF ConstantsAssumption
    <2>. QED
      BY <1>1, <1>2, <2>1, <2>2, <2>3, Resuming
  <1>4. CASE wakeupCall[u] = "monitorWaitAlarm"
    <2>. DEFINE m == monitor[u]
                r == [monitors[m] EXCEPT !.condvar_waitq = RemoveFromQueue(@, u)]
    <2>1. InWait(state[u])
      BY <1>4 DEF QueueInv, AlarmsFit
    <2>2. /\ m \in Monitor /\ m # NIL /\ LeavesWait(m, r, <<u>>)
          /\ <<u>> \in Seq(Thread) /\ OnQueue(<<u>>) = {u}
      BY <2>1, OneLeaves, ConstantsAssumption DEF ConstantsAssumption
    <2>3. AddMonitorWait(m, r, <<u>>, state)
      BY <1>4, <2>2 DEF FireAlarm
    <2>4. RemovePendingAlarms(OnQueue(<<u>>))
      BY <1>1, <2>2
    <2>. HIDE DEF m, r
    <2>. QED
      BY <1>1, <2>2, <2>3, <2>4, LeavingWait DEF QueueInv
  <1>. QED
    BY <1>1, <1>3, <1>4 DEF TypeOK, WakeupCall

LEMMA QueueSwitch ==
    ASSUME TypeOK, QueueInv, SwitchThread
    PROVE  QueueInv'
  <1>. DEFINE c == CurrentThread
              R == RunnableThreads
  <1>1. UNCHANGED <<state, monitor, wakeupCall, monitors, mhc>>
    BY DEF SwitchThread, waitVars, alarmVars, lockVars
  <1>2. CASE CurrentThread # NIL /\ RunnableThreads = << >>
    <2>1. UNCHANGED placeVars /\ UNCHANGED <<monitors, mhc>>
      BY <1>1, <1>2 DEF SwitchThread, placeVars
    <2>. QED
      BY <2>1, QueueInvSame
  <1>3. CASE RunnableThreads # << >>
    <2>1. /\ CurrentThread' = Head(R)
          /\ RunnableThreads' = IF c = NIL THEN Tail(R) ELSE AddThreadToQueue(Tail(R), c)
          /\ pendingException' = [pendingException EXCEPT ![Head(R)] = FALSE]
      BY <1>3 DEF SwitchThread
    <2>2. R \in Seq(Thread) /\ NoDuplicates(R) /\ c \in Thread \cup {NIL}
      BY DEF TypeOK, QueueInv, Placed
    <2>3. /\ OnQueue(Tail(R)) = OnQueue(R) \ {Head(R)}
          /\ NoDuplicates(Tail(R)) /\ Tail(R) \in Seq(Thread)
      BY <1>3, <2>2, TailQueue
    <2>4. Head(R) \in OnQueue(R) /\ Head(R) \in Thread
      BY <1>3, <2>2, QueueMember
    <2>5. c \notin OnQueue(R)
      <3>1. c \in Thread => c \notin OnQueue(R)
        BY DEF QueueInv, Placed
      <3>2. OnQueue(R) \subseteq Thread
        BY <2>2, QueueMember
      <3>. QED
        BY <2>2, <3>1, <3>2, ThreadsAreNotNil
    <2>6. PICK h : h = Head(R)
      OBVIOUS
    <2>. HIDE DEF c
    <2>7. /\ OnQueue(RunnableThreads') = (OnQueue(R) \ {h}) \cup ({c} \ {NIL})
          /\ NoDuplicates(RunnableThreads')
      <3>1. CASE c = NIL
        BY <2>1, <2>3, <2>6, <3>1
      <3>2. CASE c # NIL
        <4>1. c \in Thread /\ c \notin OnQueue(Tail(R))
          BY <2>2, <2>3, <2>5, <3>2
        <4>2. \A q \in Seq(Thread) : c \notin OnQueue(q) /\ NoDuplicates(q) =>
                /\ OnQueue(AddThreadToQueue(q, c)) = OnQueue(q) \cup {c}
                /\ NoDuplicates(AddThreadToQueue(q, c))
          BY <4>1, AddedQueue
        <4>3. /\ OnQueue(AddThreadToQueue(Tail(R), c)) = OnQueue(Tail(R)) \cup {c}
              /\ NoDuplicates(AddThreadToQueue(Tail(R), c))
          BY <2>3, <4>1, <4>2
        <4>. QED
          BY <2>1, <2>3, <2>6, <3>2, <4>3
      <3>. QED
        BY <3>1, <3>2
    <2>8. /\ CurrentThread' = h /\ h \in OnQueue(R) /\ h \in Thread /\ h # c
          /\ \A t \in Thread : pendingException'[t] => pendingException[t] /\ t # h
      <3>1. h # c
        BY <2>4, <2>5, <2>6
      <3>2. \A t \in Thread : pendingException'[t] => pendingException[t] /\ t # h
        BY <2>1, <2>6 DEF TypeOK
      <3>. QED
        BY <2>1, <2>4, <2>6, <3>1, <3>2
    <2>. HIDE DEF R
    <2>9. \A t \in Thread :
            /\ t = c \/ t \in OnQueue(R) <=> t = h \/ t \in OnQueue(RunnableThreads')
            /\ t = h => t \notin OnQueue(RunnableThreads')
      BY <2>7, <2>8, ThreadsAreNotNil
    <2>10. Placed(h, RunnableThreads', state, monitor, monitors)
      BY <2>7, <2>9 DEF QueueInv, Placed, c, R
    <2>11. InterruptsFit(h, RunnableThreads', state, pendingException')
      BY <2>7, <2>8 DEF QueueInv, InterruptsFit, R
    <2>12. Attached(monitors', mhc')
      BY <1>1, AttachedKept DEF QueueInv
    <2>. QED
      BY <1>1, <2>8, <2>10, <2>11, <2>12 DEF QueueInv
  <1>. QED
    BY <1>2, <1>3 DEF SwitchThread

-----------------------------------------------------------------------------
(***************************************************************************)
(* QueueInv is inductive as long as nobody interrupts a thread whose       *)
(* wait() has ended, and the three invariants follow from it.              *)
(***************************************************************************)
LEMMA QueueInvStep ==
    ASSUME TypeOK, LockInv, QueueInv, ~RepeatInterrupt, [Next]_vars
    PROVE  QueueInv'
  <1>1. CASE UNCHANGED vars
    <2>1. UNCHANGED placeVars /\ UNCHANGED <<monitors, mhc>>
      BY <1>1 DEF vars, schedVars, waitVars, alarmVars, intrVars, lockVars, placeVars
    <2>. QED
      BY <2>1, QueueInvSame
  <1>2. ASSUME NEW t \in Thread, NEW o \in Object, MonitorEnter(t, o)
        PROVE  QueueInv'
    BY <1>2, QueueEnter
  <1>3. ASSUME NEW t \in Thread, NEW o \in Object, MonitorExit(t, o)
        PROVE  QueueInv'
    BY <1>3, QueueExit
  <1>4. ASSUME NEW t \in Thread, NEW o \in Object, MonitorWaitThrows(t, o)
        PROVE  QueueInv'
    BY <1>4, QueueWaitThrows
  <1>5. ASSUME NEW t \in Thread, NEW o \in Object, NEW delta \in 0..MaxDelta,
               MonitorWait(t, o, delta)
        PROVE  QueueInv'
    BY <1>5, QueueWait
  <1>6. ASSUME NEW t \in Thread, NEW o \in Object, NEW notifyAll \in BOOLEAN,
               MonitorNotify(t, o, notifyAll)
        PROVE  QueueInv'
    BY <1>6, QueueNotify
  <1>7. ASSUME NEW t \in Thread, NEW o \in Object, ObjectHashCode(t, o)
        PROVE  QueueInv'
    BY <1>7, QueueHashCode
  <1>8. ASSUME NEW t \in Thread, NEW delta \in 1..MaxDelta, Sleep(t, delta)
        PROVE  QueueInv'
    BY <1>8, QueueSleep
  <1>9. ASSUME NEW t \in Thread, SleepThrows(t) \/ Yield(t)
        PROVE  QueueInv'
    <2>1. UNCHANGED placeVars /\ UNCHANGED <<monitors, mhc>>
      BY <1>9 DEF SleepThrows, Yield, schedVars, waitVars, alarmVars, intrVars, lockVars,
                  placeVars
    <2>. QED
      BY <2>1, QueueInvSame
  <1>10. ASSUME NEW t \in Thread, NEW u \in Thread, Start(t, u)
         PROVE  QueueInv'
    BY <1>10, QueueStartThread
  <1>11. ASSUME NEW t \in Thread, NEW u \in Interruptible, Interrupt(t, u)
         PROVE  QueueInv'
    <2>1. u \in Thread
      BY ConstantsAssumption DEF ConstantsAssumption
    <2>. QED
      BY <1>11, <2>1, QueueInterrupt
  <1>12. ASSUME NEW t \in Thread, Stop(t)
         PROVE  QueueInv'
    BY <1>12, QueueStop
  <1>13. ASSUME NEW t \in Thread, GarbageCollect(t)
         PROVE  QueueInv'
    <2>1. UNCHANGED placeVars /\ UNCHANGED <<monitors, mhc>>
      BY <1>13 DEF GarbageCollect, schedVars, waitVars, alarmVars, intrVars, placeVars
    <2>. QED
      BY <2>1, QueueInvSame
  <1>14. ASSUME NEW t \in Thread, FireAlarm(t)
         PROVE  QueueInv'
    BY <1>14, QueueFireAlarm
  <1>15. CASE Tick
    <2>1. UNCHANGED placeVars /\ UNCHANGED <<monitors, mhc>>
      BY <1>15 DEF Tick, schedVars, waitVars, intrVars, lockVars, placeVars
    <2>. QED
      BY <2>1, QueueInvSame
  <1>16. CASE SwitchThread
    BY <1>16, QueueSwitch
  <1>. QED
    BY <1>1, <1>2, <1>3, <1>4, <1>5, <1>6, <1>7, <1>8, <1>9, <1>10, <1>11, <1>12, <1>13,
       <1>14, <1>15, <1>16 DEF Next

LEMMA QueueInvPlaces ==
    ASSUME QueueInv
    PROVE  InOnePlace
  <1>1. ASSUME NEW t \in Thread
        PROVE  /\ Ready(state[t]) <=> state[t] = {"ACTIVE"}
               /\ Asleep(state[t]) <=> state[t] = {"ACTIVE", "SUSPENDED"}
               /\ InLine(state[t]) <=> "MONITOR_WAIT" \in state[t]
               /\ InWait(state[t]) <=> "CONVAR_WAIT" \in state[t]
                                       /\ "MONITOR_WAIT" \notin state[t]
    BY DEF Ready, Asleep, InLine, InWait
  <1>2. ASSUME NEW t \in Thread
        PROVE  /\ state[t] = {"ACTIVE"} <=> t = CurrentThread \/ t \in OnQueue(RunnableThreads)
               /\ t = CurrentThread => t \notin OnQueue(RunnableThreads)
               /\ state[t] = {"ACTIVE", "SUSPENDED"} => wakeupCall[t] = "resumeThread"
    BY <1>1 DEF QueueInv, Placed, AlarmsFit
  <1>3. ASSUME NEW t \in Thread
        PROVE  "MONITOR_WAIT" \in state[t] \/ "CONVAR_WAIT" \in state[t] <=> monitor[t] # NIL
    BY <1>1 DEF QueueInv, Placed
  <1>4. ASSUME NEW t \in Thread, NEW m \in Monitor
        PROVE  /\ t \in OnQueue(monitors[m].monitor_waitq) <=>
                    "MONITOR_WAIT" \in state[t] /\ monitor[t] = m
               /\ t \in OnQueue(monitors[m].condvar_waitq) <=>
                    "CONVAR_WAIT" \in state[t] /\ "MONITOR_WAIT" \notin state[t]
                    /\ monitor[t] = m
    BY <1>1 DEF QueueInv, Placed
  <1>. QED
    BY <1>2, <1>3, <1>4 DEF QueueInv, Placed, InOnePlace

LEMMA QueueInvNoFatalError ==
    ASSUME TypeOK, QueueInv
    PROVE  NoFatalError
  <1>1. CurrentThread # NIL => /\ ~pendingException[CurrentThread]
                               /\ state[CurrentThread] = {"ACTIVE"}
    BY CurrentIsReady DEF TypeOK, Ready
  <1>2. ASSUME NEW t \in Thread, InLine(state[t]) \/ InWait(state[t]) \/ Asleep(state[t])
        PROVE  CanResume(state, t)
    BY <1>2, FlagSetsApart DEF QueueInv, Placed, CanResume
  <1>3. ASSUME NEW m \in Monitor, NEW t \in OnQueue(monitors[m].monitor_waitq)
        PROVE  CanResume(state, t)
    <2>1. t \in Thread
      BY QueueMember DEF TypeOK, MonitorStruct
    <2>. QED
      BY <1>2, <1>3, <2>1 DEF QueueInv, Placed
  <1>4. ASSUME NEW t \in Thread
        PROVE  /\ wakeupCall[t] = "resumeThread" => CanResume(state, t)
               /\ wakeupCall[t] = "monitorWaitAlarm" =>
                    /\ monitor[t] # NIL
                    /\ t \in OnQueue(monitors[monitor[t]].condvar_waitq)
    <2>1. wakeupCall[t] = "resumeThread" => CanResume(state, t)
      BY <1>2 DEF QueueInv, AlarmsFit
    <2>2. wakeupCall[t] = "monitorWaitAlarm" => InWait(state[t])
      BY DEF QueueInv, AlarmsFit
    <2>3. InWait(state[t]) => /\ monitor[t] # NIL
                              /\ t \in OnQueue(monitors[monitor[t]].condvar_waitq)
      BY OneLeaves, ConstantsAssumption DEF ConstantsAssumption
    <2>. QED
      BY <2>1, <2>2, <2>3
  <1>. QED
    BY <1>1, <1>3, <1>4 DEF NoFatalError

LEMMA QueueInvInterrupts ==
    ASSUME TypeOK, QueueInv
    PROVE  InterruptedComesBack
  <1>. SUFFICES ASSUME NEW t \in Thread, pendingException[t]
                PROVE  /\ wakeupCall[t] = NIL
                       /\ \/ t \in OnQueue(RunnableThreads)
                          \/ \E m \in Monitor : t \in OnQueue(monitors[m].monitor_waitq)
    BY DEF InterruptedComesBack
  <1>1. t \in OnQueue(RunnableThreads) \/ InLine(state[t])
    BY DEF QueueInv, InterruptsFit
  <1>2. state[t] \in FlagSets /\ (t \in OnQueue(RunnableThreads) => Ready(state[t]))
    BY DEF QueueInv, Placed
  <1>3. ~Asleep(state[t]) /\ ~InWait(state[t])
    BY <1>1, <1>2, FlagSetsApart DEF InLine, InWait
  <1>4. wakeupCall[t] = NIL
    BY <1>3 DEF QueueInv, AlarmsFit, TypeOK, WakeupCall
  <1>5. InLine(state[t]) => \E m \in Monitor : t \in OnQueue(monitors[m].monitor_waitq)
    BY DEF QueueInv, Placed, TypeOK
  <1>. QED
    BY <1>1, <1>4, <1>5

\* Unless the program interrupts a thread whose wait() has ended, every thread
\* is always in exactly one place, the one its flags name, through all the
\* hand-overs of monitors, notifications, timeouts, interrupts and switches.
THEOREM ThreadsInOnePlace == ~RepeatInterrupt => (Spec => []InOnePlace)
  <1>. SUFFICES ASSUME ~RepeatInterrupt PROVE Spec => []InOnePlace
    OBVIOUS
  <1>1. Init => TypeOK /\ LockInv /\ QueueInv
    BY TypeInit, LockInvInit, QueueInvInit
  <1>2. TypeOK /\ LockInv /\ QueueInv /\ [Next]_vars => (TypeOK /\ LockInv /\ QueueInv)'
    BY TypeStep, LockInvStep, QueueInvStep
  <1>3. QueueInv => InOnePlace
    BY QueueInvPlaces
  <1>. QED
    BY <1>1, <1>2, <1>3, PTL DEF Spec

\* Under the same condition none of the fatalError() calls of resumeThread(),
\* monitorWaitAlarm() and SwitchThread() is ever reached.
THEOREM SchedulerNeverFatal == ~RepeatInterrupt => (Spec => []NoFatalError)
  <1>. SUFFICES ASSUME ~RepeatInterrupt PROVE Spec => []NoFatalError
    OBVIOUS
  <1>1. Init => TypeOK /\ LockInv /\ QueueInv
    BY TypeInit, LockInvInit, QueueInvInit
  <1>2. TypeOK /\ LockInv /\ QueueInv /\ [Next]_vars => (TypeOK /\ LockInv /\ QueueInv)'
    BY TypeStep, LockInvStep, QueueInvStep
  <1>3. TypeOK /\ QueueInv => NoFatalError
    BY QueueInvNoFatalError
  <1>. QED
    BY <1>1, <1>2, <1>3, PTL DEF Spec

\* Under the same condition a thread with an InterruptedException to throw can
\* run or is in line for its lock, and no alarm is left over from its wait.
THEOREM InterruptedThreadsComeBack == ~RepeatInterrupt => (Spec => []InterruptedComesBack)
  <1>. SUFFICES ASSUME ~RepeatInterrupt PROVE Spec => []InterruptedComesBack
    OBVIOUS
  <1>1. Init => TypeOK /\ LockInv /\ QueueInv
    BY TypeInit, LockInvInit, QueueInvInit
  <1>2. TypeOK /\ LockInv /\ QueueInv /\ [Next]_vars => (TypeOK /\ LockInv /\ QueueInv)'
    BY TypeStep, LockInvStep, QueueInvStep
  <1>3. TypeOK /\ QueueInv => InterruptedComesBack
    BY QueueInvInterrupts
  <1>. QED
    BY <1>1, <1>2, <1>3, PTL DEF Spec

-----------------------------------------------------------------------------
(***************************************************************************)
(* KvmThreads implements JavaMonitors: whatever form its lock has, and     *)
(* however often the form changes, every object behaves as one fair,       *)
(* re-entrant Java monitor with one identity hash, as long as the program  *)
(* does not interrupt a thread whose wait() has ended (RepeatInterrupt)    *)
(* and nests no lock deeper than a short counts.                           *)
(***************************************************************************)

-----------------------------------------------------------------------------
(***************************************************************************)
(* The lock of an object, whatever its form, is the MONITOR that           *)
(* upgradeToRealMonitor() would make of it, Upgraded(o).                   *)
(***************************************************************************)
LEMMA LockFields ==
    ASSUME TypeOK, NEW o \in Object
    PROVE  /\ Upgraded(o) \in MonitorStruct
           /\ Upgraded(o).owner = Owner(o)
           /\ Upgraded(o).depth = Depth(o)
           /\ Upgraded(o).hashCode = HashOf(o)
           /\ Upgraded(o).monitor_waitq = QueueOf(o, "monitor_waitq")
           /\ Upgraded(o).condvar_waitq = QueueOf(o, "condvar_waitq")
  <1>1. Upgraded(o) \in MonitorStruct
    BY UpgradedType
  <1>2. CASE HasMonitor(o)
    BY <1>1, <1>2, MhcValues DEF Upgraded, HasMonitor, QueueOf, Owner, Depth, HashOf
  <1>3. CASE ~HasMonitor(o)
    BY <1>1, <1>3 DEF Upgraded, HasMonitor, QueueOf, NewMonitor
  <1>. QED
    BY <1>1, <1>2, <1>3

\* The fields of a lock that is no MONITOR.
FastLock(t, d, h) == [owner |-> t, depth |-> d, hashCode |-> h,
                      monitor_waitq |-> << >>, condvar_waitq |-> << >>]

\* What the lock is under each form of the word, in a state and in the next one.
LEMMA LockOfForm ==
    ASSUME NEW o \in Object
    PROVE  /\ \A h : mhc[o] = Unlocked(h) => Upgraded(o) = FastLock(NIL, 0, h)
           /\ \A t : mhc[o] = SimpleLock(t) => Upgraded(o) = FastLock(t, 1, 0)
           /\ \A t : mhc[o] = ExtendedLock(t) =>
                Upgraded(o) = FastLock(t, extendedLock[t].depth, extendedLock[t].hashCode)
           /\ \A m : mhc[o] = RealMonitor(m) => Upgraded(o) = monitors[m]
  <1>1. mhc[o].tag # "MHC_MONITOR" => Upgraded(o) = FastLock(Owner(o), Depth(o), HashOf(o))
    BY DEF Upgraded, HasMonitor, NewMonitor, FastLock
  <1>2. ASSUME NEW h, mhc[o] = Unlocked(h)
        PROVE  mhc[o].tag # "MHC_MONITOR" /\ Owner(o) = NIL /\ Depth(o) = 0 /\ HashOf(o) = h
    BY <1>2 DEF Owner, Depth, HashOf, Unlocked
  <1>3. ASSUME NEW t, mhc[o] = SimpleLock(t)
        PROVE  mhc[o].tag # "MHC_MONITOR" /\ Owner(o) = t /\ Depth(o) = 1 /\ HashOf(o) = 0
    BY <1>3 DEF Owner, Depth, HashOf, SimpleLock
  <1>4. ASSUME NEW t, mhc[o] = ExtendedLock(t)
        PROVE  /\ mhc[o].tag # "MHC_MONITOR" /\ Owner(o) = t
               /\ Depth(o) = extendedLock[t].depth /\ HashOf(o) = extendedLock[t].hashCode
    BY <1>4 DEF Owner, Depth, HashOf, ExtendedLock
  <1>5. ASSUME NEW m, mhc[o] = RealMonitor(m)
        PROVE  Upgraded(o) = monitors[m]
    BY <1>5 DEF Upgraded, HasMonitor, RealMonitor
  <1>. QED
    BY <1>1, <1>2, <1>3, <1>4, <1>5

LEMMA LockOfFormNext ==
    ASSUME NEW o \in Object
    PROVE  /\ \A h : mhc'[o] = Unlocked(h) => Upgraded(o)' = FastLock(NIL, 0, h)
           /\ \A t : mhc'[o] = SimpleLock(t) => Upgraded(o)' = FastLock(t, 1, 0)
           /\ \A t : mhc'[o] = ExtendedLock(t) =>
                Upgraded(o)' = FastLock(t, extendedLock'[t].depth, extendedLock'[t].hashCode)
           /\ \A m : mhc'[o] = RealMonitor(m) => Upgraded(o)' = monitors'[m]
  <1>1. mhc'[o].tag # "MHC_MONITOR" => Upgraded(o)' = FastLock(Owner(o)', Depth(o)', HashOf(o)')
    BY DEF Upgraded, HasMonitor, NewMonitor, FastLock
  <1>2. ASSUME NEW h, mhc'[o] = Unlocked(h)
        PROVE  mhc'[o].tag # "MHC_MONITOR" /\ Owner(o)' = NIL /\ Depth(o)' = 0 /\ HashOf(o)' = h
    BY <1>2 DEF Owner, Depth, HashOf, Unlocked
  <1>3. ASSUME NEW t, mhc'[o] = SimpleLock(t)
        PROVE  mhc'[o].tag # "MHC_MONITOR" /\ Owner(o)' = t /\ Depth(o)' = 1 /\ HashOf(o)' = 0
    BY <1>3 DEF Owner, Depth, HashOf, SimpleLock
  <1>4. ASSUME NEW t, mhc'[o] = ExtendedLock(t)
        PROVE  /\ mhc'[o].tag # "MHC_MONITOR" /\ Owner(o)' = t
               /\ Depth(o)' = extendedLock'[t].depth /\ HashOf(o)' = extendedLock'[t].hashCode
    BY <1>4 DEF Owner, Depth, HashOf, ExtendedLock
  <1>5. ASSUME NEW m, mhc'[o] = RealMonitor(m)
        PROVE  Upgraded(o)' = monitors'[m]
    BY <1>5 DEF Upgraded, HasMonitor, RealMonitor
  <1>. QED
    BY <1>1, <1>2, <1>3, <1>4, <1>5

\* A word has one of the four forms.
LEMMA WordForms ==
    ASSUME TypeOK, NEW o \in Object
    PROVE  \/ \E h \in Hash : mhc[o] = Unlocked(h)
           \/ \E t \in Thread : mhc[o] = SimpleLock(t)
           \/ \E t \in Thread : mhc[o] = ExtendedLock(t)
           \/ \E m \in Monitor : mhc[o] = RealMonitor(m)
  BY MhcValues DEF Unlocked, SimpleLock, ExtendedLock, RealMonitor

\* An object whose word stays, and whose record stays, keeps its lock.
LEMMA LockStays ==
    ASSUME TypeOK, NEW o \in Object, mhc'[o] = mhc[o],
           \A t \in Thread : mhc[o] = ExtendedLock(t) => extendedLock'[t] = extendedLock[t],
           \A m \in Monitor : mhc[o] = RealMonitor(m) => monitors'[m] = monitors[m]
    PROVE  Upgraded(o)' = Upgraded(o)
  <1>1. CASE \E h \in Hash : mhc[o] = Unlocked(h)
    BY <1>1, LockOfForm, LockOfFormNext
  <1>2. CASE \E t \in Thread : mhc[o] = SimpleLock(t)
    BY <1>2, LockOfForm, LockOfFormNext
  <1>3. CASE \E t \in Thread : mhc[o] = ExtendedLock(t)
    BY <1>3, LockOfForm, LockOfFormNext
  <1>4. CASE \E m \in Monitor : mhc[o] = RealMonitor(m)
    BY <1>4, LockOfForm, LockOfFormNext
  <1>. QED
    BY <1>1, <1>2, <1>3, <1>4, WordForms

\* The step changes the lock of o to r, and no other lock.
LockStep(o, r) ==
    /\ Upgraded(o)' = r
    /\ \A p \in Object : p # o => Upgraded(p)' = Upgraded(p)

LEMMA UpgradeStep ==
    ASSUME TypeOK, LockInv, NEW o \in Object, NEW m \in Monitor, NEW r,
           UpgradeToRealMonitor(o, m, r)
    PROVE  LockStep(o, r)
  <1>1. /\ mhc' = [mhc EXCEPT ![o] = RealMonitor(m)]
        /\ monitors' = [monitors EXCEPT ![m] = r]
        /\ IsMonitorFor(o, m)
    BY DEF UpgradeToRealMonitor
  <1>2. \A p \in Object : p # o => mhc[p] # RealMonitor(m)
    BY <1>1, UpgradeIsExclusive
  <1>3. ASSUME NEW p \in Object, p # o PROVE Upgraded(p)' = Upgraded(p)
    <2>1. mhc'[p] = mhc[p]
      BY <1>1, <1>3 DEF TypeOK
    <2>2. ASSUME NEW n \in Monitor, mhc[p] = RealMonitor(n)
          PROVE  monitors'[n] = monitors[n]
      BY <1>1, <1>2, <1>3, <2>2 DEF TypeOK
    <2>3. ASSUME NEW u \in Thread, mhc[p] = ExtendedLock(u)
          PROVE  extendedLock'[u] = extendedLock[u]
      <3>1. mhc[o].tag = "MHC_EXTENDED_LOCK" => mhc[o] # ExtendedLock(u)
        BY <1>3, <2>3 DEF LockInv, ExtendedLocksUnshared
      <3>2. mhc[o].tag = "MHC_EXTENDED_LOCK" => mhc[o].val # u
        BY <3>1, MhcValues DEF ExtendedLock
      <3>. QED
        BY <3>2 DEF UpgradeToRealMonitor, TypeOK
    <2>. QED
      BY <2>1, <2>2, <2>3, LockStays
  <1>4. Upgraded(o)' = r
    BY <1>1, LockOfFormNext DEF TypeOK
  <1>. QED
    BY <1>3, <1>4 DEF LockStep

\* A step that changes the fields of the MONITOR of o.
LEMMA MonitorFieldsStep ==
    ASSUME TypeOK, LockInv, NEW o \in Object, NEW m \in Monitor, NEW r,
           mhc[o] = RealMonitor(m), monitors' = [monitors EXCEPT ![m] = r],
           extendedLock' = extendedLock,
           \A p \in Object : p # o => mhc'[p] = mhc[p],
           \/ mhc'[o] = mhc[o]
           \/ r = FastLock(NIL, 0, r.hashCode)
              /\ mhc'[o] = Unlocked(r.hashCode)
    PROVE  LockStep(o, r)
  <1>1. ASSUME NEW p \in Object, p # o PROVE Upgraded(p)' = Upgraded(p)
    <2>1. mhc[p] # RealMonitor(m)
      BY <1>1 DEF LockInv, MonitorsUnshared, HasMonitor, RealMonitor
    <2>2. ASSUME NEW n \in Monitor, mhc[p] = RealMonitor(n)
          PROVE  monitors'[n] = monitors[n]
      BY <2>1, <2>2 DEF TypeOK
    <2>. QED
      BY <1>1, <2>2, LockStays
  <1>2. Upgraded(o)' = r
    <2>1. monitors'[m] = r
      BY DEF TypeOK
    <2>2. CASE mhc'[o] = mhc[o]
      BY <2>1, <2>2, LockOfFormNext
    <2>3. CASE r = FastLock(NIL, 0, r.hashCode) /\ mhc'[o] = Unlocked(r.hashCode)
      BY <2>3, LockOfFormNext
    <2>. QED
      BY <2>2, <2>3
  <1>. QED
    BY <1>1, <1>2 DEF LockStep

\* Nothing happens to any lock.
LEMMA LocksStay ==
    ASSUME TypeOK, UNCHANGED <<mhc, monitors, extendedLock>>
    PROVE  \A o \in Object : Upgraded(o)' = Upgraded(o)
  BY DEF Upgraded, HasMonitor, Owner, Depth, HashOf

-----------------------------------------------------------------------------
(***************************************************************************)
(* What the fast locks do to the lock of an object.                        *)
(***************************************************************************)
Relocked(r, t, d) ==
    [owner |-> t, depth |-> d, hashCode |-> r.hashCode,
     monitor_waitq |-> r.monitor_waitq, condvar_waitq |-> r.condvar_waitq]
Hashed(r, h) ==
    [owner |-> r.owner, depth |-> r.depth, hashCode |-> h,
     monitor_waitq |-> r.monitor_waitq, condvar_waitq |-> r.condvar_waitq]

LEMMA MonitorUpdates ==
    ASSUME NEW r \in MonitorStruct
    PROVE  /\ \A t \in Thread \cup {NIL}, d \in Int :
                [r EXCEPT !.owner = t, !.depth = d] = Relocked(r, t, d)
           /\ \A d \in Int : [r EXCEPT !.depth = d] = Relocked(r, r.owner, d)
           /\ \A h \in Hash : [r EXCEPT !.hashCode = h] = Hashed(r, h)
  <1>1. ASSUME NEW t \in Thread \cup {NIL}, NEW d \in Int
        PROVE  [r EXCEPT !.owner = t, !.depth = d] = Relocked(r, t, d)
    <2>. DEFINE e == [r EXCEPT !.owner = t, !.depth = d]
    <2>1. /\ e.owner = t /\ e.depth = d /\ e.hashCode = r.hashCode
          /\ e.monitor_waitq = r.monitor_waitq /\ e.condvar_waitq = r.condvar_waitq
      BY DEF MonitorStruct
    <2>2. e \in MonitorStruct
      BY DEF MonitorStruct
    <2>. HIDE DEF e
    <2>3. e = [owner |-> e.owner, depth |-> e.depth, hashCode |-> e.hashCode,
               monitor_waitq |-> e.monitor_waitq, condvar_waitq |-> e.condvar_waitq]
      BY <2>2 DEF MonitorStruct
    <2>. QED
      BY <2>1, <2>3 DEF Relocked, e
  <1>2. ASSUME NEW d \in Int
        PROVE  [r EXCEPT !.depth = d] = Relocked(r, r.owner, d)
    BY DEF MonitorStruct, Relocked
  <1>3. ASSUME NEW h \in Hash
        PROVE  [r EXCEPT !.hashCode = h] = Hashed(r, h)
    BY DEF MonitorStruct, Hashed
  <1>. QED
    BY <1>1, <1>2, <1>3

LEMMA FastLockFields ==
    ASSUME NEW t, NEW d, NEW h
    PROVE  /\ FastLock(t, d, h).owner = t
           /\ FastLock(t, d, h).depth = d
           /\ FastLock(t, d, h).hashCode = h
           /\ FastLock(t, d, h).monitor_waitq = << >>
           /\ FastLock(t, d, h).condvar_waitq = << >>
           /\ \A u, e : Relocked(FastLock(t, d, h), u, e) = FastLock(u, e, h)
           /\ \A g : Hashed(FastLock(t, d, h), g) = FastLock(t, d, g)
  <1>1. \A u, e : Relocked(FastLock(t, d, h), u, e) = FastLock(u, e, h)
    BY DEF FastLock, Relocked
  <1>2. \A g : Hashed(FastLock(t, d, h), g) = FastLock(t, d, g)
    BY DEF FastLock, Hashed
  <1>3. /\ FastLock(t, d, h).owner = t
        /\ FastLock(t, d, h).depth = d
        /\ FastLock(t, d, h).hashCode = h
        /\ FastLock(t, d, h).monitor_waitq = << >>
        /\ FastLock(t, d, h).condvar_waitq = << >>
    BY DEF FastLock
  <1>. QED
    BY <1>1, <1>2, <1>3

\* An operation on the word of o and the record of t changes no other lock.
LEMMA OtherLocksStay ==
    ASSUME TypeOK, LockInv, NEW o \in Object, NEW t \in Thread, UNCHANGED monitors,
           \A p \in Object : p # o => mhc'[p] = mhc[p],
           \A u \in Thread : u # t => extendedLock'[u] = extendedLock[u],
           extendedLock' = extendedLock \/ mhc[o] = ExtendedLock(t) \/ ExtendedLockFree(t)
    PROVE  \A p \in Object : p # o => Upgraded(p)' = Upgraded(p)
  <1>. SUFFICES ASSUME NEW p \in Object, p # o PROVE Upgraded(p)' = Upgraded(p)
    OBVIOUS
  <1>1. mhc[o] = ExtendedLock(t) \/ ExtendedLockFree(t) => mhc[p] # ExtendedLock(t)
    BY DEF LockInv, ExtendedLocksUnshared, ExtendedLock
  <1>2. ASSUME NEW u \in Thread, mhc[p] = ExtendedLock(u)
        PROVE  extendedLock'[u] = extendedLock[u]
    BY <1>1, <1>2
  <1>. QED
    BY <1>2, LockStays

LEMMA EnterFastStep ==
    ASSUME TypeOK, LockInv, NEW t \in Thread, NEW o \in Object, FastEnter(t, o),
           UNCHANGED monitors
    PROVE  /\ LockStep(o, Relocked(Upgraded(o), t, Upgraded(o).depth + 1))
           /\ \/ Upgraded(o).owner = t
              \/ Upgraded(o).owner = NIL /\ Upgraded(o).monitor_waitq = << >>
  <1>0. /\ mhc \in [Object -> MhcWord]
        /\ extendedLock \in [Thread -> [depth : Int, hashCode : Hash]]
    BY DEF TypeOK
  <1>. DEFINE r == Upgraded(o)
  <1>1. CASE mhc[o] = Unlocked(0) /\ mhc' = [mhc EXCEPT ![o] = SimpleLock(t)]
             /\ UNCHANGED extendedLock
    <2>1. mhc'[o] = SimpleLock(t) /\ \A p \in Object : p # o => mhc'[p] = mhc[p]
      BY <1>0, <1>1
    <2>2. r = FastLock(NIL, 0, 0) /\ Upgraded(o)' = FastLock(t, 1, 0)
      BY <1>1, <2>1, LockOfForm, LockOfFormNext
    <2>. QED
      BY <1>1, <2>1, <2>2, FastLockFields, OtherLocksStay DEF LockStep
  <1>2. CASE /\ mhc[o].tag = "MHC_UNLOCKED" /\ ExtendedLockFree(t)
             /\ mhc' = [mhc EXCEPT ![o] = ExtendedLock(t)]
             /\ extendedLock' = [extendedLock EXCEPT
                                   ![t] = [depth |-> 1, hashCode |-> mhc[o].val]]
    <2>. DEFINE h == mhc[o].val
    <2>1. /\ mhc[o] = Unlocked(h) /\ mhc'[o] = ExtendedLock(t)
          /\ \A p \in Object : p # o => mhc'[p] = mhc[p]
          /\ extendedLock'[t].depth = 1 /\ extendedLock'[t].hashCode = h
          /\ \A u \in Thread : u # t => extendedLock'[u] = extendedLock[u]
      BY <1>0, <1>2, MhcValues DEF Unlocked
    <2>. HIDE DEF h
    <2>2. r = FastLock(NIL, 0, h) /\ Upgraded(o)' = FastLock(t, 1, h)
      BY <2>1, LockOfForm, LockOfFormNext
    <2>. QED
      BY <1>2, <2>1, <2>2, FastLockFields, OtherLocksStay DEF LockStep
  <1>3. CASE /\ mhc[o] = SimpleLock(t) /\ ExtendedLockFree(t)
             /\ mhc' = [mhc EXCEPT ![o] = ExtendedLock(t)]
             /\ extendedLock' = [extendedLock EXCEPT ![t] = [depth |-> 2, hashCode |-> 0]]
    <2>1. /\ mhc'[o] = ExtendedLock(t)
          /\ \A p \in Object : p # o => mhc'[p] = mhc[p]
          /\ extendedLock'[t].depth = 2 /\ extendedLock'[t].hashCode = 0
          /\ \A u \in Thread : u # t => extendedLock'[u] = extendedLock[u]
      BY <1>0, <1>3
    <2>2. r = FastLock(t, 1, 0) /\ Upgraded(o)' = FastLock(t, 2, 0)
      BY <1>3, <2>1, LockOfForm, LockOfFormNext
    <2>. QED
      BY <1>3, <2>1, <2>2, FastLockFields, OtherLocksStay DEF LockStep
  <1>4. CASE /\ mhc[o] = ExtendedLock(t) /\ UNCHANGED mhc
             /\ extendedLock' = [extendedLock EXCEPT ![t].depth = @ + 1]
    <2>. DEFINE d == extendedLock[t].depth
                h == extendedLock[t].hashCode
    <2>1. /\ mhc'[o] = ExtendedLock(t)
          /\ \A p \in Object : p # o => mhc'[p] = mhc[p]
          /\ extendedLock'[t].depth = d + 1 /\ extendedLock'[t].hashCode = h
          /\ \A u \in Thread : u # t => extendedLock'[u] = extendedLock[u]
      BY <1>0, <1>4
    <2>. HIDE DEF d, h
    <2>2. r = FastLock(t, d, h) /\ Upgraded(o)' = FastLock(t, d + 1, h)
      BY <1>4, <2>1, LockOfForm, LockOfFormNext DEF d, h
    <2>. QED
      BY <1>4, <2>1, <2>2, FastLockFields, OtherLocksStay DEF LockStep
  <1>. QED
    BY <1>1, <1>2, <1>3, <1>4 DEF FastEnter

LEMMA ExitFastStep ==
    ASSUME TypeOK, LockInv, NEW t \in Thread, NEW o \in Object, FastExit(t, o),
           UNCHANGED monitors
    PROVE  /\ Upgraded(o).owner = t /\ Upgraded(o).monitor_waitq = << >>
           /\ LockStep(o, IF Upgraded(o).depth = 1 THEN Relocked(Upgraded(o), NIL, 0)
                          ELSE Relocked(Upgraded(o), t, Upgraded(o).depth - 1))
  <1>0. /\ mhc \in [Object -> MhcWord]
        /\ extendedLock \in [Thread -> [depth : Int, hashCode : Hash]]
    BY DEF TypeOK
  <1>1. CASE /\ mhc[o] = SimpleLock(t) /\ mhc' = [mhc EXCEPT ![o] = Unlocked(0)]
             /\ UNCHANGED extendedLock
    <2>1. mhc'[o] = Unlocked(0) /\ \A p \in Object : p # o => mhc'[p] = mhc[p]
      BY <1>0, <1>1
    <2>2. Upgraded(o) = FastLock(t, 1, 0) /\ Upgraded(o)' = FastLock(NIL, 0, 0)
      BY <1>1, <2>1, LockOfForm, LockOfFormNext
    <2>. QED
      BY <1>1, <2>1, <2>2, FastLockFields, OtherLocksStay DEF LockStep
  <1>2. CASE mhc[o] = ExtendedLock(t)
    <2>. DEFINE d == extendedLock[t].depth
                h == extendedLock[t].hashCode
    <2>0. mhc[o] # SimpleLock(t)
      BY <1>2, FormsDiffer
    <2>1. /\ mhc' = CASE d - 1 = 0              -> [mhc EXCEPT ![o] = Unlocked(h)]
                      [] d - 1 = 1 /\ h = 0     -> [mhc EXCEPT ![o] = SimpleLock(t)]
                      [] OTHER                  -> mhc
          /\ extendedLock' = [extendedLock EXCEPT
                                ![t].depth = IF d - 1 = 1 /\ h = 0 THEN 0 ELSE d - 1]
      BY <2>0 DEF FastExit
    <2>2. /\ extendedLock'[t].depth = (IF d - 1 = 1 /\ h = 0 THEN 0 ELSE d - 1)
          /\ extendedLock'[t].hashCode = h
          /\ \A u \in Thread : u # t => extendedLock'[u] = extendedLock[u]
          /\ d \in Int
      BY <1>0, <2>1
    <2>3. Upgraded(o) = FastLock(t, d, h)
      BY <1>2, LockOfForm
    <2>. HIDE DEF d, h
    <2>4. \A p \in Object : p # o => mhc'[p] = mhc[p]
      BY <1>0, <2>1
    <2>5. \A p \in Object : p # o => Upgraded(p)' = Upgraded(p)
      BY <1>2, <2>2, <2>4, OtherLocksStay
    <2>6. CASE d = 1
      <3>1. mhc'[o] = Unlocked(h)
        BY <1>0, <2>1, <2>6
      <3>2. Upgraded(o)' = FastLock(NIL, 0, h)
        BY <3>1, LockOfFormNext
      <3>. QED
        BY <2>3, <2>5, <2>6, <3>2, FastLockFields DEF LockStep
    <2>7. CASE d = 2 /\ h = 0
      <3>1. mhc'[o] = SimpleLock(t)
        BY <1>0, <2>1, <2>7
      <3>2. Upgraded(o)' = FastLock(t, 1, 0)
        BY <3>1, LockOfFormNext
      <3>. QED
        BY <2>3, <2>5, <2>7, <3>2, FastLockFields DEF LockStep
    <2>8. CASE d # 1 /\ ~(d = 2 /\ h = 0)
      <3>1. mhc'[o] = ExtendedLock(t) /\ extendedLock'[t].depth = d - 1
        BY <1>0, <1>2, <2>1, <2>2, <2>8
      <3>2. Upgraded(o)' = FastLock(t, d - 1, h)
        BY <2>2, <3>1, LockOfFormNext
      <3>. QED
        BY <2>3, <2>5, <2>8, <3>2, FastLockFields DEF LockStep
    <2>. QED
      BY <2>6, <2>7, <2>8
  <1>. QED
    BY <1>1, <1>2 DEF FastExit

\* objectHashCode() draws a hash where there is none, or changes no lock.
LEMMA HashInPlaceStep ==
    ASSUME TypeOK, LockInv, NEW t \in Thread, NEW o \in Object, HashCodeInPlace(t, o)
    PROVE  \/ LockStep(o, Upgraded(o))
           \/ Upgraded(o).hashCode = 0 /\ \E h \in HashCode : LockStep(o, Hashed(Upgraded(o), h))
  <1>0. /\ mhc \in [Object -> MhcWord]
        /\ extendedLock \in [Thread -> [depth : Int, hashCode : Hash]]
    BY DEF TypeOK
  <1>. DEFINE u == mhc[o].val
  <1>1. CASE HasMonitor(o)
    <2>1. UNCHANGED <<extendedLock, mhc, monitors>>
      BY <1>1 DEF HashCodeInPlace, HasMonitor
    <2>. QED
      BY <2>1, LocksStay DEF LockStep
  <1>2. CASE mhc[o].tag = "MHC_UNLOCKED"
    <2>1. PICK h \in Drawn(u) : mhc' = [mhc EXCEPT ![o] = Unlocked(h)]
      BY <1>2 DEF HashCodeInPlace, HasMonitor
    <2>2. UNCHANGED <<extendedLock, monitors>>
      BY <1>2 DEF HashCodeInPlace, HasMonitor
    <2>3. mhc[o] = Unlocked(u) /\ mhc'[o] = Unlocked(h)
      BY <1>0, <1>2, <2>1, MhcValues DEF Unlocked
    <2>4. \A p \in Object : p # o => Upgraded(p)' = Upgraded(p)
      BY <1>0, <2>1, <2>2, LockStays
    <2>5. Upgraded(o) = FastLock(NIL, 0, u) /\ Upgraded(o)' = FastLock(NIL, 0, h)
      BY <2>3, LockOfForm, LockOfFormNext
    <2>. HIDE DEF u
    <2>. QED
      BY <2>4, <2>5, FastLockFields DEF LockStep, Drawn
  <1>3. CASE mhc[o].tag = "MHC_SIMPLE_LOCK"
    <2>1. PICK h \in HashCode : extendedLock' =
            [extendedLock EXCEPT ![u] = [depth |-> 1, hashCode |-> h]]
      BY <1>3 DEF HashCodeInPlace, HasMonitor
    <2>2. /\ ExtendedLockFree(u) /\ mhc' = [mhc EXCEPT ![o] = ExtendedLock(u)]
          /\ UNCHANGED monitors
      BY <1>3 DEF HashCodeInPlace, HasMonitor
    <2>3. u \in Thread /\ mhc[o] = SimpleLock(u)
      BY <1>3, MhcValues DEF SimpleLock
    <2>. HIDE DEF u
    <2>4. /\ mhc'[o] = ExtendedLock(u)
          /\ \A p \in Object : p # o => mhc'[p] = mhc[p]
          /\ extendedLock'[u].depth = 1 /\ extendedLock'[u].hashCode = h
          /\ \A v \in Thread : v # u => extendedLock'[v] = extendedLock[v]
      BY <1>0, <2>1, <2>2, <2>3
    <2>5. \A p \in Object : p # o => Upgraded(p)' = Upgraded(p)
      BY <2>2, <2>3, <2>4, OtherLocksStay
    <2>6. Upgraded(o) = FastLock(u, 1, 0) /\ Upgraded(o)' = FastLock(u, 1, h)
      BY <2>3, <2>4, LockOfForm, LockOfFormNext
    <2>. QED
      BY <2>5, <2>6, FastLockFields DEF LockStep
  <1>4. CASE mhc[o].tag = "MHC_EXTENDED_LOCK"
    <2>1. PICK h \in Drawn(extendedLock[u].hashCode) :
            extendedLock' = [extendedLock EXCEPT ![u].hashCode = h]
      BY <1>4 DEF HashCodeInPlace, HasMonitor
    <2>2. UNCHANGED <<mhc, monitors>>
      BY <1>4 DEF HashCodeInPlace, HasMonitor
    <2>3. u \in Thread /\ mhc[o] = ExtendedLock(u)
      BY <1>4, MhcValues DEF ExtendedLock
    <2>. HIDE DEF u
    <2>4. /\ extendedLock'[u].depth = extendedLock[u].depth /\ extendedLock'[u].hashCode = h
          /\ \A v \in Thread : v # u => extendedLock'[v] = extendedLock[v]
      BY <1>0, <2>1, <2>3
    <2>5. \A p \in Object : p # o => Upgraded(p)' = Upgraded(p)
      BY <2>2, <2>3, <2>4, OtherLocksStay
    <2>6. /\ Upgraded(o) = FastLock(u, extendedLock[u].depth, extendedLock[u].hashCode)
          /\ Upgraded(o)' = FastLock(u, extendedLock[u].depth, h)
      BY <2>2, <2>3, <2>4, LockOfForm, LockOfFormNext
    <2>. QED
      BY <2>5, <2>6, FastLockFields DEF LockStep, Drawn
  <1>. QED
    BY <1>1, <1>2, <1>3, <1>4, MhcValues DEF HasMonitor

-----------------------------------------------------------------------------
(***************************************************************************)
(* The entry counts.  A lock nobody owns is entered zero times and has     *)
(* nobody in line; a thread that waits has saved how often it had entered. *)
(***************************************************************************)
Fits(r) ==
    IF r.owner = NIL THEN r.depth = 0 /\ r.monitor_waitq = << >>
                     ELSE r.depth \in 1..MaxDepth

Saved(st, md) ==
    \A t \in Thread : InLine(st[t]) \/ InWait(st[t]) => md[t] \in 1..MaxDepth

DepthInv ==
    /\ \A o \in Object : Fits(Upgraded(o))
    /\ Saved(state, monitor_depth)

LEMMA DepthInvInit == Init => DepthInv
  <1>. SUFFICES ASSUME Init PROVE DepthInv
    OBVIOUS
  <1>1. \A o \in Object : Upgraded(o) = FastLock(NIL, 0, 0)
    BY LockOfForm DEF Init
  <1>2. \A t \in Thread : ~InLine(state[t]) /\ ~InWait(state[t])
    BY DEF Init, InLine, InWait
  <1>. QED
    BY <1>1, <1>2, FastLockFields DEF DepthInv, Fits, Saved

\* A step that changes one lock, to one whose count fits.
LEMMA DepthInvLockStep ==
    ASSUME DepthInv, NEW o \in Object, NEW r, LockStep(o, r), Fits(r),
           Saved(state', monitor_depth')
    PROVE  DepthInv'
  <1>1. ASSUME NEW p \in Object PROVE Fits(Upgraded(p)')
    BY DEF LockStep, DepthInv
  <1>. QED
    BY <1>1 DEF DepthInv, Fits

LEMMA DepthInvStay ==
    ASSUME DepthInv, \A o \in Object : Upgraded(o)' = Upgraded(o),
           Saved(state', monitor_depth')
    PROVE  DepthInv'
  <1>1. ASSUME NEW p \in Object PROVE Fits(Upgraded(p)')
    BY DEF DepthInv
  <1>. QED
    BY <1>1 DEF DepthInv, Fits

\* removeMonitorWait() gives the new owner a count it had saved.
LEMMA HandedOverFits ==
    ASSUME NEW r \in MonitorStruct, NEW md,
           \A t \in OnQueue(r.monitor_waitq) : md[t] \in 1..MaxDepth
    PROVE  Fits(HandedOver(r, md))
  <1>. DEFINE q == r.monitor_waitq
              w == QueueStart(q, NIL)
  <1>0. q \in Seq(Thread)
    BY DEF MonitorStruct
  <1>1. /\ HandedOver(r, md).monitor_waitq = RemoveQueueStart(q)
        /\ HandedOver(r, md).owner = w
        /\ HandedOver(r, md).depth = IF w = NIL THEN 0 ELSE md[w]
    BY HandedOverQueues
  <1>2. CASE q = << >>
    <2>1. w = NIL /\ RemoveQueueStart(q) = << >>
      BY <1>2 DEF QueueStart, RemoveQueueStart
    <2>. QED
      BY <1>1, <2>1 DEF Fits
  <1>3. CASE q # << >>
    <2>1. w = Head(q)
      BY <1>3 DEF QueueStart
    <2>2. w \in OnQueue(q) /\ w \in Thread
      BY <1>0, <1>3, <2>1, QueueMember
    <2>. HIDE DEF w, q
    <2>3. w # NIL /\ md[w] \in 1..MaxDepth
      BY <2>2, ThreadsAreNotNil DEF q
    <2>. QED
      BY <1>1, <2>3 DEF Fits
  <1>. QED
    BY <1>2, <1>3

AreDepths(md) == md \in [Thread -> Int]

LEMMA WakeNewOwnerSaved ==
    ASSUME NEW w, NEW st, NEW mo, NEW md, AreFlags(st), AreDepths(md),
           Saved(st, md), WakeNewOwner(w, st, mo, md)
    PROVE  Saved(state', monitor_depth')
  <1>1. CASE w = NIL
    BY <1>1 DEF WakeNewOwner
  <1>2. CASE w # NIL
    <2>1. \A t \in Thread : /\ state'[t] = IF t = w THEN {"ACTIVE"} ELSE st[t]
                            /\ monitor_depth'[t] = IF t = w THEN 0 ELSE md[t]
      BY <1>2 DEF WakeNewOwner, Resumed, AreFlags, AreDepths
    <2>2. ~InLine({"ACTIVE"}) /\ ~InWait({"ACTIVE"})
      BY DEF InLine, InWait
    <2>. QED
      BY <2>1, <2>2 DEF Saved
  <1>. QED
    BY <1>1, <1>2

\* Who resumes a thread, or suspends one outside a wait, saves nothing.
LEMMA SavedStays ==
    ASSUME Saved(state, monitor_depth), UNCHANGED monitor_depth,
           \A t \in Thread : \/ state'[t] = state[t]
                             \/ ~InLine(state'[t]) /\ ~InWait(state'[t])
    PROVE  Saved(state', monitor_depth')
  BY DEF Saved

-----------------------------------------------------------------------------
(***************************************************************************)
(* The steps of JavaMonitors.                                              *)
(***************************************************************************)
LEMMA LockFieldsNext ==
    ASSUME NEW o \in Object
    PROVE  /\ Owner(o)' = Upgraded(o)'.owner
           /\ Depth(o)' = Upgraded(o)'.depth
           /\ HashOf(o)' = Upgraded(o)'.hashCode
           /\ QueueOf(o, "monitor_waitq")' = Upgraded(o)'.monitor_waitq
           /\ QueueOf(o, "condvar_waitq")' = Upgraded(o)'.condvar_waitq
  <1>1. CASE mhc'[o].tag = "MHC_MONITOR"
    BY <1>1 DEF Upgraded, HasMonitor, QueueOf, Owner, Depth, HashOf
  <1>2. CASE mhc'[o].tag # "MHC_MONITOR"
    <2>1. Upgraded(o)' = FastLock(Owner(o)', Depth(o)', HashOf(o)')
      BY <1>2 DEF Upgraded, HasMonitor, NewMonitor, FastLock
    <2>2. QueueOf(o, "monitor_waitq")' = << >> /\ QueueOf(o, "condvar_waitq")' = << >>
      BY <1>2 DEF QueueOf, HasMonitor
    <2>. QED
      BY <2>1, <2>2, FastLockFields
  <1>. QED
    BY <1>1, <1>2

\* The variables of JavaMonitors.
owners   == [o \in Object |-> Owner(o)]
counts   == [o \in Object |-> Depth(o)]
entryQs  == [o \in Object |-> QueueOf(o, "monitor_waitq")]
waitQs   == [o \in Object |-> QueueOf(o, "condvar_waitq")]
hashes   == [o \in Object |-> HashOf(o)]

LEMMA AbstractLock ==
    ASSUME TypeOK, NEW o \in Object
    PROVE  /\ owners[o] = Upgraded(o).owner
           /\ counts[o] = Upgraded(o).depth
           /\ entryQs[o] = Upgraded(o).monitor_waitq
           /\ waitQs[o] = Upgraded(o).condvar_waitq
           /\ hashes[o] = Upgraded(o).hashCode
  BY LockFields DEF owners, counts, entryQs, waitQs, hashes

\* They change with the lock a step changes, and in the fields it changes.
AbstractFields(o, r) ==
    /\ owners' = [owners EXCEPT ![o] = r.owner]
    /\ counts' = [counts EXCEPT ![o] = r.depth]
    /\ entryQs' = [entryQs EXCEPT ![o] = r.monitor_waitq]
    /\ waitQs' = [waitQs EXCEPT ![o] = r.condvar_waitq]
    /\ hashes' = [hashes EXCEPT ![o] = r.hashCode]
    /\ r.owner = owners[o] => UNCHANGED owners
    /\ r.depth = counts[o] => UNCHANGED counts
    /\ r.monitor_waitq = entryQs[o] => UNCHANGED entryQs
    /\ r.condvar_waitq = waitQs[o] => UNCHANGED waitQs
    /\ r.hashCode = hashes[o] => UNCHANGED hashes

LEMMA AbstractLockStep ==
    ASSUME TypeOK, NEW o \in Object, NEW r, LockStep(o, r)
    PROVE  AbstractFields(o, r)
  <1>1. ASSUME NEW p \in Object
        PROVE  /\ Owner(p)' = IF p = o THEN r.owner ELSE Owner(p)
               /\ Depth(p)' = IF p = o THEN r.depth ELSE Depth(p)
               /\ HashOf(p)' = IF p = o THEN r.hashCode ELSE HashOf(p)
               /\ QueueOf(p, "monitor_waitq")' =
                    IF p = o THEN r.monitor_waitq ELSE QueueOf(p, "monitor_waitq")
               /\ QueueOf(p, "condvar_waitq")' =
                    IF p = o THEN r.condvar_waitq ELSE QueueOf(p, "condvar_waitq")
    <2>1. Upgraded(p)' = IF p = o THEN r ELSE Upgraded(p)
      BY DEF LockStep
    <2>. QED
      BY <2>1, LockFields, LockFieldsNext
  <1>2. /\ owners' = [owners EXCEPT ![o] = r.owner]
        /\ r.owner = owners[o] => UNCHANGED owners
    BY <1>1 DEF owners
  <1>3. /\ counts' = [counts EXCEPT ![o] = r.depth]
        /\ r.depth = counts[o] => UNCHANGED counts
    BY <1>1 DEF counts
  <1>4. /\ hashes' = [hashes EXCEPT ![o] = r.hashCode]
        /\ r.hashCode = hashes[o] => UNCHANGED hashes
    BY <1>1 DEF hashes
  <1>5. /\ entryQs' = [entryQs EXCEPT ![o] = r.monitor_waitq]
        /\ r.monitor_waitq = entryQs[o] => UNCHANGED entryQs
    BY <1>1 DEF entryQs
  <1>6. /\ waitQs' = [waitQs EXCEPT ![o] = r.condvar_waitq]
        /\ r.condvar_waitq = waitQs[o] => UNCHANGED waitQs
    BY <1>1 DEF waitQs
  <1>. QED
    BY <1>2, <1>3, <1>4, <1>5, <1>6 DEF AbstractFields

LEMMA AbstractEnter ==
    ASSUME TypeOK, NEW t \in Thread, NEW o \in Object, UNCHANGED monitor_depth,
           LockStep(o, Relocked(Upgraded(o), t, Upgraded(o).depth + 1)),
           \/ Upgraded(o).owner = t
           \/ Upgraded(o).owner = NIL /\ Upgraded(o).monitor_waitq = << >>
    PROVE  JM!Enter(t, o)
  <1>1. AbstractFields(o, Relocked(Upgraded(o), t, Upgraded(o).depth + 1))
    BY AbstractLockStep
  <1>2. /\ owners[o] \in {NIL, t}
        /\ owners[o] = NIL => entryQs[o] = << >>
        /\ owners' = [owners EXCEPT ![o] = t]
        /\ counts' = [counts EXCEPT ![o] = counts[o] + 1]
        /\ UNCHANGED <<entryQs, waitQs, monitor_depth, hashes>>
    BY <1>1, AbstractLock, ThreadsAreNotNil DEF AbstractFields, Relocked
  <1>. QED
    BY <1>2 DEF JM!Enter, owners, counts, entryQs, waitQs, hashes

LEMMA AbstractGetInLine ==
    ASSUME TypeOK, NEW t \in Thread, NEW o \in Object, NEW r, LockStep(o, r),
           r.owner = Upgraded(o).owner, r.depth = Upgraded(o).depth,
           r.hashCode = Upgraded(o).hashCode, r.condvar_waitq = Upgraded(o).condvar_waitq,
           r.monitor_waitq = Append(Upgraded(o).monitor_waitq, t),
           Upgraded(o).owner \notin {NIL, t},
           monitor_depth' = [monitor_depth EXCEPT ![t] = 1]
    PROVE  JM!GetInLine(t, o)
  <1>1. AbstractFields(o, r)
    BY AbstractLockStep
  <1>2. /\ owners[o] \notin {NIL, t}
        /\ entryQs' = [entryQs EXCEPT ![o] = Append(entryQs[o], t)]
        /\ monitor_depth' = [monitor_depth EXCEPT ![t] = 1]
        /\ UNCHANGED <<owners, counts, waitQs, hashes>>
    BY <1>1, AbstractLock DEF AbstractFields
  <1>. QED
    BY <1>2 DEF JM!GetInLine, owners, counts, entryQs, waitQs, hashes

\* The lock of o passes on to the first thread of q, with saved counts md.
PassesOn(q, md, r) ==
    /\ r.owner = QueueStart(q, NIL)
    /\ r.depth = IF q = << >> THEN 0 ELSE md[Head(q)]
    /\ r.monitor_waitq = RemoveQueueStart(q)
    /\ monitor_depth' = IF q = << >> THEN md ELSE [md EXCEPT ![Head(q)] = 0]

LEMMA AbstractPassOn ==
    ASSUME TypeOK, NEW o \in Object, NEW r, LockStep(o, r), NEW q, NEW md, PassesOn(q, md, r)
    PROVE  JM!PassOn(o, q, md)
  <1>1. AbstractFields(o, r)
    BY AbstractLockStep
  <1>2. CASE q = << >>
    <2>1. /\ owners' = [owners EXCEPT ![o] = NIL]
          /\ counts' = [counts EXCEPT ![o] = 0]
          /\ entryQs' = [entryQs EXCEPT ![o] = q]
          /\ monitor_depth' = md
      BY <1>1, <1>2 DEF AbstractFields, PassesOn, QueueStart, RemoveQueueStart
    <2>. QED
      BY <1>2, <2>1 DEF JM!PassOn, owners, counts, entryQs
  <1>3. CASE q # << >>
    <2>1. /\ owners' = [owners EXCEPT ![o] = Head(q)]
          /\ counts' = [counts EXCEPT ![o] = md[Head(q)]]
          /\ entryQs' = [entryQs EXCEPT ![o] = Tail(q)]
          /\ monitor_depth' = [md EXCEPT ![Head(q)] = 0]
      BY <1>1, <1>3 DEF AbstractFields, PassesOn, QueueStart, RemoveQueueStart
    <2>. QED
      BY <1>3, <2>1 DEF JM!PassOn, owners, counts, entryQs
  <1>. QED
    BY <1>2, <1>3

\* removeMonitorWait() passes a lock on.
LEMMA HandedOverPassesOn ==
    ASSUME NEW r \in MonitorStruct, NEW st, NEW mo, NEW md,
           WakeNewOwner(QueueStart(r.monitor_waitq, NIL), st, mo, md)
    PROVE  PassesOn(r.monitor_waitq, md, HandedOver(r, md))
  <1>. DEFINE q == r.monitor_waitq
              w == QueueStart(q, NIL)
  <1>1. /\ HandedOver(r, md).monitor_waitq = RemoveQueueStart(q)
        /\ HandedOver(r, md).owner = w
        /\ HandedOver(r, md).depth = IF w = NIL THEN 0 ELSE md[w]
    BY HandedOverQueues
  <1>2. monitor_depth' = IF w = NIL THEN md ELSE [md EXCEPT ![w] = 0]
    BY DEF WakeNewOwner
  <1>3. w = IF q = << >> THEN NIL ELSE Head(q)
    BY DEF QueueStart
  <1>4. q # << >> => Head(q) # NIL
    BY QueueMember, ThreadsAreNotNil DEF MonitorStruct
  <1>. HIDE DEF q, w
  <1>5. PassesOn(q, md, HandedOver(r, md))
    BY <1>1, <1>2, <1>3, <1>4 DEF PassesOn, w
  <1>. QED
    BY <1>5 DEF q

LEMMA AbstractExit ==
    ASSUME TypeOK, NEW t \in Thread, NEW o \in Object, NEW r, LockStep(o, r),
           Upgraded(o).owner = t,
           r.condvar_waitq = Upgraded(o).condvar_waitq, r.hashCode = Upgraded(o).hashCode,
           IF Upgraded(o).depth = 1
           THEN PassesOn(Upgraded(o).monitor_waitq, monitor_depth, r)
           ELSE /\ r.owner = t /\ r.depth = Upgraded(o).depth - 1
                /\ r.monitor_waitq = Upgraded(o).monitor_waitq
                /\ UNCHANGED monitor_depth
    PROVE  JM!Exit(t, o)
  <1>1. AbstractFields(o, r)
    BY AbstractLockStep
  <1>2. owners[o] = t /\ UNCHANGED <<waitQs, hashes>>
    BY <1>1, AbstractLock DEF AbstractFields
  <1>3. CASE Upgraded(o).depth = 1
    <2>1. JM!PassOn(o, entryQs[o], monitor_depth) /\ counts[o] = 1
      BY <1>3, AbstractPassOn, AbstractLock
    <2>. QED
      BY <1>2, <2>1 DEF JM!Exit, owners, counts, entryQs, waitQs, hashes
  <1>4. CASE Upgraded(o).depth # 1
    <2>1. /\ counts[o] # 1
          /\ counts' = [counts EXCEPT ![o] = counts[o] - 1]
          /\ UNCHANGED <<owners, entryQs, monitor_depth>>
      BY <1>1, <1>4, AbstractLock DEF AbstractFields
    <2>. QED
      BY <1>2, <2>1 DEF JM!Exit, owners, counts, entryQs, waitQs, hashes
  <1>. QED
    BY <1>3, <1>4

LEMMA AbstractWait ==
    ASSUME TypeOK, NEW t \in Thread, NEW o \in Object, NEW r, LockStep(o, r),
           Upgraded(o).owner = t, r.hashCode = Upgraded(o).hashCode,
           r.condvar_waitq = Append(Upgraded(o).condvar_waitq, t),
           PassesOn(Upgraded(o).monitor_waitq,
                    [monitor_depth EXCEPT ![t] = Upgraded(o).depth], r)
    PROVE  JM!Wait(t, o)
  <1>1. AbstractFields(o, r)
    BY AbstractLockStep
  <1>2. /\ owners[o] = t
        /\ waitQs' = [waitQs EXCEPT ![o] = Append(waitQs[o], t)]
        /\ UNCHANGED hashes
    BY <1>1, AbstractLock DEF AbstractFields
  <1>3. JM!PassOn(o, entryQs[o], [monitor_depth EXCEPT ![t] = counts[o]])
    BY AbstractPassOn, AbstractLock
  <1>. QED
    BY <1>2, <1>3 DEF JM!Wait, owners, counts, entryQs, waitQs, hashes

LEMMA AbstractHash ==
    ASSUME TypeOK, NEW o \in Object, NEW h \in HashCode, Upgraded(o).hashCode = 0,
           LockStep(o, Hashed(Upgraded(o), h)), UNCHANGED monitor_depth
    PROVE  JM!DrawHash(o)
  <1>1. AbstractFields(o, Hashed(Upgraded(o), h))
    BY AbstractLockStep
  <1>2. /\ hashes[o] = 0
        /\ hashes' = [hashes EXCEPT ![o] = h]
        /\ UNCHANGED <<owners, counts, entryQs, waitQs, monitor_depth>>
    BY <1>1, AbstractLock DEF AbstractFields, Hashed
  <1>. QED
    BY <1>2 DEF JM!DrawHash, owners, counts, entryQs, waitQs, hashes

\* addMonitorWait() for the threads ts that leave the condvar queue: they get in
\* line, and the first in line gets a lock that nobody owns.
LEMMA AbstractRequeue ==
    ASSUME TypeOK, NEW o \in Object, NEW m \in Monitor, NEW r \in MonitorStruct,
           NEW ts \in Seq(Thread), ts # << >>, NoDuplicates(ts), NEW st,
           AddMonitorWait(m, r, ts, st), LockStep(o, AfterMonitorWait(r, ts)),
           OnQueue(ts) \cap OnQueue(r.monitor_waitq) = {},
           r.owner = Upgraded(o).owner, r.depth = Upgraded(o).depth,
           r.hashCode = Upgraded(o).hashCode,
           r.monitor_waitq = Upgraded(o).monitor_waitq
    PROVE  /\ JM!Requeue(o, ts)
           /\ waitQs' = [waitQs EXCEPT ![o] = r.condvar_waitq]
           /\ UNCHANGED hashes
  <1>. DEFINE r1 == Enqueued(r, ts)
              st1 == [t \in Thread |-> IF t \in OnQueue(ts) THEN st[t] \cup {"MONITOR_WAIT"}
                                                          ELSE st[t]]
              mo1 == [t \in Thread |-> IF t \in OnQueue(ts) THEN m ELSE monitor[t]]
  <1>1. /\ r1.monitor_waitq = r.monitor_waitq \o ts
        /\ r1.condvar_waitq = r.condvar_waitq
        /\ r1.owner = r.owner /\ r1.depth = r.depth
        /\ r1 \in MonitorStruct
    BY EnqueuedQueues, EnqueuedType
  <1>2. r1.hashCode = r.hashCode
    BY <1>1 DEF Enqueued, MonitorStruct
  <1>3. CASE r.owner = NIL
    <2>1. AfterMonitorWait(r, ts) = HandedOver(r1, monitor_depth)
      BY <1>3 DEF AfterMonitorWait
    <2>2. WakeNewOwner(QueueStart(r1.monitor_waitq, NIL), st1, mo1, monitor_depth)
      BY <1>3 DEF AddMonitorWait
    <2>. HIDE DEF r1, st1, mo1
    <2>3. PassesOn(r1.monitor_waitq, monitor_depth, HandedOver(r1, monitor_depth))
      BY <1>1, <2>2, HandedOverPassesOn
    <2>4. LockStep(o, HandedOver(r1, monitor_depth))
      BY <2>1
    <2>5. JM!PassOn(o, r1.monitor_waitq, monitor_depth)
      BY <2>3, <2>4, AbstractPassOn
    <2>6. owners[o] = NIL /\ r1.monitor_waitq = entryQs[o] \o ts
      BY <1>1, <1>3, AbstractLock
    <2>7. JM!Requeue(o, ts)
      <3>1. JM!PassOn(o, entryQs[o] \o ts, monitor_depth)
        BY <2>5, <2>6
      <3>. QED
        BY <2>6, <3>1 DEF JM!Requeue, owners, entryQs
    <2>8. AbstractFields(o, HandedOver(r1, monitor_depth))
      BY <2>4, AbstractLockStep
    <2>9. /\ HandedOver(r1, monitor_depth).condvar_waitq = r.condvar_waitq
          /\ HandedOver(r1, monitor_depth).hashCode = r.hashCode
      BY <1>1, <1>2, HandedOverQueues, HandedOverHash
    <2>. QED
      BY <2>7, <2>8, <2>9, AbstractLock DEF AbstractFields
  <1>4. CASE r.owner # NIL
    <2>1. AfterMonitorWait(r, ts) = r1
      BY <1>4 DEF AfterMonitorWait
    <2>2. UNCHANGED monitor_depth
      BY <1>4 DEF AddMonitorWait, WakeNewOwner
    <2>. HIDE DEF r1, st1, mo1
    <2>3. AbstractFields(o, r1)
      BY <2>1, AbstractLockStep
    <2>4. /\ owners[o] # NIL
          /\ entryQs' = [entryQs EXCEPT ![o] = entryQs[o] \o ts]
          /\ UNCHANGED <<owners, counts, monitor_depth>>
      BY <1>1, <1>4, <2>2, <2>3, AbstractLock DEF AbstractFields
    <2>5. JM!Requeue(o, ts)
      BY <2>4 DEF JM!Requeue, owners, counts, entryQs
    <2>. QED
      BY <1>1, <1>2, <2>3, <2>5, AbstractLock DEF AbstractFields
  <1>. QED
    BY <1>3, <1>4

-----------------------------------------------------------------------------
(***************************************************************************)
(* Threads that leave wait().                                              *)
(***************************************************************************)
\* The lock of o after the threads ts have left the condvar queue of its MONITOR.
LEMMA LeavingLock ==
    ASSUME TypeOK, LockInv, NEW o \in Object, NEW m \in Monitor, mhc[o] = RealMonitor(m),
           NEW r, NEW ts \in Seq(Thread), NEW st, AddMonitorWait(m, r, ts, st),
           UNCHANGED <<mhc, extendedLock>>
    PROVE  Upgraded(o) = monitors[m] /\ LockStep(o, AfterMonitorWait(r, ts))
  <1>1. monitors' = [monitors EXCEPT ![m] = AfterMonitorWait(r, ts)]
    BY DEF AddMonitorWait
  <1>2. LockStep(o, AfterMonitorWait(r, ts))
    <2>. DEFINE r1 == AfterMonitorWait(r, ts)
    <2>1. monitors' = [monitors EXCEPT ![m] = r1]
      BY <1>1
    <2>. HIDE DEF r1
    <2>2. LockStep(o, r1)
      BY <2>1, MonitorFieldsStep
    <2>. QED
      BY <2>2 DEF r1
  <1>. QED
    BY <1>2, LockOfForm

\* Their saved counts, in the flags st of all threads.
LEMMA LeavingSaved ==
    ASSUME TypeOK, NEW m \in Monitor, NEW r, NEW ts \in Seq(Thread), NEW st, NEW ct,
           Placed(ct, RunnableThreads, st, monitor, monitors), AreFlags(st),
           Saved(st, monitor_depth), LeavesWait(m, r, ts), AddMonitorWait(m, r, ts, st)
    PROVE  /\ Saved(state', monitor_depth')
           /\ \A t \in OnQueue(ts) : monitor_depth[t] \in 1..MaxDepth
           /\ \A t \in OnQueue(r.monitor_waitq) : monitor_depth[t] \in 1..MaxDepth
  <1>. DEFINE st1 == [t \in Thread |-> IF t \in OnQueue(ts) THEN st[t] \cup {"MONITOR_WAIT"}
                                                          ELSE st[t]]
              mo1 == [t \in Thread |-> IF t \in OnQueue(ts) THEN m ELSE monitor[t]]
              w   == IF r.owner = NIL /\ ts # << >>
                       THEN QueueStart(Enqueued(r, ts).monitor_waitq, NIL) ELSE NIL
  <1>1. \A t \in OnQueue(ts) : t \in Thread /\ InWait(st[t])
    BY QueueMember DEF LeavesWait, Placed
  <1>2. \A t \in OnQueue(r.monitor_waitq) : t \in Thread /\ InLine(st[t])
    BY QueueMember DEF LeavesWait, Placed, MonitorStruct
  <1>3. WakeNewOwner(w, st1, mo1, monitor_depth)
    BY DEF AddMonitorWait
  <1>4. AreFlags(st1) /\ \A t \in Thread : st1[t] = IF t \in OnQueue(ts)
                                       THEN st[t] \cup {"MONITOR_WAIT"} ELSE st[t]
    BY DEF AreFlags, Flag
  <1>5. AreDepths(monitor_depth)
    BY DEF TypeOK, AreDepths
  <1>. HIDE DEF st1, mo1, w
  <1>6. Saved(st1, monitor_depth)
    BY <1>1, <1>4 DEF Saved
  <1>7. Saved(state', monitor_depth')
    BY <1>3, <1>4, <1>5, <1>6, WakeNewOwnerSaved
  <1>. QED
    BY <1>1, <1>2, <1>7 DEF Saved

LEMMA LeavingApart ==
    ASSUME NEW m \in Monitor, NEW r, NEW ts \in Seq(Thread), NEW st, NEW ct,
           Placed(ct, RunnableThreads, st, monitor, monitors), LeavesWait(m, r, ts)
    PROVE  OnQueue(ts) \cap OnQueue(r.monitor_waitq) = {}
  <1>1. \A t \in OnQueue(ts) : t \in Thread /\ InWait(st[t])
    BY QueueMember DEF LeavesWait, Placed
  <1>2. \A t \in OnQueue(r.monitor_waitq) : InLine(st[t])
    BY QueueMember DEF LeavesWait, Placed, MonitorStruct
  <1>. QED
    BY <1>1, <1>2 DEF InLine, InWait

LEMMA LeavingDepths ==
    ASSUME TypeOK, LockInv, DepthInv, NEW o \in Object, NEW m \in Monitor,
           mhc[o] = RealMonitor(m), NEW r, NEW ts \in Seq(Thread), NEW st, NEW ct,
           Placed(ct, RunnableThreads, st, monitor, monitors), AreFlags(st),
           Saved(st, monitor_depth), LeavesWait(m, r, ts), AddMonitorWait(m, r, ts, st),
           UNCHANGED <<mhc, extendedLock>>
    PROVE  DepthInv'
  <1>. DEFINE r1 == Enqueued(r, ts)
  <1>1. r \in MonitorStruct /\ NoDuplicates(ts)
    BY DEF LeavesWait
  <1>2. /\ r1.monitor_waitq = r.monitor_waitq \o ts
        /\ r1.owner = r.owner /\ r1.depth = r.depth
        /\ r1 \in MonitorStruct
    BY <1>1, LeavingApart, EnqueuedQueues, EnqueuedType
  <1>3. Upgraded(o) = monitors[m] /\ LockStep(o, AfterMonitorWait(r, ts))
    BY LeavingLock
  <1>4. Fits(monitors[m])
    BY <1>3 DEF DepthInv
  <1>5. Fits(AfterMonitorWait(r, ts))
    <2>1. CASE r.owner = NIL /\ ts # << >>
      <3>1. AfterMonitorWait(r, ts) = HandedOver(r1, monitor_depth)
        BY <2>1 DEF AfterMonitorWait
      <3>2. r.monitor_waitq \in Seq(Thread)
        BY <1>1 DEF MonitorStruct
      <3>3. OnQueue(r.monitor_waitq \o ts) = OnQueue(r.monitor_waitq) \cup OnQueue(ts)
        BY <1>1, <3>2, LeavingApart, ConcatQueue
      <3>4. \A t \in OnQueue(r1.monitor_waitq) : monitor_depth[t] \in 1..MaxDepth
        BY <1>2, <3>3, LeavingSaved
      <3>. HIDE DEF r1
      <3>. QED
        BY <1>2, <3>1, <3>4, HandedOverFits
    <2>2. CASE r.owner = NIL /\ ts = << >>
      <3>1. AfterMonitorWait(r, ts) = r1
        BY <2>2 DEF AfterMonitorWait
      <3>2. r.monitor_waitq = << >> /\ r.depth = 0
        BY <1>4, <2>2 DEF LeavesWait, Fits
      <3>3. r1.monitor_waitq = << >>
        BY <1>2, <2>2, <3>2
      <3>. HIDE DEF r1
      <3>. QED
        BY <1>2, <2>2, <3>1, <3>2, <3>3 DEF Fits
    <2>3. CASE r.owner # NIL
      <3>1. AfterMonitorWait(r, ts) = r1
        BY <2>3 DEF AfterMonitorWait
      <3>2. r.depth \in 1..MaxDepth
        BY <1>4, <2>3 DEF LeavesWait, Fits
      <3>. HIDE DEF r1
      <3>. QED
        BY <1>2, <2>3, <3>1, <3>2 DEF Fits
    <2>. QED
      BY <2>1, <2>2, <2>3
  <1>. QED
    BY <1>3, <1>5, LeavingSaved, DepthInvLockStep

\* The variables of JavaMonitors stay as they are.
AbstractStutter == UNCHANGED <<owners, counts, entryQs, waitQs, monitor_depth, hashes>>

LEMMA LeavingAbstract ==
    ASSUME TypeOK, LockInv, NEW o \in Object, NEW m \in Monitor,
           mhc[o] = RealMonitor(m), NEW r, NEW ts \in Seq(Thread), NEW st, NEW ct,
           Placed(ct, RunnableThreads, st, monitor, monitors),
           LeavesWait(m, r, ts), AddMonitorWait(m, r, ts, st),
           UNCHANGED <<mhc, extendedLock>>,
           ts = << >> => monitors[m].condvar_waitq = << >>
    PROVE  IF ts = << >> THEN AbstractStutter
           ELSE /\ JM!Requeue(o, ts)
                /\ waitQs' = [waitQs EXCEPT ![o] = r.condvar_waitq]
                /\ UNCHANGED hashes
  <1>1. /\ r \in MonitorStruct /\ NoDuplicates(ts)
        /\ r.monitor_waitq = monitors[m].monitor_waitq
        /\ r.owner = monitors[m].owner /\ r.depth = monitors[m].depth
        /\ r.hashCode = monitors[m].hashCode
    BY DEF LeavesWait
  <1>2. Upgraded(o) = monitors[m] /\ LockStep(o, AfterMonitorWait(r, ts))
    BY LeavingLock
  <1>3. OnQueue(ts) \cap OnQueue(r.monitor_waitq) = {}
    BY LeavingApart
  <1>4. CASE ts # << >>
    BY <1>1, <1>2, <1>3, <1>4, AbstractRequeue
  <1>5. CASE ts = << >>
    <2>. DEFINE r1 == Enqueued(r, ts)
    <2>1. /\ r1.monitor_waitq = r.monitor_waitq \o ts
          /\ r1.condvar_waitq = r.condvar_waitq
          /\ r1.owner = r.owner /\ r1.depth = r.depth
      BY <1>1, <1>3, EnqueuedQueues
    <2>2. r1.hashCode = r.hashCode
      BY <1>1 DEF Enqueued, MonitorStruct
    <2>3. AfterMonitorWait(r, ts) = r1
      BY <1>5 DEF AfterMonitorWait
    <2>4. r1.monitor_waitq = monitors[m].monitor_waitq
      BY <1>1, <1>5, <2>1 DEF MonitorStruct
    <2>5. r1.condvar_waitq = monitors[m].condvar_waitq
      <3>1. OnQueue(r.condvar_waitq) = {}
        BY <1>5, EmptyQueue DEF LeavesWait
      <3>2. r.condvar_waitq = << >>
        BY <1>1, <3>1, QueueMember DEF MonitorStruct
      <3>. QED
        BY <1>5, <2>1, <3>2
    <2>6. UNCHANGED monitor_depth
      BY <1>5 DEF AddMonitorWait, WakeNewOwner
    <2>. HIDE DEF r1
    <2>7. AbstractFields(o, r1)
      BY <1>2, <2>3, AbstractLockStep
    <2>. QED
      BY <1>1, <1>2, <1>5, <2>1, <2>2, <2>4, <2>5, <2>6, <2>7, AbstractLock
         DEF AbstractFields, AbstractStutter
  <1>. QED
    BY <1>4, <1>5

AbstractStep == JM!Next \/ AbstractStutter

\* removeCondvarWait() for the object o.
LEMMA NotifyStep ==
    ASSUME TypeOK, LockInv, DepthInv, NEW o \in Object, NEW m \in Monitor,
           mhc[o] = RealMonitor(m), NEW notifyAll \in BOOLEAN, NEW st, NEW ct,
           Placed(ct, RunnableThreads, st, monitor, monitors), AreFlags(st),
           Saved(st, monitor_depth), RemoveCondvarWait(m, notifyAll, st),
           UNCHANGED <<mhc, extendedLock>>
    PROVE  DepthInv' /\ AbstractStep
  <1>. DEFINE q == monitors[m].condvar_waitq
  <1>1. PICK r, ts : /\ ts \in Seq(Thread) /\ LeavesWait(m, r, ts)
                     /\ AddMonitorWait(m, r, ts, st) /\ RemovePendingAlarms(OnQueue(ts))
                     /\ FirstLeave(q, ts, r.condvar_waitq)
    BY NotifiedLeave
  <1>2. q \in Seq(Thread)
    BY DEF TypeOK, MonitorStruct
  <1>3. waitQs[o] = q
    BY LockOfForm, AbstractLock
  <1>. HIDE DEF q
  <1>4. DepthInv'
    BY <1>1, LeavingDepths
  <1>5. CASE q = << >>
    <2>1. OnQueue(ts) = {}
      BY <1>1, <1>5, EmptyQueue DEF LeavesWait, q
    <2>2. ts = << >>
      BY <1>1, <2>1, QueueMember
    <2>3. AbstractStutter
      BY <1>1, <1>5, <2>2, LeavingAbstract DEF q
    <2>. QED
      BY <1>4, <2>3 DEF AbstractStep
  <1>6. CASE q # << >>
    <2>1. PICK k \in {1, Len(q)} : /\ ts = SubSeq(q, 1, k)
                                   /\ r.condvar_waitq = SubSeq(q, k + 1, Len(q))
      BY <1>1, <1>6 DEF FirstLeave
    <2>2. k \in 1..Len(q) /\ ts # << >>
      BY <1>2, <1>6, <2>1
    <2>3. /\ JM!Requeue(o, ts)
          /\ waitQs' = [waitQs EXCEPT ![o] = r.condvar_waitq]
          /\ UNCHANGED hashes
      BY <1>1, <2>2, LeavingAbstract
    <2>4. /\ waitQs' = [waitQs EXCEPT ![o] = SubSeq(waitQs[o], k + 1, Len(waitQs[o]))]
          /\ JM!Requeue(o, SubSeq(waitQs[o], 1, k))
          /\ k \in {1, Len(waitQs[o])} /\ k \in 1..Len(waitQs[o])
      BY <1>3, <2>1, <2>2, <2>3
    <2>5. JM!Notify(o)
      BY <2>3, <2>4 DEF JM!Notify, waitQs, hashes
    <2>. QED
      BY <1>4, <2>5 DEF AbstractStep, JM!Next
  <1>. QED
    BY <1>5, <1>6

\* A timeout or an interrupt ends the wait() of u.
LEMMA LeaveStep ==
    ASSUME TypeOK, LockInv, QueueInv, DepthInv, NEW u \in Thread, InWait(state[u]), NEW r,
           r = [monitors[monitor[u]] EXCEPT !.condvar_waitq = RemoveFromQueue(@, u)],
           AddMonitorWait(monitor[u], r, <<u>>, state), UNCHANGED <<mhc, extendedLock>>
    PROVE  DepthInv' /\ AbstractStep
  <1>1. PICK m \in Monitor : monitor[u] = m
    BY OneLeaves
  <1>2. /\ u \in OnQueue(monitors[m].condvar_waitq)
        /\ LeavesWait(m, r, <<u>>) /\ <<u>> \in Seq(Thread)
        /\ OneLeft(monitors[m].condvar_waitq, u, r.condvar_waitq)
        /\ AddMonitorWait(m, r, <<u>>, state)
    BY <1>1, OneLeaves
  <1>3. PICK o \in Object : mhc[o] = RealMonitor(m)
    BY <1>2, EmptyQueue DEF QueueInv, Attached
  <1>4. /\ Placed(CurrentThread, RunnableThreads, state, monitor, monitors)
        /\ AreFlags(state) /\ Saved(state, monitor_depth)
    BY DEF QueueInv, DepthInv, AreFlags, TypeOK
  <1>5. waitQs[o] = monitors[m].condvar_waitq
    BY <1>3, LockOfForm, AbstractLock
  <1>. DEFINE ts == <<u>>
  <1>6. ts # << >> /\ ts \in Seq(Thread) /\ LeavesWait(m, r, ts) /\ AddMonitorWait(m, r, ts, state)
    BY <1>2
  <1>. HIDE DEF ts
  <1>7. DepthInv'
    BY <1>3, <1>4, <1>6, LeavingDepths
  <1>8. /\ JM!Requeue(o, ts)
        /\ waitQs' = [waitQs EXCEPT ![o] = r.condvar_waitq]
        /\ UNCHANGED hashes
    <2>1. ts = << >> => monitors[m].condvar_waitq = << >>
      BY <1>6
    <2>2. \A st, ct : Placed(ct, RunnableThreads, st, monitor, monitors)
                      /\ AddMonitorWait(m, r, ts, st) =>
            IF ts = << >> THEN AbstractStutter
            ELSE /\ JM!Requeue(o, ts)
                 /\ waitQs' = [waitQs EXCEPT ![o] = r.condvar_waitq]
                 /\ UNCHANGED hashes
      BY <1>3, <1>6, <2>1, LeavingAbstract
    <2>. QED
      BY <1>4, <1>6, <2>2
  <1>9. PICK i \in 1..Len(waitQs[o]) :
          /\ waitQs[o][i] = u
          /\ r.condvar_waitq = SubSeq(waitQs[o], 1, i - 1)
                                 \o SubSeq(waitQs[o], i + 1, Len(waitQs[o]))
    BY <1>2, <1>5 DEF OneLeft
  <1>10. JM!Requeue(o, <<waitQs[o][i]>>)
    BY <1>8, <1>9 DEF ts
  <1>11. JM!Leave(o)
    BY <1>8, <1>9, <1>10 DEF JM!Leave, waitQs, hashes
  <1>. QED
    BY <1>7, <1>11 DEF AbstractStep, JM!Next

-----------------------------------------------------------------------------
(***************************************************************************)
(* The steps, one operation of the program after the other.                *)
(***************************************************************************)
\* No lock changes, and who changes its flags is neither in line nor in a wait.
LEMMA QuietStep ==
    ASSUME TypeOK, DepthInv, \A o \in Object : Upgraded(o)' = Upgraded(o),
           UNCHANGED monitor_depth,
           \A t \in Thread : \/ state'[t] = state[t]
                             \/ ~InLine(state'[t]) /\ ~InWait(state'[t])
    PROVE  DepthInv' /\ AbstractStep
  <1>1. DepthInv'
    BY SavedStays, DepthInvStay DEF DepthInv
  <1>2. ASSUME NEW o \in Object
        PROVE  /\ Owner(o)' = Owner(o) /\ Depth(o)' = Depth(o) /\ HashOf(o)' = HashOf(o)
               /\ QueueOf(o, "monitor_waitq")' = QueueOf(o, "monitor_waitq")
               /\ QueueOf(o, "condvar_waitq")' = QueueOf(o, "condvar_waitq")
    BY LockFields, LockFieldsNext
  <1>3. AbstractStutter
    BY <1>2 DEF AbstractStutter, owners, counts, entryQs, waitQs, hashes
  <1>. QED
    BY <1>1, <1>3 DEF AbstractStep

\* t enters the lock of o once more, or for the first time.
LEMMA EntersStep ==
    ASSUME TypeOK, DepthInv, NEW t \in Thread, NEW o \in Object,
           UNCHANGED <<state, monitor_depth>>,
           LockStep(o, Relocked(Upgraded(o), t, Upgraded(o).depth + 1)),
           \/ Upgraded(o).owner = t /\ Depth(o) < MaxDepth
           \/ Upgraded(o).owner = NIL /\ Upgraded(o).monitor_waitq = << >>
    PROVE  DepthInv' /\ AbstractStep
  <1>. DEFINE r == Upgraded(o)
  <1>1. Fits(r) /\ Saved(state, monitor_depth) /\ r.depth = Depth(o)
    BY LockFields DEF DepthInv
  <1>2. MaxDepth \in Nat \ {0} /\ t # NIL
    BY ConstantsAssumption, ThreadsAreNotNil DEF ConstantsAssumption
  <1>3. r.depth + 1 \in 1..MaxDepth
    BY <1>1, <1>2 DEF Fits
  <1>4. Fits(Relocked(r, t, r.depth + 1))
    BY <1>2, <1>3 DEF Fits, Relocked
  <1>5. DepthInv'
    BY <1>1, <1>4, DepthInvLockStep
  <1>6. JM!Enter(t, o)
    BY AbstractEnter
  <1>. QED
    BY <1>5, <1>6 DEF AbstractStep, JM!Next

LEMMA EnterStep ==
    ASSUME TypeOK, LockInv, QueueInv, DepthInv, NEW t \in Thread, NEW o \in Object,
           MonitorEnter(t, o)
    PROVE  DepthInv' /\ AbstractStep
  <1>. DEFINE u == Upgraded(o)
  <1>1. /\ u \in MonitorStruct /\ u.owner = Owner(o) /\ u.depth = Depth(o)
        /\ Fits(u) /\ Saved(state, monitor_depth)
    BY LockFields DEF DepthInv
  <1>2. CASE MonitorEnterFast(t, o)
    <2>1. /\ FastEnter(t, o) /\ UNCHANGED <<monitors, state, monitor_depth>>
          /\ Owner(o) = t => Depth(o) < MaxDepth
      BY <1>2 DEF MonitorEnterFast, waitVars
    <2>. QED
      BY <1>1, <2>1, EnterFastStep, EntersStep
  <1>3. CASE MonitorEnterReal(t, o)
    <2>. DEFINE r == [u EXCEPT !.owner = t, !.depth = IF Owner(o) = NIL THEN 1 ELSE @ + 1]
    <2>1. /\ UNCHANGED <<state, monitor_depth>>
          /\ Owner(o) = t => Depth(o) < MaxDepth
          /\ Owner(o) \in {NIL, t}
      BY <1>3 DEF MonitorEnterReal, waitVars
    <2>2. PICK m \in Monitor : UpgradeToRealMonitor(o, m, r)
      BY <1>3 DEF MonitorEnterReal
    <2>3. LockStep(o, r)
      <3>. HIDE DEF r
      <3>. QED
        BY <2>2, UpgradeStep
    <2>4. r = Relocked(u, t, u.depth + 1)
      <3>1. (IF Owner(o) = NIL THEN 1 ELSE u.depth + 1) = u.depth + 1
        BY <1>1 DEF Fits
      <3>2. r = [u EXCEPT !.owner = t, !.depth = u.depth + 1]
        BY <3>1
      <3>3. u.depth + 1 \in Int
        BY <1>1 DEF MonitorStruct
      <3>. HIDE DEF u, r
      <3>4. \A d \in Int : [u EXCEPT !.owner = t, !.depth = d] = Relocked(u, t, d)
        BY <1>1, MonitorUpdates
      <3>. QED
        BY <3>2, <3>3, <3>4
    <2>5. u.owner = NIL => u.monitor_waitq = << >>
      BY <1>1 DEF Fits
    <2>. HIDE DEF r
    <2>. QED
      BY <1>1, <2>1, <2>3, <2>4, <2>5, EntersStep
  <1>4. CASE MonitorEnterBlocked(t, o)
    <2>. DEFINE r == [u EXCEPT !.monitor_waitq = AddThreadToQueue(@, t)]
    <2>1. PICK m \in Monitor : UpgradeToRealMonitor(o, m, r)
      BY <1>4 DEF MonitorEnterBlocked
    <2>2. /\ CurrentThread = t /\ Owner(o) \notin {NIL, t}
          /\ monitor_depth' = [monitor_depth EXCEPT ![t] = 1]
          /\ state' = Suspended([state EXCEPT ![t] = @ \cup {"MONITOR_WAIT"}], t)
      BY <1>4 DEF MonitorEnterBlocked, Running
    <2>3. IsMonitorFor(o, m)
      BY <2>1 DEF UpgradeToRealMonitor
    <2>4. u.monitor_waitq = monitors[m].monitor_waitq
      BY <2>3, UpgradedQueues DEF QueueInv
    <2>5. t \notin OnQueue(u.monitor_waitq)
      BY <2>2, <2>4, CurrentIsReady
    <2>6. u.monitor_waitq \in Seq(Thread)
      BY <1>1 DEF MonitorStruct
    <2>7. AddThreadToQueue(u.monitor_waitq, t) = Append(u.monitor_waitq, t)
      BY <2>5, <2>6, AddedQueue
    <2>8. /\ r.owner = u.owner /\ r.depth = u.depth /\ r.hashCode = u.hashCode
          /\ r.condvar_waitq = u.condvar_waitq
          /\ r.monitor_waitq = Append(u.monitor_waitq, t)
      BY <1>1, <2>7 DEF MonitorStruct
    <2>9. LockStep(o, r)
      <3>. HIDE DEF r
      <3>. QED
        BY <2>1, UpgradeStep
    <2>. HIDE DEF r, u
    <2>10. Fits(r)
      BY <1>1, <2>2, <2>8 DEF Fits
    <2>11. Saved(state', monitor_depth')
      <3>1. MaxDepth \in Nat \ {0}
        BY ConstantsAssumption DEF ConstantsAssumption
      <3>2. \A x \in Thread : /\ x # t => state'[x] = state[x]
                              /\ monitor_depth'[x] = IF x = t THEN 1 ELSE monitor_depth[x]
        BY <2>2 DEF TypeOK, Suspended
      <3>. QED
        BY <1>1, <3>1, <3>2 DEF Saved
    <2>12. DepthInv'
      BY <2>9, <2>10, <2>11, DepthInvLockStep
    <2>13. JM!GetInLine(t, o)
      BY <1>1, <2>2, <2>8, <2>9, AbstractGetInLine DEF u
    <2>. QED
      BY <2>12, <2>13 DEF AbstractStep, JM!Next
  <1>. QED
    BY <1>2, <1>3, <1>4 DEF MonitorEnter

\* r is what becomes of the lock of o when t, its owner, exits it once.
LEMMA ExitsStep ==
    ASSUME TypeOK, DepthInv, NEW t \in Thread, NEW o \in Object,
           Upgraded(o).owner = t, Upgraded(o).depth # 1,
           UNCHANGED <<state, monitor_depth>>,
           LockStep(o, Relocked(Upgraded(o), t, Upgraded(o).depth - 1))
    PROVE  DepthInv' /\ AbstractStep
  <1>. DEFINE u == Upgraded(o)
              r == Relocked(u, t, u.depth - 1)
  <1>1. Fits(u) /\ Saved(state, monitor_depth) /\ t # NIL /\ MaxDepth \in Nat \ {0}
    BY ThreadsAreNotNil, ConstantsAssumption DEF DepthInv, ConstantsAssumption
  <1>2. /\ r.owner = t /\ r.depth = u.depth - 1 /\ r.hashCode = u.hashCode
        /\ r.monitor_waitq = u.monitor_waitq /\ r.condvar_waitq = u.condvar_waitq
    BY DEF Relocked
  <1>3. u.depth \in 1..MaxDepth /\ u.depth # 1
    BY <1>1 DEF Fits
  <1>. HIDE DEF r
  <1>4. Fits(r)
    BY <1>1, <1>2, <1>3 DEF Fits
  <1>5. DepthInv'
    BY <1>1, <1>4, DepthInvLockStep DEF r
  <1>6. JM!Exit(t, o)
    BY <1>2, <1>3, AbstractExit DEF r
  <1>. QED
    BY <1>5, <1>6 DEF AbstractStep, JM!Next

LEMMA ExitFastSteps ==
    ASSUME TypeOK, LockInv, DepthInv, NEW t \in Thread, NEW o \in Object,
           MonitorExitFast(t, o)
    PROVE  DepthInv' /\ AbstractStep
  <1>. DEFINE u == Upgraded(o)
              r == Relocked(u, NIL, 0)
  <1>1. FastExit(t, o) /\ UNCHANGED <<monitors, state, monitor_depth>>
    BY DEF MonitorExitFast, waitVars
  <1>2. /\ u.owner = t /\ u.monitor_waitq = << >>
        /\ LockStep(o, IF u.depth = 1 THEN r ELSE Relocked(u, t, u.depth - 1))
    BY <1>1, ExitFastStep
  <1>3. CASE u.depth # 1
    BY <1>1, <1>2, <1>3, ExitsStep
  <1>4. CASE u.depth = 1
    <2>1. /\ r.owner = NIL /\ r.depth = 0 /\ r.hashCode = u.hashCode
          /\ r.monitor_waitq = << >> /\ r.condvar_waitq = u.condvar_waitq
      BY <1>2 DEF Relocked
    <2>2. LockStep(o, r)
      BY <1>2, <1>4
    <2>. HIDE DEF r
    <2>3. Fits(r) /\ Saved(state, monitor_depth)
      BY <2>1 DEF Fits, DepthInv
    <2>4. DepthInv'
      BY <1>1, <2>2, <2>3, DepthInvLockStep
    <2>5. PassesOn(u.monitor_waitq, monitor_depth, r)
      BY <1>1, <1>2, <2>1 DEF PassesOn, QueueStart, RemoveQueueStart
    <2>6. JM!Exit(t, o)
      BY <1>2, <1>4, <2>1, <2>2, <2>5, AbstractExit
    <2>. QED
      BY <2>4, <2>6 DEF AbstractStep, JM!Next
  <1>. QED
    BY <1>3, <1>4

LEMMA ExitStep ==
    ASSUME TypeOK, LockInv, QueueInv, DepthInv, NEW t \in Thread, NEW o \in Object,
           MonitorExit(t, o)
    PROVE  DepthInv' /\ AbstractStep
  <1>1. CASE MonitorExitFast(t, o)
    BY <1>1, ExitFastSteps
  <1>2. CASE MonitorExitNested(t, o)
    <2>1. PICK m \in Monitor : mhc[o] = RealMonitor(m)
      BY <1>2, MhcValues DEF MonitorExitNested, HasMonitor, RealMonitor
    <2>2. /\ Owner(o) = t /\ Depth(o) # 1
          /\ UNCHANGED <<state, monitor_depth, extendedLock, mhc>>
          /\ monitors' = [monitors EXCEPT ![m] = [monitors[m] EXCEPT !.depth = @ - 1]]
      BY <1>2, <2>1 DEF MonitorExitNested, RealMonitor, waitVars, TypeOK
    <2>3. /\ Upgraded(o) = monitors[m] /\ monitors[m] \in MonitorStruct
          /\ Upgraded(o).owner = t /\ Upgraded(o).depth # 1
      BY <2>1, <2>2, LockOfForm, LockFields
    <2>4. monitors[m].depth - 1 \in Int
      BY <2>3 DEF MonitorStruct
    <2>5. [monitors[m] EXCEPT !.depth = @ - 1] = Relocked(Upgraded(o), t, Upgraded(o).depth - 1)
      BY <2>3, <2>4, MonitorUpdates
    <2>6. LockStep(o, Relocked(Upgraded(o), t, Upgraded(o).depth - 1))
      BY <2>1, <2>2, <2>5, MonitorFieldsStep
    <2>. QED
      BY <2>2, <2>3, <2>6, ExitsStep
  <1>3. CASE MonitorExitRelease(t, o)
    <2>. DEFINE m == mhc[o].val
                s == [monitors[m] EXCEPT !.depth = 0]
                r == HandedOver(s, monitor_depth)
    <2>1. m \in Monitor /\ mhc[o] = RealMonitor(m)
      BY <1>3, MhcValues DEF MonitorExitRelease, HasMonitor, RealMonitor
    <2>2. /\ Upgraded(o) = monitors[m] /\ monitors[m] \in MonitorStruct
          /\ Upgraded(o).owner = t /\ Upgraded(o).depth = 1
      BY <1>3, <2>1, LockOfForm, LockFields DEF MonitorExitRelease
    <2>3. /\ s \in MonitorStruct
          /\ s.monitor_waitq = monitors[m].monitor_waitq
          /\ s.condvar_waitq = monitors[m].condvar_waitq
          /\ s.hashCode = monitors[m].hashCode
      BY <2>2 DEF MonitorStruct
    <2>. HIDE DEF s
    <2>4. /\ r.monitor_waitq = RemoveQueueStart(s.monitor_waitq)
          /\ r.condvar_waitq = s.condvar_waitq
          /\ r.owner = QueueStart(s.monitor_waitq, NIL)
          /\ r.depth = IF r.owner = NIL THEN 0 ELSE monitor_depth[r.owner]
          /\ r.hashCode = s.hashCode
      BY <2>3, HandedOverQueues, HandedOverHash
    <2>5. /\ monitors' = [monitors EXCEPT ![m] = r]
          /\ IF IsDead(r) THEN mhc' = [mhc EXCEPT ![o] = Unlocked(r.hashCode)]
                          ELSE mhc' = mhc
          /\ extendedLock' = extendedLock
          /\ WakeNewOwner(r.owner, state, monitor, monitor_depth)
      BY <1>3 DEF MonitorExitRelease, s
    <2>6. r \in MonitorStruct
      <3>1. monitor_depth \in [Thread -> Int]
        BY DEF TypeOK
      <3>. QED
        BY <2>3, <3>1, HandedOverType
    <2>7. PassesOn(s.monitor_waitq, monitor_depth, r)
      BY <2>3, <2>4, <2>5, HandedOverPassesOn
    <2>8. AreFlags(state) /\ AreDepths(monitor_depth) /\ Saved(state, monitor_depth)
      BY DEF AreFlags, AreDepths, TypeOK, DepthInv
    <2>9. Fits(r)
      <3>1. \A x \in OnQueue(s.monitor_waitq) : x \in Thread /\ InLine(state[x])
        BY <2>1, <2>3, QueueMember DEF QueueInv, Placed, MonitorStruct
      <3>2. \A x \in OnQueue(s.monitor_waitq) : monitor_depth[x] \in 1..MaxDepth
        BY <2>8, <3>1 DEF Saved
      <3>. QED
        BY <2>3, <3>2, HandedOverFits
    <2>10. Saved(state', monitor_depth')
      BY <2>5, <2>8, WakeNewOwnerSaved
    <2>. HIDE DEF m, r
    <2>11. LockStep(o, r)
      <3>1. \A p \in Object : p # o => mhc'[p] = mhc[p]
        BY <2>5 DEF TypeOK
      <3>2. CASE IsDead(r)
        <4>1. r = [owner |-> r.owner, depth |-> r.depth, hashCode |-> r.hashCode,
                   monitor_waitq |-> r.monitor_waitq, condvar_waitq |-> r.condvar_waitq]
          BY <2>6 DEF MonitorStruct
        <4>2. r = FastLock(NIL, 0, r.hashCode)
          BY <2>4, <3>2, <4>1 DEF IsDead, FastLock
        <4>3. mhc'[o] = Unlocked(r.hashCode)
          BY <2>5, <3>2 DEF TypeOK
        <4>. QED
          BY <2>1, <2>5, <3>1, <4>2, <4>3, MonitorFieldsStep
      <3>3. CASE ~IsDead(r)
        BY <2>1, <2>5, <3>1, <3>3, MonitorFieldsStep
      <3>. QED
        BY <3>2, <3>3
    <2>12. DepthInv'
      BY <2>9, <2>10, <2>11, DepthInvLockStep
    <2>13. JM!Exit(t, o)
      BY <2>2, <2>3, <2>4, <2>7, <2>11, AbstractExit
    <2>. QED
      BY <2>12, <2>13 DEF AbstractStep, JM!Next
  <1>. QED
    BY <1>1, <1>2, <1>3 DEF MonitorExit

\* The C conversion to a short keeps the counts a short can hold.
LEMMA ShortsFit ==
    ASSUME NEW d \in Nat, d <= ShortMax
    PROVE  ToShort(d) = d
  <1>1. ShortMax \in Nat \ {0}
    BY ConstantsAssumption DEF ConstantsAssumption
  <1>2. \A a, b \in Nat : a < b => a % b = a
    OBVIOUS
  <1>3. (d + ShortMax + 1) % (2 * (ShortMax + 1)) = d + ShortMax + 1
    BY <1>1, <1>2
  <1>. QED
    BY <1>1, <1>3 DEF ToShort

LEMMA WaitThrowsStep ==
    ASSUME TypeOK, LockInv, DepthInv, NEW t \in Thread, NEW o \in Object,
           MonitorWaitThrows(t, o)
    PROVE  DepthInv' /\ AbstractStep
  <1>1. PICK m \in Monitor : UpgradeToRealMonitor(o, m, Upgraded(o))
    BY DEF MonitorWaitThrows
  <1>2. LockStep(o, Upgraded(o)) /\ UNCHANGED <<state, monitor_depth>>
    BY <1>1, UpgradeStep DEF MonitorWaitThrows, waitVars
  <1>. QED
    BY <1>2, QuietStep DEF LockStep

LEMMA WaitStep ==
    ASSUME TypeOK, LockInv, QueueInv, DepthInv, MaxDepth <= ShortMax,
           NEW t \in Thread, NEW o \in Object, NEW delta \in 0..MaxDelta,
           MonitorWait(t, o, delta)
    PROVE  DepthInv' /\ AbstractStep
  <1>. DEFINE u == Upgraded(o)
              r == [u EXCEPT !.condvar_waitq = AddThreadToQueue(@, t)]
              d == [monitor_depth EXCEPT ![t] = ToShort(r.depth)]
              st == Suspended([state EXCEPT ![t] = @ \cup {"CONVAR_WAIT"}], t)
              h == HandedOver(r, d)
  <1>1. /\ u \in MonitorStruct /\ u.owner = Owner(o) /\ u.depth = Depth(o)
        /\ Fits(u) /\ Saved(state, monitor_depth)
    BY LockFields DEF DepthInv
  <1>2. CurrentThread = t /\ Owner(o) = t
    BY DEF MonitorWait, Running
  <1>3. PICK m \in Monitor :
          /\ UpgradeToRealMonitor(o, m, h)
          /\ WakeNewOwner(QueueStart(r.monitor_waitq, NIL), st, [monitor EXCEPT ![t] = m], d)
    BY DEF MonitorWait
  <1>4. IsMonitorFor(o, m)
    BY <1>3 DEF UpgradeToRealMonitor
  <1>5. /\ u.monitor_waitq = monitors[m].monitor_waitq
        /\ u.condvar_waitq = monitors[m].condvar_waitq
    BY <1>4, UpgradedQueues DEF QueueInv
  <1>6. t \notin OnQueue(u.monitor_waitq) /\ t \notin OnQueue(u.condvar_waitq)
    BY <1>2, <1>5, CurrentIsReady
  <1>7. AddThreadToQueue(u.condvar_waitq, t) = Append(u.condvar_waitq, t)
    BY <1>1, <1>6, AddedQueue DEF MonitorStruct
  <1>8. /\ r.owner = u.owner /\ r.depth = u.depth /\ r.hashCode = u.hashCode
        /\ r.monitor_waitq = u.monitor_waitq
        /\ r.condvar_waitq = Append(u.condvar_waitq, t)
        /\ r \in MonitorStruct
    <2>1. Append(u.condvar_waitq, t) \in Seq(Thread)
      BY <1>1 DEF MonitorStruct
    <2>2. r = [u EXCEPT !.condvar_waitq = Append(u.condvar_waitq, t)]
      BY <1>7
    <2>. HIDE DEF u, r
    <2>. QED
      BY <1>1, <2>1, <2>2 DEF MonitorStruct
  <1>9. u.depth \in 1..MaxDepth /\ MaxDepth \in Nat /\ ShortMax \in Nat
    BY <1>1, <1>2, ThreadsAreNotNil, ConstantsAssumption DEF Fits, ConstantsAssumption
  <1>10. ToShort(r.depth) = u.depth
    BY <1>8, <1>9, ShortsFit
  <1>11. d = [monitor_depth EXCEPT ![t] = u.depth]
    BY <1>10
  <1>12. LockStep(o, h)
    <2>. HIDE DEF h
    <2>. QED
      BY <1>3, UpgradeStep
  <1>13. \A x \in Thread : x # t => st[x] = state[x]
    BY DEF TypeOK, Suspended
  <1>14. AreFlags(st)
    BY DEF AreFlags, Suspended, TypeOK, Flag
  <1>. HIDE DEF r, u, st
  <1>15. AreDepths(d) /\ \A x \in Thread : d[x] = IF x = t THEN u.depth ELSE monitor_depth[x]
    BY <1>9, <1>11 DEF AreDepths, TypeOK
  <1>. HIDE DEF d
  <1>16. PassesOn(r.monitor_waitq, d, h)
    BY <1>3, <1>8, HandedOverPassesOn
  <1>17. /\ h.condvar_waitq = r.condvar_waitq /\ h.hashCode = r.hashCode
    BY <1>8, HandedOverQueues, HandedOverHash
  <1>18. Saved(st, d)
    BY <1>1, <1>9, <1>13, <1>15 DEF Saved
  <1>19. Saved(state', monitor_depth')
    BY <1>3, <1>14, <1>15, <1>18, WakeNewOwnerSaved
  <1>20. Fits(h)
    <2>1. \A x \in OnQueue(r.monitor_waitq) : x \in Thread /\ InLine(state[x]) /\ x # t
      BY <1>5, <1>6, <1>8, QueueMember DEF QueueInv, Placed, MonitorStruct
    <2>2. \A x \in OnQueue(r.monitor_waitq) : d[x] \in 1..MaxDepth
      BY <1>1, <1>15, <2>1 DEF Saved
    <2>. QED
      BY <1>8, <2>2, HandedOverFits
  <1>. HIDE DEF h
  <1>21. DepthInv'
    BY <1>12, <1>19, <1>20, DepthInvLockStep
  <1>22. JM!Wait(t, o)
    <2>1. PassesOn(Upgraded(o).monitor_waitq, [monitor_depth EXCEPT ![t] = Upgraded(o).depth], h)
      BY <1>8, <1>11, <1>16 DEF u
    <2>. QED
      BY <1>1, <1>2, <1>8, <1>12, <1>17, <2>1, AbstractWait DEF u
  <1>. QED
    BY <1>21, <1>22 DEF AbstractStep, JM!Next

LEMMA HashDrawnStep ==
    ASSUME TypeOK, DepthInv, NEW o \in Object, NEW h \in HashCode,
           Upgraded(o).hashCode = 0, LockStep(o, Hashed(Upgraded(o), h)),
           UNCHANGED <<state, monitor_depth>>
    PROVE  DepthInv' /\ AbstractStep
  <1>1. Fits(Hashed(Upgraded(o), h)) /\ Saved(state', monitor_depth')
    BY DEF Fits, Hashed, DepthInv
  <1>2. DepthInv'
    BY <1>1, DepthInvLockStep
  <1>3. JM!DrawHash(o)
    BY AbstractHash
  <1>. QED
    BY <1>2, <1>3 DEF AbstractStep, JM!Next

LEMMA HashCodeStep ==
    ASSUME TypeOK, LockInv, DepthInv, NEW t \in Thread, NEW o \in Object,
           ObjectHashCode(t, o)
    PROVE  DepthInv' /\ AbstractStep
  <1>1. UNCHANGED <<state, monitor_depth>>
    BY DEF ObjectHashCode, waitVars
  <1>2. CASE HashCodePromotesToReal(t, o)
    <2>1. PICK m \in Monitor, h \in HashCode :
            UpgradeToRealMonitor(o, m, [Upgraded(o) EXCEPT !.hashCode = h])
      BY <1>2 DEF HashCodePromotesToReal
    <2>2. Upgraded(o) \in MonitorStruct /\ Upgraded(o).hashCode = 0
      <3>1. HashOf(o) = 0
        BY <1>2 DEF HashCodePromotesToReal, HashOf
      <3>. QED
        BY <3>1, LockFields
    <2>3. [Upgraded(o) EXCEPT !.hashCode = h] = Hashed(Upgraded(o), h)
      BY <2>2, MonitorUpdates DEF Hash
    <2>4. LockStep(o, Hashed(Upgraded(o), h))
      BY <2>1, <2>3, UpgradeStep
    <2>. QED
      BY <1>1, <2>2, <2>4, HashDrawnStep
  <1>3. CASE HashCodeInPlace(t, o)
    <2>1. CASE LockStep(o, Upgraded(o))
      BY <1>1, <2>1, QuietStep DEF LockStep
    <2>2. CASE /\ Upgraded(o).hashCode = 0
               /\ \E h \in HashCode : LockStep(o, Hashed(Upgraded(o), h))
      BY <1>1, <2>2, HashDrawnStep
    <2>. QED
      BY <1>3, <2>1, <2>2, HashInPlaceStep
  <1>. QED
    BY <1>2, <1>3 DEF ObjectHashCode

\* No monitor operation.
LEMMA NoLockStep ==
    ASSUME TypeOK, DepthInv, UNCHANGED <<mhc, monitors, extendedLock, monitor_depth>>,
           \A t \in Thread : \/ state'[t] = state[t]
                             \/ ~InLine(state'[t]) /\ ~InWait(state'[t])
    PROVE  DepthInv' /\ AbstractStep
  BY LocksStay, QuietStep

LEMMA ResumeStep ==
    ASSUME TypeOK, DepthInv, UNCHANGED <<mhc, monitors, extendedLock, monitor_depth>>,
           NEW u \in Thread, state' = Resumed(state, u)
    PROVE  DepthInv' /\ AbstractStep
  <1>1. \A t \in Thread : state'[t] = IF t = u THEN {"ACTIVE"} ELSE state[t]
    BY DEF Resumed, TypeOK
  <1>2. ~InLine({"ACTIVE"}) /\ ~InWait({"ACTIVE"})
    BY DEF InLine, InWait
  <1>. QED
    BY <1>1, <1>2, NoLockStep

LEMMA NotifyActionStep ==
    ASSUME TypeOK, LockInv, QueueInv, DepthInv, NEW t \in Thread, NEW o \in Object,
           NEW notifyAll \in BOOLEAN, MonitorNotify(t, o, notifyAll)
    PROVE  DepthInv' /\ AbstractStep
  <1>1. PICK m \in Monitor : mhc[o] = RealMonitor(m)
    BY MhcValues DEF MonitorNotify, HasMonitor, RealMonitor
  <1>2. /\ RemoveCondvarWait(m, notifyAll, state)
        /\ UNCHANGED <<mhc, extendedLock>>
    BY <1>1 DEF MonitorNotify, RealMonitor
  <1>3. /\ Placed(CurrentThread, RunnableThreads, state, monitor, monitors)
        /\ AreFlags(state) /\ Saved(state, monitor_depth)
    BY DEF QueueInv, DepthInv, AreFlags, TypeOK
  <1>. QED
    BY <1>1, <1>2, <1>3, NotifyStep

LEMMA StopStep ==
    ASSUME TypeOK, LockInv, QueueInv, DepthInv, NEW t \in Thread, Stop(t)
    PROVE  DepthInv' /\ AbstractStep
  <1>. DEFINE o  == javaThread[t]
              st == [state EXCEPT ![t] = {"DEAD"}]
  <1>1. CurrentThread = t /\ UNCHANGED <<mhc, extendedLock>>
    BY DEF Stop, Running
  <1>2. \A u \in Thread : st[u] = IF u = t THEN {"DEAD"} ELSE state[u]
    BY DEF TypeOK
  <1>3. ~InLine({"DEAD"}) /\ ~InWait({"DEAD"})
    BY DEF InLine, InWait
  <1>4. IF o # NIL /\ HasMonitor(o)
        THEN RemoveCondvarWait(mhc[o].val, TRUE, st)
        ELSE state' = st /\ UNCHANGED <<monitor_depth, monitors>>
    BY DEF Stop
  <1>5. AreFlags(st)
    BY DEF AreFlags, TypeOK, Flag
  <1>6. CASE o # NIL /\ HasMonitor(o)
    <2>1. o \in Object
      BY <1>6, ConstantsAssumption DEF ConstantsAssumption
    <2>2. PICK m \in Monitor : mhc[o] = RealMonitor(m)
      BY <1>6, <2>1, MhcValues DEF HasMonitor, RealMonitor
    <2>. HIDE DEF st, o
    <2>3. RemoveCondvarWait(m, TRUE, st)
      <3>1. mhc[o].val = m
        BY <2>2 DEF RealMonitor
      <3>2. RemoveCondvarWait(mhc[o].val, TRUE, st)
        BY <1>4, <1>6
      <3>. QED
        BY <3>1, <3>2
    <2>4. Placed(NIL, RunnableThreads, st, monitor, monitors)
      BY <1>1, <1>2, FlagSteps, CurrentRests
    <2>5. Saved(st, monitor_depth)
      BY <1>2, <1>3 DEF DepthInv, Saved
    <2>. QED
      BY <1>1, <1>5, <2>1, <2>2, <2>3, <2>4, <2>5, NotifyStep
  <1>7. CASE ~(o # NIL /\ HasMonitor(o))
    <2>1. UNCHANGED <<mhc, monitors, extendedLock, monitor_depth>> /\ state' = st
      BY <1>1, <1>4, <1>7
    <2>. QED
      BY <1>2, <1>3, <2>1, NoLockStep
  <1>. QED
    BY <1>6, <1>7

LEMMA SleepStep ==
    ASSUME TypeOK, QueueInv, DepthInv, NEW t \in Thread, NEW delta \in 1..MaxDelta,
           Sleep(t, delta)
    PROVE  DepthInv' /\ AbstractStep
  <1>1. /\ CurrentThread = t /\ state' = Suspended(state, t)
        /\ UNCHANGED <<mhc, monitors, extendedLock, monitor_depth>>
    BY DEF Sleep, Running, lockVars
  <1>2. Ready(state[t])
    BY <1>1, CurrentIsReady
  <1>3. \A u \in Thread : state'[u] = IF u = t THEN {"ACTIVE", "SUSPENDED"} ELSE state[u]
    BY <1>1, <1>2 DEF Suspended, TypeOK, Ready
  <1>4. ~InLine({"ACTIVE", "SUSPENDED"}) /\ ~InWait({"ACTIVE", "SUSPENDED"})
    BY DEF InLine, InWait
  <1>. QED
    BY <1>1, <1>3, <1>4, NoLockStep

LEMMA InterruptStep ==
    ASSUME TypeOK, LockInv, QueueInv, DepthInv, ~RepeatInterrupt,
           NEW t \in Thread, NEW u \in Thread, Interrupt(t, u)
    PROVE  DepthInv' /\ AbstractStep
  <1>1. UNCHANGED <<mhc, extendedLock>>
    BY DEF Interrupt
  <1>2. CASE InterruptWaiting(u)
    <2>1. InWait(state[u])
      BY <1>2 DEF InterruptWaiting, Waiting, InWait
    <2>2. \E r : /\ r = [monitors[monitor[u]] EXCEPT !.condvar_waitq = RemoveFromQueue(@, u)]
                 /\ AddMonitorWait(monitor[u], r, <<u>>, state)
      BY <1>2 DEF InterruptWaiting
    <2>. QED
      BY <1>1, <2>1, <2>2, LeaveStep
  <1>3. CASE InterruptSleeping(u)
    <2>1. UNCHANGED <<mhc, monitors, extendedLock, monitor_depth>> /\ state' = Resumed(state, u)
      BY <1>1, <1>3 DEF InterruptSleeping
    <2>. QED
      BY <2>1, ResumeStep
  <1>4. CASE InterruptLater(u)
    <2>1. UNCHANGED <<mhc, monitors, extendedLock, monitor_depth, state>>
      BY <1>1, <1>4 DEF InterruptLater, waitVars
    <2>. QED
      BY <2>1, NoLockStep
  <1>. QED
    BY <1>2, <1>3, <1>4 DEF Interrupt

LEMMA FireAlarmStep ==
    ASSUME TypeOK, LockInv, QueueInv, DepthInv, NEW u \in Thread, FireAlarm(u)
    PROVE  DepthInv' /\ AbstractStep
  <1>1. UNCHANGED <<mhc, extendedLock>> /\ wakeupCall[u] # NIL
    BY DEF FireAlarm, Due
  <1>2. CASE wakeupCall[u] = "resumeThread"
    <2>1. UNCHANGED <<mhc, monitors, extendedLock, monitor_depth>> /\ state' = Resumed(state, u)
      BY <1>1, <1>2 DEF FireAlarm
    <2>. QED
      BY <2>1, ResumeStep
  <1>3. CASE wakeupCall[u] = "monitorWaitAlarm"
    <2>1. InWait(state[u])
      BY <1>3 DEF QueueInv, AlarmsFit
    <2>2. monitor[u] # NIL
      BY <2>1, OneLeaves, ConstantsAssumption DEF ConstantsAssumption
    <2>3. \E r : /\ r = [monitors[monitor[u]] EXCEPT !.condvar_waitq = RemoveFromQueue(@, u)]
                 /\ AddMonitorWait(monitor[u], r, <<u>>, state)
      BY <1>3, <2>2 DEF FireAlarm
    <2>. QED
      BY <1>1, <2>1, <2>3, LeaveStep
  <1>. QED
    BY <1>1, <1>2, <1>3 DEF TypeOK, WakeupCall

LEMMA DepthInvStep ==
    ASSUME TypeOK, LockInv, QueueInv, DepthInv, ~RepeatInterrupt, MaxDepth <= ShortMax,
           [Next]_vars
    PROVE  DepthInv' /\ AbstractStep
  <1>. DEFINE Step == DepthInv' /\ AbstractStep
  <1>1. CASE UNCHANGED vars
    <2>1. UNCHANGED <<mhc, monitors, extendedLock, monitor_depth, state>>
      BY <1>1 DEF vars, waitVars, lockVars
    <2>. QED
      BY <2>1, NoLockStep
  <1>2. ASSUME NEW t \in Thread, NEW o \in Object, MonitorEnter(t, o)
        PROVE  Step
    BY <1>2, EnterStep
  <1>3. ASSUME NEW t \in Thread, NEW o \in Object, MonitorExit(t, o)
        PROVE  Step
    BY <1>3, ExitStep
  <1>4. ASSUME NEW t \in Thread, NEW o \in Object, MonitorWaitThrows(t, o)
        PROVE  Step
    BY <1>4, WaitThrowsStep
  <1>5. ASSUME NEW t \in Thread, NEW o \in Object, NEW delta \in 0..MaxDelta,
               MonitorWait(t, o, delta)
        PROVE  Step
    BY <1>5, WaitStep
  <1>6. ASSUME NEW t \in Thread, NEW o \in Object, NEW notifyAll \in BOOLEAN,
               MonitorNotify(t, o, notifyAll)
        PROVE  Step
    BY <1>6, NotifyActionStep
  <1>7. ASSUME NEW t \in Thread, NEW o \in Object, ObjectHashCode(t, o)
        PROVE  Step
    BY <1>7, HashCodeStep
  <1>8. ASSUME NEW t \in Thread, NEW delta \in 1..MaxDelta, Sleep(t, delta)
        PROVE  Step
    BY <1>8, SleepStep
  <1>9. ASSUME NEW t \in Thread, SleepThrows(t) \/ Yield(t) \/ GarbageCollect(t)
        PROVE  Step
    <2>1. UNCHANGED <<mhc, monitors, extendedLock, monitor_depth, state>>
      BY <1>9 DEF SleepThrows, Yield, GarbageCollect, waitVars, lockVars
    <2>. QED
      BY <2>1, NoLockStep
  <1>10. ASSUME NEW t \in Thread, NEW u \in Thread, Start(t, u)
         PROVE  Step
    <2>1. UNCHANGED <<mhc, monitors, extendedLock, monitor_depth>> /\ state' = Resumed(state, u)
      BY <1>10 DEF Start, lockVars
    <2>. QED
      BY <2>1, ResumeStep
  <1>11. ASSUME NEW t \in Thread, NEW u \in Interruptible, Interrupt(t, u)
         PROVE  Step
    <2>1. u \in Thread
      BY ConstantsAssumption DEF ConstantsAssumption
    <2>. QED
      BY <1>11, <2>1, InterruptStep
  <1>12. ASSUME NEW t \in Thread, Stop(t)
         PROVE  Step
    BY <1>12, StopStep
  <1>13. ASSUME NEW t \in Thread, FireAlarm(t)
         PROVE  Step
    BY <1>13, FireAlarmStep
  <1>14. CASE Tick \/ SwitchThread
    <2>1. UNCHANGED <<mhc, monitors, extendedLock, monitor_depth, state>>
      BY <1>14 DEF Tick, SwitchThread, waitVars, lockVars
    <2>. QED
      BY <2>1, NoLockStep
  <1>. QED
    BY <1>1, <1>2, <1>3, <1>4, <1>5, <1>6, <1>7, <1>8, <1>9, <1>10, <1>11, <1>12, <1>13,
       <1>14 DEF Next

-----------------------------------------------------------------------------
(***************************************************************************)
(* The theorems.                                                           *)
(***************************************************************************)
LEMMA DepthInvIdle ==
    ASSUME TypeOK, DepthInv
    PROVE  NoIdleWaiters
  <1>1. ASSUME NEW o \in Object, HasMonitor(o)
        PROVE  LET r == monitors[mhc[o].val] IN
               IF r.owner = NIL THEN r.monitor_waitq = << >> /\ r.depth = 0
                                ELSE r.depth > 0
    <2>1. Upgraded(o) = monitors[mhc[o].val]
      BY <1>1 DEF Upgraded
    <2>. QED
      BY <2>1 DEF DepthInv, Fits
  <1>. QED
    BY <1>1 DEF NoIdleWaiters

LEMMA MonitorsInit == Init => JM!Init
  <1>. SUFFICES ASSUME Init PROVE JM!Init
    OBVIOUS
  <1>1. ASSUME NEW o \in Object
        PROVE  /\ Owner(o) = NIL /\ Depth(o) = 0 /\ HashOf(o) = 0
               /\ QueueOf(o, "monitor_waitq") = << >> /\ QueueOf(o, "condvar_waitq") = << >>
    BY DEF Init, Owner, Depth, HashOf, QueueOf, HasMonitor, Unlocked
  <1>. QED
    BY <1>1 DEF JM!Init, Init

LEMMA AbstractStepIsStep == AbstractStep => [JM!Next]_(JM!vars)
  BY DEF AbstractStep, AbstractStutter, JM!vars, owners, counts, entryQs, waitQs, hashes

\* A monitor that nobody owns has nobody queued for it and is entered zero
\* times, whatever interleaving of entries, exits, waits, notifications,
\* timeouts and interrupts led there: no hand-over of a lock is ever missed.
THEOREM HandOversNeverMissed ==
    ~RepeatInterrupt /\ MaxDepth <= ShortMax => (Spec => []NoIdleWaiters)
  <1>. SUFFICES ASSUME ~RepeatInterrupt, MaxDepth <= ShortMax PROVE Spec => []NoIdleWaiters
    OBVIOUS
  <1>. DEFINE Inv == TypeOK /\ LockInv /\ QueueInv /\ DepthInv
  <1>1. Init => Inv
    BY TypeInit, LockInvInit, QueueInvInit, DepthInvInit
  <1>2. Inv /\ [Next]_vars => Inv'
    BY TypeStep, LockInvStep, QueueInvStep, DepthInvStep
  <1>3. Inv => NoIdleWaiters
    BY DepthInvIdle
  <1>. QED
    BY <1>1, <1>2, <1>3, PTL DEF Spec

\* Whatever forms its lock takes, every object behaves as one Java monitor that
\* is entered again by its owner, handed over in order of arrival, waited on and
\* notified in order, and has one identity hash: KvmThreads implements
\* JavaMonitors.
THEOREM KvmImplementsJavaMonitors ==
    ~RepeatInterrupt /\ MaxDepth <= ShortMax => (Spec => ImplementsJavaMonitors)
  <1>. SUFFICES ASSUME ~RepeatInterrupt, MaxDepth <= ShortMax
                PROVE  Spec => ImplementsJavaMonitors
    OBVIOUS
  <1>. DEFINE Inv == TypeOK /\ LockInv /\ QueueInv /\ DepthInv
  <1>1. Init => Inv /\ JM!Init
    BY TypeInit, LockInvInit, QueueInvInit, DepthInvInit, MonitorsInit
  <1>2. Inv /\ [Next]_vars => Inv'
    BY TypeStep, LockInvStep, QueueInvStep, DepthInvStep
  <1>3. Inv /\ [Next]_vars => [JM!Next]_(JM!vars)
    BY DepthInvStep, AbstractStepIsStep
  <1>. QED
    BY <1>1, <1>2, <1>3, PTL DEF Spec, ImplementsJavaMonitors, JM!Spec
=============================================================================
