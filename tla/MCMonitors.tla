----------------------------- MODULE MCMonitors -----------------------------
(***************************************************************************)
(* Two kinds of programs for the threads and monitors of KvmThreads, one   *)
(* in each behaviour.  "locks": two threads take two objects through every *)
(* form of lock and draw identity hashes.  "waits": three threads wait,    *)
(* time out, join, sleep and are interrupted on one object.                *)
(***************************************************************************)
EXTENDS MCKvmThreads

VARIABLE kind

\* What the program of each kind leaves alone.
NeverStarted(t) == state[t] = {"JUST_BORN"}
NoAlarms == \A t \in Thread : wakeupCall[t] = NIL
NoInterrupts == \A t \in Thread : ~isPendingInterrupt[t] /\ ~pendingException[t]
Untouched(o) == mhc[o] = Unlocked(0)
NoHashes ==
    /\ \A o \in Object : mhc[o].tag = "MHC_UNLOCKED" => mhc[o].val = 0
    /\ \A t \in Thread : extendedLock[t].hashCode = 0
    /\ \A m \in Monitor : monitors[m].hashCode = 0

LocksOnly == NeverStarted(t3) /\ NoAlarms /\ NoInterrupts
WaitsOnly == Untouched(o2) /\ NoHashes

MCInit == Init /\ kind \in {"locks", "waits"}

MCNext ==
    /\ \/ kind = "locks" /\ Next /\ LocksOnly'
       \/ kind = "waits" /\ Next /\ WaitsOnly'
    /\ UNCHANGED kind

MCSpec == MCInit /\ [][MCNext]_<<vars, kind>>
=============================================================================
