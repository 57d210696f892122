-------------------------- MODULE MCEventsAndHeap --------------------------
(***************************************************************************)
(* The events and the heap, for TLC.  No step of one touches the other, so *)
(* that a behaviour is about one of them: the readers of events, with an   *)
(* idle heap, or a collection, during which the VM does nothing else.      *)
(***************************************************************************)
EXTENDS MCEvents, MCCollector

VARIABLE kind

allVars == <<vars, collectorVars, kind>>

MCInit ==
    /\ kind \in {"events", "heap"}
    /\ Init /\ (kind = "heap" => <<CurrentThread, RunnableThreads>> = <<t1, <<t2, t3>>>>)
    /\ CollectorInit /\ (kind = "events" => heap = Full)

EventsNext == kind = "events" /\ Next /\ UNCHANGED <<collectorVars, kind>>
HeapNext == kind = "heap" /\ CollectorNext /\ UNCHANGED <<vars, kind>>

MCNext == EventsNext \/ HeapNext

OfEvents(A) == kind = "events" /\ A /\ UNCHANGED <<collectorVars, kind>>

MCFairSpec ==
    /\ MCInit /\ [][MCNext]_allVars
    /\ WF_allVars(OfEvents(\E t \in Thread : Yield(t)))
    /\ WF_allVars(OfEvents(CheckTimerQueue)) /\ WF_allVars(OfEvents(SwitchThread))
    /\ WF_allVars(OfEvents(NeedsNoDevice /\ InterpreterHandleEvent))
    /\ WF_allVars(OfEvents(Tick))
    /\ WF_allVars(HeapNext)

\* Where a behaviour is about events, waiting for the device never holds up
\* for good a thread that can run or that sleeps (Events.tla) ...
ThreadsNotHeldUp == kind = "events" => RunnableNotHeldUp

\* ... and where it is about the heap, the collection ends (Collector.tla).
GarbageCollectionEnds == kind = "heap" => CollectionEnds
=============================================================================
