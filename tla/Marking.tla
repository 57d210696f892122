------------------------------- MODULE Marking -------------------------------
(***************************************************************************)
(* The marking phase of the collector: markRootObjects(),                  *)
(* markNonRootObjects(), markChildren(), the queue of deferred objects and *)
(* the weak lists of VmCommon/src/collector.c.                             *)
(*                                                                         *)
(* Objects are numbered in the order of their addresses.  The heap is      *)
(* scanned upwards; a marked object above the scanner will be met later,   *)
(* one below must be followed at once: by iteration, by recursion as deep  *)
(* as MAX_GC_DEPTH, or through the queue.  What the full queue drops makes *)
(* another pass necessary.                                                 *)
(***************************************************************************)
EXTENDS Naturals, Sequences, FiniteSets

CONSTANTS
    MAX_GC_DEPTH,
    DEFERRED_OBJECT_TABLE_SIZE,
    Heaps                       \* the heaps considered

\* Objects 1..n.  kids: the pointers that are followed, in order; leaves: what
\* is marked only (monitors, code, handlers); weak: the pointers of a
\* WEAKREFERENCE or WEAKPOINTERLIST, which has no other.
IsHeap(h) ==
    LET O == 1..h.n IN
    /\ h.n \in Nat
    /\ h.roots \in SUBSET O
    /\ h.kids \in [O -> Seq(O)]
    /\ h.leaves \in [O -> SUBSET O]
    /\ h.weak \in [O -> Seq(O)]
    /\ \A o \in O : \A l \in h.leaves[o] :
         h.kids[l] = << >> /\ h.leaves[l] = {} /\ h.weak[l] = << >>

ASSUME MarkingAssumption ==
    /\ MAX_GC_DEPTH \in Nat \ {0}
    /\ DEFERRED_OBJECT_TABLE_SIZE \in Nat
    /\ \A h \in Heaps : IsHeap(h)

VARIABLES
    heap,               \* constant: the heap that is collected
    phase,              \* how far garbageCollectForReal() is
    marked,             \* objects with MARKBIT
    scanner,            \* of markNonRootObjects(): the object it is at
    frames,             \* the activations of markChildren(), the latest last
    deferred,           \* deferredObjectTable
    overflow,           \* deferredObjectTableOverflow
    weakList,           \* WeakReferences and WeakPointers
    referents           \* what weak objects refer to, NULL is 0

markVars == <<heap, phase, marked, scanner, frames, deferred, overflow,
              weakList, referents>>

Object == 1..heap.n
Kids(o) == heap.kids[o]
IsWeak(o) == heap.weak[o] # << >>

\* An activation of markChildren(): `at' is the next child of `object';
\* nextObject is 0 for NULL.
Frame == [object : Object, at : Nat \ {0}, nextObject : Object \cup {0}]
Visiting(o) == [object |-> o, at |-> 1, nextObject |-> 0]

MarkTypeOK ==
    /\ heap \in Heaps
    /\ phase \in {"mark", "weak", "sweep"}
    /\ marked \in SUBSET Object
    /\ scanner \in 1..(heap.n + 1)
    /\ frames \in Seq(Frame)
    /\ deferred \in Seq(Object)
    /\ overflow \in BOOLEAN
    /\ weakList \in Seq(Object)
    /\ referents \in [Object -> Seq(Object \cup {0})]

\* markRootObjects(), and the initialization in markNonRootObjects()
MarkInit ==
    /\ heap \in Heaps
    /\ phase = "mark"
    /\ marked = heap.roots
    /\ scanner = 1
    /\ frames = << >>
    /\ deferred = << >>
    /\ overflow = FALSE
    /\ weakList = << >>
    /\ referents = heap.weak

-----------------------------------------------------------------------------
Top == frames[Len(frames)]
Below == SubSeq(frames, 1, Len(frames) - 1)
TopBecomes(f) == [frames EXCEPT ![Len(frames)] = f]
Past(f) == [f EXCEPT !.at = @ + 1]      \* past its child

\* What markChildren() does when it comes to an object, before its children.
\* MARK_OBJECT for the monitor, code and handlers; the weak lists.
Comes(o) ==
    /\ marked' = marked \cup heap.leaves[o]
    /\ weakList' = IF IsWeak(o) THEN <<o>> \o weakList ELSE weakList

\* The scanner of markNonRootObjects() is at an object.
Scan ==
    /\ phase = "mark" /\ frames = << >> /\ scanner <= heap.n
    /\ IF scanner \in marked
       THEN /\ frames' = <<Visiting(scanner)>>
            /\ Comes(scanner)
            /\ UNCHANGED scanner
       ELSE scanner' = scanner + 1 /\ UNCHANGED <<marked, frames, weakList>>
    /\ UNCHANGED <<heap, phase, deferred, overflow, referents>>

\* MARK_AND_TAIL_RECURSE, for a child marked already or met by the scanner
\* later
MarkOnly ==
    LET f == Top  c == Kids(f.object)[f.at] IN
    /\ frames # << >> /\ f.at <= Len(Kids(f.object))
    /\ c \in marked \/ c >= scanner
    /\ marked' = marked \cup {c}
    /\ frames' = TopBecomes(Past(f))
    /\ UNCHANGED <<heap, phase, scanner, deferred, overflow, weakList, referents>>

\* the first child to be followed: iterate on it later
MarkAndChoose ==
    LET f == Top  c == Kids(f.object)[f.at] IN
    /\ frames # << >> /\ f.at <= Len(Kids(f.object))
    /\ c \notin marked /\ c < scanner /\ f.nextObject = 0
    /\ marked' = marked \cup {c}
    /\ frames' = TopBecomes([Past(f) EXCEPT !.nextObject = c])
    /\ UNCHANGED <<heap, phase, scanner, deferred, overflow, weakList, referents>>

\* Bug: what does not fit is forgotten.
PutDeferredForgets(o) ==
    /\ deferred' = IF Len(deferred) < DEFERRED_OBJECT_TABLE_SIZE
                   THEN Append(deferred, o) ELSE deferred
    /\ UNCHANGED overflow

\* putDeferredObject()
PutDeferred(o) ==
    IF Len(deferred) < DEFERRED_OBJECT_TABLE_SIZE
    THEN deferred' = Append(deferred, o) /\ UNCHANGED overflow
    ELSE overflow' = TRUE /\ UNCHANGED deferred

\* RECURSE, on the child chosen before; the new one is chosen instead
MarkAndRecurse ==
    LET f == Top  c == Kids(f.object)[f.at]
        g == [Past(f) EXCEPT !.nextObject = c]
    IN
    /\ frames # << >> /\ f.at <= Len(Kids(f.object))
    /\ c \notin marked /\ c < scanner /\ f.nextObject # 0
    /\ IF Len(frames) <= MAX_GC_DEPTH
       THEN /\ frames' = Append(TopBecomes(g), Visiting(f.nextObject))
            /\ marked' = marked \cup {c} \cup heap.leaves[f.nextObject]
            /\ weakList' = IF IsWeak(f.nextObject) THEN <<f.nextObject>> \o weakList
                                                   ELSE weakList
            /\ UNCHANGED <<deferred, overflow>>
       ELSE /\ frames' = TopBecomes(g)
            /\ marked' = marked \cup {c}
            /\ PutDeferred(f.nextObject)
            /\ UNCHANGED weakList
    /\ UNCHANGED <<heap, phase, scanner, referents>>

\* The end of the loop of markChildren(): iterate on the child chosen, then,
\* at the outer level, on deferred objects, or return.
Iterate ==
    /\ frames # << >> /\ Top.at > Len(Kids(Top.object)) /\ Top.nextObject # 0
    /\ frames' = TopBecomes(Visiting(Top.nextObject))
    /\ Comes(Top.nextObject)
    /\ UNCHANGED <<heap, phase, scanner, deferred, overflow, referents>>

GetDeferred ==
    /\ Len(frames) = 1 /\ Top.at > Len(Kids(Top.object)) /\ Top.nextObject = 0
    /\ deferred # << >>
    /\ frames' = TopBecomes(Visiting(Head(deferred)))
    /\ deferred' = Tail(deferred)
    /\ Comes(Head(deferred))
    /\ UNCHANGED <<heap, phase, scanner, overflow, referents>>

Return ==
    /\ frames # << >> /\ Top.at > Len(Kids(Top.object)) /\ Top.nextObject = 0
    /\ Len(frames) = 1 => deferred = << >>
    /\ frames' = Below
    /\ scanner' = IF Len(frames) = 1 THEN scanner + 1 ELSE scanner
    /\ UNCHANGED <<heap, phase, marked, deferred, overflow, weakList, referents>>

\* Bugs: the weak objects of the pass before stay on the list; the flag does.
EndPassKeepsWeak ==
    /\ phase = "mark" /\ frames = << >> /\ scanner = heap.n + 1
    /\ IF overflow
       THEN scanner' = 1 /\ deferred' = << >> /\ overflow' = FALSE /\ UNCHANGED phase
       ELSE phase' = "weak" /\ UNCHANGED <<scanner, deferred, overflow>>
    /\ UNCHANGED <<heap, marked, frames, weakList, referents>>
EndPassKeepsFlag ==
    /\ phase = "mark" /\ frames = << >> /\ scanner = heap.n + 1
    /\ IF overflow THEN scanner' = 1 /\ weakList' = << >> /\ UNCHANGED phase
                   ELSE phase' = "weak" /\ UNCHANGED <<scanner, weakList>>
    /\ UNCHANGED <<heap, marked, frames, deferred, overflow, referents>>

\* Once more, if something was dropped.
EndPass ==
    /\ phase = "mark" /\ frames = << >> /\ scanner = heap.n + 1
    /\ IF overflow
       THEN /\ scanner' = 1 /\ deferred' = << >> /\ overflow' = FALSE
            /\ weakList' = << >>
            /\ UNCHANGED phase
       ELSE phase' = "weak" /\ UNCHANGED <<scanner, deferred, overflow, weakList>>
    /\ UNCHANGED <<heap, marked, frames, referents>>

\* markWeakPointerLists() and markWeakReferences() walk the lists.
MarkWeak ==
    /\ phase = "weak"
    /\ phase' = "sweep"
    /\ referents' = [o \in Object |->
         IF \E i \in DOMAIN weakList : weakList[i] = o
         THEN [i \in DOMAIN referents[o] |->
                IF referents[o][i] \in marked THEN referents[o][i] ELSE 0]
         ELSE referents[o]]
    /\ UNCHANGED <<heap, marked, scanner, frames, deferred, overflow, weakList>>

MarkNext ==
    \/ Scan \/ MarkOnly \/ MarkAndChoose \/ MarkAndRecurse
    \/ Iterate \/ GetDeferred \/ Return \/ EndPass \/ MarkWeak

-----------------------------------------------------------------------------
(***************************************************************************)
(* Properties.                                                             *)
(***************************************************************************)
\* What a set of live objects must hold on to.
Closed(S) ==
    \A o \in S : heap.leaves[o] \subseteq S
                 /\ \A i \in DOMAIN Kids(o) : Kids(o)[i] \in S

\* Reachable from the roots: in every closed set around them.
Reachable ==
    LET Sets == {heap.roots \cup T : T \in SUBSET (Object \ heap.roots)}
        ClosedSets == {S \in Sets : Closed(S)}
    IN  {o \in Object : \A S \in ClosedSets : o \in S}

\* When marking ends the marked objects are those reachable, however often
\* recursion was cut short and the queue overflowed: no live object is swept.
MarkedIsReachable == phase # "mark" => marked = Reachable

\* collector.c, markWeakReferences(): "This list contains all the weak
\* reference objects that exist in the heap": each is on it once (the list is
\* linked through the objects), also after further passes, so that a weak
\* object refers to live objects or to nothing.
WeakReferencesCleared ==
    /\ \A i, j \in DOMAIN weakList : weakList[i] = weakList[j] => i = j
    /\ phase = "sweep" =>
         \A o \in marked : \A i \in DOMAIN heap.weak[o] :
           referents[o][i] = IF heap.weak[o][i] \in marked THEN heap.weak[o][i] ELSE 0

(***************************************************************************)
(* The inductive invariant behind MarkedIsReachable: what a marked object  *)
(* has not passed on yet, somebody still knows.                            *)
(***************************************************************************)
Passed(o, at) ==
    /\ heap.leaves[o] \subseteq marked
    /\ \A i \in DOMAIN Kids(o) : i < at => Kids(o)[i] \in marked

Known(o) ==
    \/ Passed(o, Len(Kids(o)) + 1)
    \/ o > scanner \/ (o = scanner /\ frames = << >>)
    \/ overflow
    \/ \E i \in DOMAIN deferred : deferred[i] = o
    \/ \E k \in DOMAIN frames :
         \/ frames[k].nextObject = o
         \/ frames[k].object = o /\ Passed(o, frames[k].at)

MarkInv ==
    /\ heap.roots \subseteq marked
    /\ marked \subseteq Reachable
    /\ phase = "mark" => \A o \in marked : Known(o)
    /\ phase # "mark" => Closed(marked)
    /\ \A k \in DOMAIN frames :
         /\ frames[k].object \in marked
         /\ frames[k].nextObject # 0 => frames[k].nextObject \in marked
    /\ \A i \in DOMAIN deferred : deferred[i] \in marked
    /\ frames = << >> => deferred = << >>
    /\ frames # << >> => phase = "mark" /\ scanner \in marked
=============================================================================
