---------------------------- MODULE Marking_proofs ----------------------------
(***************************************************************************)
(* Proof that marking marks exactly what is reachable and that every weak  *)
(* object is found once, for every heap, every recursion depth and every   *)
(* size of the deferred queue.                                             *)
(***************************************************************************)
EXTENDS Collector, SequenceTheorems, TLAPS

(***************************************************************************)
(* Sequences of activations: changing the last, adding one, dropping one.  *)
(***************************************************************************)
LEMMA LastReplaced ==
  ASSUME NEW S, NEW s \in Seq(S), s # << >>, NEW v \in S
  PROVE  LET r == [s EXCEPT ![Len(s)] = v] IN
         /\ r \in Seq(S) /\ r # << >> /\ Len(r) = Len(s) /\ Len(s) \in 1..Len(s)
         /\ DOMAIN r = 1..Len(s) /\ DOMAIN s = 1..Len(s)
         /\ r[Len(s)] = v
         /\ \A k \in 1..Len(s) : k # Len(s) => r[k] = s[k]
  <1> DEFINE r == [s EXCEPT ![Len(s)] = v]
  <1>1. Len(s) \in Nat /\ Len(s) # 0 /\ DOMAIN s = 1..Len(s)
    BY EmptySeq, LenProperties
  <1>2. s \in [1..Len(s) -> S]
    BY ElementOfSeq, <1>1, LenProperties
  <1>3. r \in [1..Len(s) -> S]
    BY <1>1, <1>2
  <1>4. r \in Seq(S) /\ Len(r) = Len(s)
    BY <1>3, <1>1, IsASeq, LenProperties
  <1>5. r # << >>
    BY <1>1, <1>4, EmptySeq
  <1>6. Len(s) \in 1..Len(s)
    BY <1>1
  <1>7. r[Len(s)] = v
    BY <1>2, <1>6, Zenon
  <1>8. \A k \in 1..Len(s) : k # Len(s) => r[k] = s[k]
    BY <1>2, Zenon
  <1> QED
    BY <1>1, <1>3, <1>4, <1>5, <1>6, <1>7, <1>8

LEMMA OneMore ==
  ASSUME NEW S, NEW s \in Seq(S), NEW v \in S
  PROVE  LET r == Append(s, v) IN
         /\ r \in Seq(S) /\ r # << >> /\ DOMAIN r = 1..(Len(s) + 1)
         /\ r[Len(s) + 1] = v /\ Len(s) + 1 \in DOMAIN r
         /\ \A k \in 1..Len(s) : k \in DOMAIN r /\ r[k] = s[k]
  <1> DEFINE r == Append(s, v)
  <1>1. /\ r \in Seq(S) /\ Len(r) = Len(s) + 1 /\ r[Len(s) + 1] = v
        /\ \A k \in 1..Len(s) : r[k] = s[k]
    BY AppendProperties
  <1>2. Len(s) \in Nat /\ DOMAIN r = 1..Len(r)
    BY <1>1, LenProperties
  <1> QED
    BY <1>1, <1>2, EmptySeq

LEMMA LastDropped ==
  ASSUME NEW S, NEW s \in Seq(S), s # << >>
  PROVE  LET r == SubSeq(s, 1, Len(s) - 1) IN
         /\ r \in Seq(S) /\ DOMAIN r = 1..(Len(s) - 1) /\ DOMAIN s = 1..Len(s)
         /\ \A k \in 1..(Len(s) - 1) : r[k] = s[k]
         /\ r = << >> <=> Len(s) = 1
         /\ Len(s) \in Nat \ {0}
  <1> DEFINE r == SubSeq(s, 1, Len(s) - 1)
  <1>1. Len(s) \in Nat \ {0} /\ DOMAIN s = 1..Len(s)
    BY EmptySeq, LenProperties
  <1>2. /\ r \in Seq(S) /\ Len(r) = Len(s) - 1
        /\ \A k \in 1..(Len(s) - 1) : r[k] = s[k]
    BY <1>1, SubSeqProperties
  <1>3. DOMAIN r = 1..(Len(s) - 1)
    BY <1>2, LenProperties
  <1>4. r = << >> <=> Len(s) = 1
    <2>1. Len(s) = 1 => r = << >>
      BY SubSeqEmpty
    <2>2. ASSUME r = << >> PROVE Len(s) = 1
      <3>1. Len(r) = 0
        BY <2>2, EmptySeq
      <3>2. Len(r) = Len(s) - 1
        BY <1>2
      <3>3. Len(s) - 1 = 0
        BY <3>1, <3>2, Zenon
      <3> QED
        BY <3>3, <1>1
    <2> QED
      BY <2>1, <2>2
  <1> QED
    BY <1>1, <1>2, <1>3, <1>4

-----------------------------------------------------------------------------
(***************************************************************************)
(* Reachable.                                                              *)
(***************************************************************************)
\* What a reachable object refers to is reachable.
LEMMA ReachableClosed ==
  ASSUME IsHeap(heap), NEW o \in Reachable
  PROVE  heap.leaves[o] \subseteq Reachable
         /\ \A i \in DOMAIN Kids(o) : Kids(o)[i] \in Reachable
  <1> USE DEF IsHeap, Object, Kids, Closed, Reachable
  <1>1. o \in Object /\ heap.leaves[o] \subseteq Object
    OBVIOUS
  <1>2. Kids(o) \in Seq(Object)
    BY <1>1
  <1>3. \A i \in DOMAIN Kids(o) : Kids(o)[i] \in Object
    BY <1>2, ElementOfSeq, LenProperties
  <1> QED
    BY <1>1, <1>3

LEMMA RootsReachable ==
  ASSUME IsHeap(heap)
  PROVE  heap.roots \subseteq Reachable
  BY DEF IsHeap, Object, Reachable

LEMMA ClosedIsAll ==
  ASSUME IsHeap(heap), NEW S \in SUBSET Object, heap.roots \subseteq S, Closed(S)
  PROVE  Reachable \subseteq S
  <1>1. S = heap.roots \cup (S \ heap.roots) /\ S \ heap.roots \in SUBSET (Object \ heap.roots)
    OBVIOUS
  <1> QED
    BY <1>1 DEF Reachable

-----------------------------------------------------------------------------
(***************************************************************************)
(* The invariant.                                                          *)
(***************************************************************************)
Types ==
    /\ heap \in Heaps /\ IsHeap(heap)
    /\ phase \in {"mark", "weak", "sweep"}
    /\ marked \in SUBSET Object
    /\ scanner \in 1..(heap.n + 1)
    /\ frames \in Seq(Frame)
    /\ deferred \in Seq(Object)
    /\ overflow \in BOOLEAN

Inv == Types /\ MarkInv

\* What the activation on top is about.
LEMMA TopFacts ==
  ASSUME Inv, frames # << >>
  PROVE  /\ Len(frames) \in Nat \ {0} /\ DOMAIN frames = 1..Len(frames)
         /\ Len(frames) \in DOMAIN frames
         /\ Top \in Frame /\ Top.at \in Nat \ {0}
         /\ Top.object \in marked /\ Top.object \in Object
         /\ Top.nextObject # 0 => Top.nextObject \in marked
         /\ Kids(Top.object) \in Seq(Object)
         /\ DOMAIN Kids(Top.object) = 1..Len(Kids(Top.object))
         /\ Len(Kids(Top.object)) \in Nat
         /\ Top.at <= Len(Kids(Top.object)) =>
              /\ Top.at \in DOMAIN Kids(Top.object)
              /\ Kids(Top.object)[Top.at] \in Reachable
              /\ Kids(Top.object)[Top.at] \in Object
  <1>1. Len(frames) \in Nat \ {0} /\ DOMAIN frames = 1..Len(frames)
    BY EmptySeq, LenProperties DEF Inv, Types
  <1>2. Len(frames) \in DOMAIN frames /\ Top \in Frame
    BY <1>1, ElementOfSeq DEF Inv, Types, Top
  <1>3. /\ Top.at \in Nat \ {0}
        /\ Top.object \in marked /\ Top.object \in Object /\ Top.object \in Reachable
        /\ Top.nextObject # 0 => Top.nextObject \in marked
    BY <1>2 DEF Inv, MarkInv, Frame, Top
  <1>4. Kids(Top.object) \in Seq(Object)
    BY <1>3 DEF Inv, Types, IsHeap, Object, Kids
  <1>5. Len(Kids(Top.object)) \in Nat
        /\ DOMAIN Kids(Top.object) = 1..Len(Kids(Top.object))
    BY <1>4, LenProperties
  <1>6. ASSUME Top.at <= Len(Kids(Top.object))
        PROVE  /\ Top.at \in DOMAIN Kids(Top.object)
               /\ Kids(Top.object)[Top.at] \in Reachable
               /\ Kids(Top.object)[Top.at] \in Object
    <2>1. Top.at \in DOMAIN Kids(Top.object)
      BY <1>6, <1>3, <1>5
    <2>2. Kids(Top.object)[Top.at] \in Reachable
      BY <2>1, <1>3, ReachableClosed DEF Inv, Types
    <2> QED
      BY <2>1, <2>2 DEF Reachable
  <1> QED
    BY <1>1, <1>2, <1>3, <1>4, <1>5, <1>6

\* The effect of TopBecomes.
LEMMA TopReplaced ==
  ASSUME Inv, frames # << >>, NEW v \in Frame, frames' = TopBecomes(v)
  PROVE  /\ frames' \in Seq(Frame) /\ frames' # << >>
         /\ DOMAIN frames' = DOMAIN frames
         /\ Len(frames) \in DOMAIN frames' /\ frames'[Len(frames)] = v
         /\ \A k \in DOMAIN frames \ {Len(frames)} :
              k \in DOMAIN frames' /\ frames'[k] = frames[k]
  BY LastReplaced DEF Inv, Types, TopBecomes

\* Nothing that depends on the heap alone changes.
LEMMA HeapKept ==
  ASSUME heap' = heap
  PROVE  /\ Object' = Object /\ Reachable' = Reachable /\ Frame' = Frame
         /\ \A o : Kids(o)' = Kids(o)
         /\ IsHeap(heap) => IsHeap(heap)'
  BY DEF Object, Reachable, Closed, Kids, Frame, IsHeap

\* What was passed on stays so.
LEMMA PassedKept ==
  ASSUME heap' = heap, marked \subseteq marked', NEW o, NEW at
  PROVE  Passed(o, at) => Passed(o, at)'
  BY DEF Passed, Kids

\* A leaf has nothing to pass on.
LEMMA LeafKnown ==
  ASSUME Inv, heap' = heap, NEW o \in Object, NEW l \in heap.leaves[o]
  PROVE  l \in Object /\ Known(l)'
  <1>1. l \in Object /\ heap.kids[l] = << >> /\ heap.leaves[l] = {}
    BY DEF Inv, Types, IsHeap, Object
  <1>2. Passed(l, Len(Kids(l)) + 1)'
    BY <1>1 DEF Passed, Kids
  <1> QED
    BY <1>1, <1>2 DEF Known

\* Who is visited has been passed up to its first child.
LEMMA VisitedPassed ==
  ASSUME Inv, heap' = heap, NEW o \in Object, heap.leaves[o] \subseteq marked'
  PROVE  Visiting(o) \in Frame /\ Visiting(o).object = o
         /\ Visiting(o).nextObject = 0 /\ Passed(o, Visiting(o).at)'
  <1>1. Kids(o) \in Seq(Object)
    BY DEF Inv, Types, IsHeap, Object, Kids
  <1>2. \A i \in DOMAIN Kids(o) : ~(i < 1)
    BY <1>1, LenProperties
  <1>3. Passed(o, 1)'
    BY <1>2, HeapKept DEF Passed
  <1> QED
    BY <1>3 DEF Visiting, Frame

\* While the scanner stands, an object known stays known if those known by the
\* top activation and by the queue do.
LEMMA KnownKept ==
  ASSUME Inv, heap' = heap, marked \subseteq marked', scanner' = scanner,
         overflow => overflow', frames # << >>,
         \A k \in DOMAIN frames \ {Len(frames)} :
           k \in DOMAIN frames' /\ frames'[k] = frames[k],
         \A d \in marked : (\E i \in DOMAIN deferred : deferred[i] = d) => Known(d)',
         \A d \in marked : d = Top.nextObject => Known(d)',
         \A d \in marked : d = Top.object /\ Passed(d, Top.at) => Known(d)',
         NEW o \in marked, Known(o)
  PROVE  Known(o)'
  <1>1. CASE Passed(o, Len(Kids(o)) + 1)
    <2>1. Passed(o, Len(Kids(o)) + 1)'
      BY <1>1, PassedKept, HeapKept
    <2> QED
      BY <2>1, HeapKept DEF Known
  <1>2. CASE o > scanner
    BY <1>2 DEF Known
  <1>3. CASE overflow
    BY <1>3 DEF Known
  <1>4. CASE \E i \in DOMAIN deferred : deferred[i] = o
    BY <1>4
  <1>5. ASSUME NEW k \in DOMAIN frames, frames[k].nextObject = o
        PROVE  Known(o)'
    BY <1>5 DEF Known, Top
  <1>6. ASSUME NEW k \in DOMAIN frames, frames[k].object = o /\ Passed(o, frames[k].at)
        PROVE  Known(o)'
    <2>1. CASE k = Len(frames)
      BY <2>1, <1>6 DEF Top
    <2>2. CASE k # Len(frames)
      <3>1. frames'[k] = frames[k] /\ k \in DOMAIN frames'
        BY <2>2
      <3>2. Passed(o, frames[k].at) => \E at : at = frames[k].at /\ Passed(o, at)'
        BY PassedKept
      <3> QED
        BY <3>1, <3>2, <1>6 DEF Known
    <2> QED
      BY <2>1, <2>2
  <1> QED
    BY <1>1, <1>2, <1>3, <1>4, <1>5, <1>6 DEF Known

-----------------------------------------------------------------------------
(***************************************************************************)
(* The steps.  Each lemma shows that every marked object is still known;   *)
(* the rest of the invariant follows from the action's own effect.         *)
(***************************************************************************)
LEMMA InitInv == CollectorInit => Inv
  <1> SUFFICES ASSUME CollectorInit PROVE Inv
    OBVIOUS
  <1> USE DEF CollectorInit, MarkInit
  <1>1. heap \in Heaps /\ IsHeap(heap)
    BY MarkingAssumption
  <1>2. heap.n \in Nat /\ heap.roots \in SUBSET Object
    BY <1>1 DEF IsHeap, Object
  <1>3. Types
    <2>1. << >> \in Seq(Frame) /\ << >> \in Seq(Object) /\ 1 \in 1..(heap.n + 1)
      BY <1>2
    <2> QED
      BY <1>1, <1>2, <2>1 DEF Types
  <1>4. \A o \in marked : Known(o)
    BY <1>2 DEF Known, Object
  <1>5. MarkInv
    BY <1>1, <1>4, RootsReachable, EmptySeq DEF MarkInv
  <1> QED
    BY <1>3, <1>5 DEF Inv

LEMMA ScanStep == ASSUME Inv, Scan PROVE Inv'
  <1>1. heap' = heap /\ phase' = phase /\ phase = "mark" /\ frames = << >>
        /\ deferred' = deferred /\ deferred = << >> /\ overflow' = overflow
        /\ heap.n \in Nat /\ scanner \in Object /\ scanner \in Nat
    BY DEF Scan, Inv, Types, MarkInv, IsHeap, Object
  <1>2. \A o \in marked : Known(o)
    BY <1>1 DEF Inv, MarkInv
  <1>3. CASE scanner \in marked
    <2>1. /\ frames' = <<Visiting(scanner)>> /\ scanner' = scanner
          /\ marked' = marked \cup heap.leaves[scanner]
      BY <1>3 DEF Scan, Comes
    <2>2. scanner \in Reachable /\ heap.leaves[scanner] \subseteq Reachable
      BY <1>3, ReachableClosed DEF Inv, MarkInv, Types
    <2>3. /\ Visiting(scanner) \in Frame /\ Visiting(scanner).object = scanner
          /\ Visiting(scanner).nextObject = 0 /\ Passed(scanner, Visiting(scanner).at)'
      BY <1>1, <2>1, VisitedPassed
    <2>4. frames' \in Seq(Frame) /\ DOMAIN frames' = {1} /\ frames'[1] = Visiting(scanner)
      BY <2>1, <2>3
    <2>5. Types'
      BY <1>1, <2>1, <2>2, <2>4, HeapKept DEF Inv, Types, Reachable
    <2>6. ASSUME NEW o \in marked' PROVE Known(o)'
      <3>1. CASE o \in heap.leaves[scanner]
        BY <3>1, <1>1, LeafKnown
      <3>2. CASE o = scanner
        <4>1. Passed(o, 1)'
          BY <3>2, <2>3, <2>1, <1>1 DEF Visiting, Passed, Kids
        <4> QED
          BY <4>1, <3>2, <2>4, <2>3, <1>1, HeapKept DEF Known, Visiting, Passed
      <3>3. CASE o \in marked /\ Passed(o, Len(Kids(o)) + 1)
        <4>1. Passed(o, Len(Kids(o)) + 1)'
          BY <3>3, <1>1, <2>1, PassedKept, HeapKept
        <4> QED
          BY <4>1, <1>1, HeapKept DEF Known
      <3>4. CASE o \in marked /\ o # scanner /\ ~Passed(o, Len(Kids(o)) + 1)
        <4>1. o > scanner \/ overflow
          BY <3>4, <1>1, <1>2 DEF Known
        <4> QED
          BY <4>1, <1>1, <2>1 DEF Known
      <3> QED
        BY <2>1, <3>1, <3>2, <3>3, <3>4
    <2>7. MarkInv'
      BY <1>1, <1>3, <2>1, <2>2, <2>3, <2>4, <2>6, HeapKept DEF Inv, MarkInv
    <2> QED
      BY <2>5, <2>7 DEF Inv
  <1>4. CASE scanner \notin marked
    <2>1. scanner' = scanner + 1 /\ marked' = marked /\ frames' = frames
      BY <1>4 DEF Scan
    <2>2. Types'
      BY <1>1, <2>1, HeapKept DEF Inv, Types, Object
    <2>3. ASSUME NEW o \in marked' PROVE Known(o)'
      <3>1. o \in Nat /\ o # scanner
        BY <2>1, <1>4, <1>1 DEF Inv, Types, Object
      <3>2. CASE Passed(o, Len(Kids(o)) + 1)
        <4>1. Passed(o, Len(Kids(o)) + 1)'
          BY <3>2, <1>1, <2>1, PassedKept, HeapKept
        <4> QED
          BY <4>1, <1>1, HeapKept DEF Known
      <3>3. CASE ~Passed(o, Len(Kids(o)) + 1)
        <4>1. o > scanner \/ overflow
          BY <3>3, <3>1, <2>1, <1>1, <1>2 DEF Known
        <4>2. o > scanner => o > scanner' \/ o = scanner'
          BY <3>1, <1>1, <2>1
        <4> QED
          BY <4>1, <4>2, <1>1, <2>1 DEF Known
      <3> QED
        BY <3>2, <3>3
    <2>4. MarkInv'
      BY <1>1, <2>1, <2>3, HeapKept DEF Inv, MarkInv
    <2> QED
      BY <2>2, <2>4 DEF Inv
  <1> QED
    BY <1>3, <1>4

\* The rest of the invariant, when the frames stay a stack of marked objects.
LEMMA Rest ==
  ASSUME Inv, heap' = heap, phase' = phase, phase = "mark",
         scanner' = scanner, frames # << >>,
         marked \subseteq marked', marked' \subseteq Reachable,
         frames' \in Seq(Frame), frames' # << >>, deferred' \in Seq(Object),
         overflow' \in BOOLEAN,
         \A k \in DOMAIN frames' : /\ frames'[k].object \in marked'
                                   /\ frames'[k].nextObject # 0 =>
                                        frames'[k].nextObject \in marked',
         \A i \in DOMAIN deferred' : deferred'[i] \in marked',
         \A o \in marked' : Known(o)'
  PROVE  Inv'
  <1>1. marked' \in SUBSET Object
    BY DEF Reachable
  <1>2. Types'
    BY <1>1, HeapKept DEF Inv, Types
  <1>3. MarkInv'
    BY HeapKept DEF Inv, MarkInv
  <1> QED
    BY <1>2, <1>3 DEF Inv

\* A frame with the next child, and perhaps another choice.
LEMMA NextChild ==
  ASSUME NEW f \in Frame, NEW c \in Object, f.at \in Nat
  PROVE  /\ Past(f) \in Frame /\ Past(f).object = f.object
         /\ Past(f).nextObject = f.nextObject /\ Past(f).at = f.at + 1
         /\ LET g == [Past(f) EXCEPT !.nextObject = c] IN
              g \in Frame /\ g.object = f.object /\ g.nextObject = c
              /\ g.at = f.at + 1
  <1>1. f.at + 1 \in Nat \ {0} /\ c \in Object \cup {0}
    OBVIOUS
  <1>2. f = [object |-> f.object, at |-> f.at, nextObject |-> f.nextObject]
        /\ f.object \in Object /\ f.nextObject \in Object \cup {0}
    BY DEF Frame
  <1>3. Past(f) = [object |-> f.object, at |-> f.at + 1, nextObject |-> f.nextObject]
    BY <1>2 DEF Past
  <1>4. [Past(f) EXCEPT !.nextObject = c] =
          [object |-> f.object, at |-> f.at + 1, nextObject |-> c]
    BY <1>3
  <1> QED
    BY <1>1, <1>2, <1>3, <1>4 DEF Frame

\* One more child is marked.
LEMMA PassedNext ==
  ASSUME heap' = heap, marked \subseteq marked', NEW o, NEW at \in Nat,
         DOMAIN Kids(o) \subseteq Nat, Kids(o)[at] \in marked', Passed(o, at)
  PROVE  Passed(o, at + 1)'
  <1>1. \A i \in DOMAIN Kids(o) : i < at + 1 => i < at \/ i = at
    OBVIOUS
  <1> QED
    BY <1>1, HeapKept DEF Passed

\* The next child of the top activation is marked and the activation goes past
\* it, whatever it chooses: what the queue and the frames knew is still known.
LEMMA ChildMarked ==
  ASSUME Inv, frames # << >>, Top.at <= Len(Kids(Top.object)),
         heap' = heap, phase' = phase, scanner' = scanner,
         NEW g \in Frame, g.object = Top.object, g.at = Top.at + 1,
         NEW n \in Nat, n = Len(frames), n \in DOMAIN frames', frames'[n] = g,
         \A k \in DOMAIN frames \ {n} : k \in DOMAIN frames' /\ frames'[k] = frames[k],
         marked \subseteq marked', Kids(Top.object)[Top.at] \in marked',
         overflow => overflow', deferred' \in Seq(Object),
         \A i \in DOMAIN deferred : i \in DOMAIN deferred' /\ deferred'[i] = deferred[i],
         \A d \in marked : d = Top.nextObject => Known(d)',
         NEW o \in marked
  PROVE  Known(o)'
  <1>1. phase = "mark" /\ Known(o)
    BY DEF Inv, MarkInv
  <1>2. \A d \in marked : (\E i \in DOMAIN deferred : deferred[i] = d) => Known(d)'
    BY DEF Known
  <1>3. \A d \in marked : d = Top.object /\ Passed(d, Top.at) => Known(d)'
    <2> SUFFICES ASSUME NEW d \in marked, d = Top.object, Passed(d, Top.at)
                 PROVE  Known(d)'
      OBVIOUS
    <2>1. PICK at \in Nat : at = Top.at
      BY TopFacts
    <2>2. Passed(d, at + 1)'
      <3>1. DOMAIN Kids(d) \subseteq Nat /\ Kids(d)[at] \in marked' /\ Passed(d, at)
        BY <2>1, TopFacts
      <3> QED
        BY <3>1, PassedNext
    <2>3. frames'[n].object = d /\ frames'[n].at = at + 1
      BY <2>1
    <2> QED
      BY <2>2, <2>3, HeapKept DEF Known, Passed
  <1> QED
    BY <1>1, <1>2, <1>3, KnownKept

\* A child that the scanner has yet to meet.
LEMMA AheadKnown ==
  ASSUME Inv, frames # << >>, scanner' = scanner, NEW c \in Object,
         c \notin marked, c >= scanner
  PROVE  Known(c)'
  <1>1. c \in Nat /\ scanner \in Nat /\ scanner # c
    BY DEF Inv, MarkInv, Types, Object
  <1> QED
    BY <1>1 DEF Known

LEMMA MarkOnlyStep == ASSUME Inv, MarkOnly PROVE Inv'
  <1> DEFINE c == Kids(Top.object)[Top.at]
  <1>1. /\ frames # << >> /\ Top.at <= Len(Kids(Top.object))
        /\ c \in marked \/ c >= scanner
        /\ marked' = marked \cup {c} /\ frames' = TopBecomes(Past(Top))
        /\ heap' = heap /\ phase' = phase /\ scanner' = scanner
        /\ deferred' = deferred /\ overflow' = overflow
    BY DEF MarkOnly
  <1>2. PICK n \in Nat : n = Len(frames) /\ n \in DOMAIN frames
    BY <1>1, TopFacts
  <1>3. PICK g \in Frame : g = Past(Top) /\ g.object = Top.object /\ g.at = Top.at + 1
                           /\ g.nextObject = Top.nextObject
    BY <1>1, TopFacts, NextChild
  <1>4. /\ frames' \in Seq(Frame) /\ frames' # << >> /\ DOMAIN frames' = DOMAIN frames
        /\ n \in DOMAIN frames' /\ frames'[n] = g
        /\ \A k \in DOMAIN frames \ {n} : k \in DOMAIN frames' /\ frames'[k] = frames[k]
    BY <1>1, <1>2, <1>3, TopReplaced
  <1>5. phase = "mark" /\ deferred \in Seq(Object) /\ c \in Reachable /\ c \in Object
    BY <1>1, TopFacts DEF Inv, MarkInv, Types
  <1>6. \A d \in marked : d = Top.nextObject => Known(d)'
    BY <1>3, <1>4 DEF Known
  <1>7. ASSUME NEW o \in marked' PROVE Known(o)'
    <2>1. CASE o \in marked
      BY <2>1, <1>1, <1>2, <1>3, <1>4, <1>5, <1>6, ChildMarked
    <2>2. CASE o \notin marked
      BY <2>2, <1>1, <1>5, AheadKnown
    <2> QED
      BY <2>1, <2>2
  <1>8. \A k \in DOMAIN frames' : /\ frames'[k].object \in marked'
                                  /\ frames'[k].nextObject # 0 =>
                                       frames'[k].nextObject \in marked'
    BY <1>1, <1>3, <1>4, TopFacts DEF Inv, MarkInv
  <1> QED
    BY <1>1, <1>4, <1>5, <1>7, <1>8, Rest DEF Inv, Types, MarkInv

LEMMA MarkAndChooseStep == ASSUME Inv, MarkAndChoose PROVE Inv'
  <1> DEFINE c == Kids(Top.object)[Top.at]
  <1>1. /\ frames # << >> /\ Top.at <= Len(Kids(Top.object))
        /\ Top.nextObject = 0 /\ marked' = marked \cup {c}
        /\ frames' = TopBecomes([Past(Top) EXCEPT !.nextObject = c])
        /\ heap' = heap /\ phase' = phase /\ scanner' = scanner
        /\ deferred' = deferred /\ overflow' = overflow
    BY DEF MarkAndChoose
  <1>2. PICK n \in Nat : n = Len(frames) /\ n \in DOMAIN frames
    BY <1>1, TopFacts
  <1>3. phase = "mark" /\ deferred \in Seq(Object) /\ c \in Reachable /\ c \in Object
    BY <1>1, TopFacts DEF Inv, MarkInv, Types
  <1>4. PICK g \in Frame : /\ g = [Past(Top) EXCEPT !.nextObject = c]
                           /\ g.object = Top.object /\ g.at = Top.at + 1
                           /\ g.nextObject = c
    <2>1. Top \in Frame /\ Top.at \in Nat
      BY <1>1, TopFacts
    <2> HIDE DEF c
    <2> QED
      BY <2>1, <1>3, NextChild
  <1>5. /\ frames' \in Seq(Frame) /\ frames' # << >> /\ DOMAIN frames' = DOMAIN frames
        /\ n \in DOMAIN frames' /\ frames'[n] = g
        /\ \A k \in DOMAIN frames \ {n} : k \in DOMAIN frames' /\ frames'[k] = frames[k]
    BY <1>1, <1>2, <1>4, TopReplaced
  <1>6. \A d \in marked : d = Top.nextObject => Known(d)'
    BY <1>1 DEF Inv, Types, Object
  <1>7. ASSUME NEW o \in marked' PROVE Known(o)'
    <2>1. CASE o \in marked
      BY <2>1, <1>1, <1>2, <1>3, <1>4, <1>5, <1>6, ChildMarked
    <2>2. CASE o \notin marked
      BY <2>2, <1>1, <1>4, <1>5 DEF Known
    <2> QED
      BY <2>1, <2>2
  <1>8. \A k \in DOMAIN frames' : /\ frames'[k].object \in marked'
                                  /\ frames'[k].nextObject # 0 =>
                                       frames'[k].nextObject \in marked'
    BY <1>1, <1>4, <1>5, TopFacts DEF Inv, MarkInv
  <1> QED
    BY <1>1, <1>3, <1>5, <1>7, <1>8, Rest DEF Inv, Types, MarkInv

LEMMA MarkAndRecurseStep == ASSUME Inv, MarkAndRecurse PROVE Inv'
  <1> DEFINE c == Kids(Top.object)[Top.at]
  <1>1. /\ frames # << >> /\ Top.at <= Len(Kids(Top.object))
        /\ Top.nextObject # 0
        /\ heap' = heap /\ phase' = phase /\ scanner' = scanner
    BY DEF MarkAndRecurse
  <1>2. PICK n \in Nat : n = Len(frames) /\ n \in DOMAIN frames
                         /\ DOMAIN frames = 1..n
    BY <1>1, TopFacts
  <1>3. phase = "mark" /\ deferred \in Seq(Object) /\ overflow \in BOOLEAN
        /\ c \in Reachable /\ c \in Object
    BY <1>1, TopFacts DEF Inv, MarkInv, Types
  <1>4. PICK g \in Frame : /\ g = [Past(Top) EXCEPT !.nextObject = c]
                           /\ g.object = Top.object /\ g.at = Top.at + 1
                           /\ g.nextObject = c
    <2>1. Top \in Frame /\ Top.at \in Nat
      BY <1>1, TopFacts
    <2> HIDE DEF c
    <2> QED
      BY <2>1, <1>3, NextChild
  <1>5. PICK x \in Object : x = Top.nextObject /\ x \in marked /\ x \in Reachable
    BY <1>1, TopFacts DEF Inv, MarkInv, Types
  <1> DEFINE top == TopBecomes(g)
  <1>6. /\ top \in Seq(Frame) /\ top # << >> /\ Len(top) = n
        /\ DOMAIN top = DOMAIN frames /\ top[n] = g
        /\ \A k \in DOMAIN frames \ {n} : top[k] = frames[k]
    BY <1>1, <1>2, LastReplaced DEF TopBecomes, Inv, Types
  <1>7. \A k \in DOMAIN top : /\ top[k].object \in marked
                              /\ top[k].nextObject # 0 =>
                                   top[k].nextObject \in marked \cup {c}
    BY <1>1, <1>2, <1>4, <1>6, TopFacts DEF Inv, MarkInv
  <1>8. CASE Len(frames) <= MAX_GC_DEPTH
    <2>1. /\ frames' = Append(top, Visiting(x))
          /\ marked' = marked \cup {c} \cup heap.leaves[x]
          /\ deferred' = deferred /\ overflow' = overflow
      BY <1>8, <1>4, <1>5 DEF MarkAndRecurse
    <2>2. /\ Visiting(x) \in Frame /\ Visiting(x).object = x
          /\ Visiting(x).nextObject = 0 /\ Passed(x, Visiting(x).at)'
      BY <1>1, <2>1, VisitedPassed
    <2>3. /\ frames' \in Seq(Frame) /\ frames' # << >> /\ DOMAIN frames' = 1..(n + 1)
          /\ n + 1 \in DOMAIN frames' /\ frames'[n + 1] = Visiting(x)
          /\ \A k \in 1..n : k \in DOMAIN frames' /\ frames'[k] = top[k]
      <3> HIDE DEF top
      <3> QED
        BY <2>1, <2>2, <1>6, OneMore
    <2>4. Known(x)'
      BY <2>2, <2>3, HeapKept DEF Known, Visiting
    <2>5. n \in DOMAIN frames' /\ frames'[n] = g
          /\ \A k \in DOMAIN frames \ {n} : k \in DOMAIN frames' /\ frames'[k] = frames[k]
      BY <2>3, <1>2, <1>6
    <2>6. heap.leaves[x] \subseteq Reachable
      BY <1>5, ReachableClosed DEF Inv, Types
    <2>7. ASSUME NEW o \in marked' PROVE Known(o)'
      <3>1. CASE o \in marked
        <4>1. \A d \in marked : d = Top.nextObject => Known(d)'
          BY <2>4, <1>5
        <4> HIDE DEF c
        <4>2. marked \subseteq marked' /\ c \in marked'
          BY <2>1
        <4> QED
          BY <3>1, <1>1, <1>2, <1>3, <1>4, <2>1, <2>5, <4>1, <4>2, ChildMarked DEF c
      <3>2. CASE o = c
        BY <3>2, <2>5, <1>4 DEF Known
      <3>3. CASE o \in heap.leaves[x]
        BY <3>3, <1>1, LeafKnown
      <3> QED
        BY <2>1, <3>1, <3>2, <3>3
    <2>8. ASSUME NEW k \in DOMAIN frames'
          PROVE  /\ frames'[k].object \in marked'
                 /\ frames'[k].nextObject # 0 => frames'[k].nextObject \in marked'
      <3>1. k \in 1..n \/ k = n + 1
        BY <2>3
      <3> HIDE DEF top, c
      <3> QED
        BY <3>1, <1>2, <1>5, <1>6, <1>7, <2>1, <2>2, <2>3
    <2>9. marked \subseteq marked' /\ marked' \subseteq Reachable
      BY <1>3, <2>1, <2>6 DEF Inv, MarkInv
    <2> QED
      BY <1>1, <1>3, <2>1, <2>3, <2>7, <2>8, <2>9, Rest DEF Inv, MarkInv
  <1>9. CASE ~(Len(frames) <= MAX_GC_DEPTH)
    <2>1. frames' = top /\ marked' = marked \cup {c} /\ PutDeferred(x)
      BY <1>9, <1>4, <1>5 DEF MarkAndRecurse
    <2>2. /\ deferred' \in Seq(Object) /\ overflow' \in BOOLEAN
          /\ overflow => overflow'
          /\ \A i \in DOMAIN deferred : i \in DOMAIN deferred' /\ deferred'[i] = deferred[i]
          /\ \A i \in DOMAIN deferred' : deferred'[i] = x \/ i \in DOMAIN deferred
          /\ overflow' \/ \E i \in DOMAIN deferred' : deferred'[i] = x
      <3>1. CASE Len(deferred) < DEFERRED_OBJECT_TABLE_SIZE
        <4>1. deferred' = Append(deferred, x) /\ overflow' = overflow
          BY <3>1, <2>1 DEF PutDeferred
        <4>2. DOMAIN deferred = 1..Len(deferred) /\ Len(deferred) \in Nat
          BY <1>3, LenProperties
        <4>3. /\ deferred' \in Seq(Object) /\ DOMAIN deferred' = 1..(Len(deferred) + 1)
              /\ deferred'[Len(deferred) + 1] = x /\ Len(deferred) + 1 \in DOMAIN deferred'
              /\ \A k \in 1..Len(deferred) : k \in DOMAIN deferred'
                                             /\ deferred'[k] = deferred[k]
          BY <4>1, <1>3, OneMore
        <4>4. \A i \in DOMAIN deferred' : i = Len(deferred) + 1 \/ i \in DOMAIN deferred
          BY <4>2, <4>3
        <4> QED
          BY <4>1, <4>2, <4>3, <4>4, <1>3
      <3>2. CASE ~(Len(deferred) < DEFERRED_OBJECT_TABLE_SIZE)
        BY <3>2, <2>1, <1>3 DEF PutDeferred
      <3> QED
        BY <3>1, <3>2
    <2>3. \A d \in marked : d = Top.nextObject => Known(d)'
      BY <1>5, <2>2 DEF Known
    <2>4. ASSUME NEW o \in marked' PROVE Known(o)'
      <3>1. CASE o \in marked
        <4>1. n \in DOMAIN frames' /\ frames'[n] = g
              /\ \A k \in DOMAIN frames \ {n} : k \in DOMAIN frames' /\ frames'[k] = frames[k]
          BY <2>1, <1>2, <1>6
        <4> HIDE DEF c, top
        <4>2. marked \subseteq marked' /\ c \in marked'
          BY <2>1
        <4> QED
          BY <3>1, <1>1, <1>2, <1>3, <1>4, <2>2, <2>3, <4>1, <4>2, ChildMarked DEF c
      <3>2. CASE o = c
        <4>1. n \in DOMAIN frames' /\ frames'[n].nextObject = c
          BY <2>1, <1>2, <1>4, <1>6
        <4> HIDE DEF c
        <4> QED
          BY <3>2, <4>1 DEF Known
      <3> QED
        BY <2>1, <3>1, <3>2
    <2>5. \A i \in DOMAIN deferred' : deferred'[i] \in marked'
      BY <2>1, <2>2, <1>5 DEF Inv, MarkInv
    <2>6. marked \subseteq marked' /\ marked' \subseteq Reachable
      BY <1>3, <2>1 DEF Inv, MarkInv
    <2>7. \A k \in DOMAIN frames' : /\ frames'[k].object \in marked'
                                    /\ frames'[k].nextObject # 0 =>
                                         frames'[k].nextObject \in marked'
      BY <1>7, <2>1
    <2> QED
      BY <1>1, <1>3, <1>6, <2>1, <2>2, <2>4, <2>5, <2>6, <2>7, Rest
  <1> QED
    BY <1>8, <1>9

\* The top activation has followed its object and goes on with x.
LEMMA ComesTo ==
  ASSUME Inv, frames # << >>, Top.at > Len(Kids(Top.object)),
         heap' = heap, phase' = phase, scanner' = scanner, overflow' = overflow,
         NEW x \in marked, frames' = TopBecomes(Visiting(x)),
         marked' = marked \cup heap.leaves[x],
         deferred' \in Seq(Object), \A i \in DOMAIN deferred' : deferred'[i] \in marked,
         \A d \in marked : (\E i \in DOMAIN deferred : deferred[i] = d)
                             => d = x \/ (\E i \in DOMAIN deferred' : deferred'[i] = d),
         Top.nextObject # 0 => Top.nextObject = x
  PROVE  Inv'
  <1>1. PICK n \in Nat : n = Len(frames) /\ n \in DOMAIN frames
    BY TopFacts
  <1>2. phase = "mark" /\ overflow \in BOOLEAN /\ x \in Object /\ x \in Reachable
        /\ heap.leaves[x] \subseteq Reachable /\ 0 \notin marked
    BY ReachableClosed DEF Inv, MarkInv, Types, Object
  <1>3. /\ Visiting(x) \in Frame /\ Visiting(x).object = x
        /\ Visiting(x).nextObject = 0 /\ Passed(x, Visiting(x).at)'
    BY <1>2, VisitedPassed
  <1>4. /\ frames' \in Seq(Frame) /\ frames' # << >> /\ DOMAIN frames' = DOMAIN frames
        /\ n \in DOMAIN frames' /\ frames'[n] = Visiting(x)
        /\ \A k \in DOMAIN frames \ {n} : k \in DOMAIN frames' /\ frames'[k] = frames[k]
    BY <1>1, <1>3, TopReplaced
  <1>5. Known(x)'
    BY <1>3, <1>4, HeapKept DEF Known, Visiting
  <1>6. \A d \in marked : (\E i \in DOMAIN deferred : deferred[i] = d) => Known(d)'
    BY <1>5 DEF Known
  <1>7. \A d \in marked : d = Top.nextObject => Known(d)'
    BY <1>5, <1>2
  <1>8. \A d \in marked : d = Top.object /\ Passed(d, Top.at) => Known(d)'
    <2> SUFFICES ASSUME NEW d \in marked, d = Top.object, Passed(d, Top.at)
                 PROVE  Known(d)'
      OBVIOUS
    <2>1. Passed(d, Len(Kids(d)) + 1)
      BY TopFacts DEF Passed
    <2>2. Passed(d, Len(Kids(d)) + 1)'
      BY <2>1, PassedKept, HeapKept
    <2> QED
      BY <2>2, HeapKept DEF Known
  <1>9. ASSUME NEW o \in marked' PROVE Known(o)'
    <2>1. CASE o \in heap.leaves[x]
      BY <2>1, <1>2, LeafKnown
    <2>2. CASE o \in marked
      <3>1. Known(o)
        BY <2>2, <1>2 DEF Inv, MarkInv
      <3> QED
        BY <2>2, <3>1, <1>1, <1>4, <1>6, <1>7, <1>8, KnownKept
    <2> QED
      BY <2>1, <2>2
  <1>10. \A k \in DOMAIN frames' : /\ frames'[k].object \in marked'
                                   /\ frames'[k].nextObject # 0 =>
                                        frames'[k].nextObject \in marked'
    BY <1>3, <1>4 DEF Inv, MarkInv
  <1>11. marked \subseteq marked' /\ marked' \subseteq Reachable
    BY <1>2 DEF Inv, MarkInv
  <1> QED
    BY <1>2, <1>4, <1>9, <1>10, <1>11, Rest

LEMMA IterateStep == ASSUME Inv, Iterate PROVE Inv'
  <1>1. frames # << >> /\ Top.nextObject # 0
    BY DEF Iterate
  <1>2. PICK x \in marked : x = Top.nextObject
    BY <1>1, TopFacts
  <1>3. /\ Top.at > Len(Kids(Top.object)) /\ frames' = TopBecomes(Visiting(x))
        /\ marked' = marked \cup heap.leaves[x]
        /\ heap' = heap /\ phase' = phase /\ scanner' = scanner
        /\ deferred' = deferred /\ overflow' = overflow
    BY <1>2 DEF Iterate, Comes
  <1> QED
    BY <1>1, <1>2, <1>3, ComesTo DEF Inv, MarkInv, Types

LEMMA GetDeferredStep == ASSUME Inv, GetDeferred PROVE Inv'
  <1>1. deferred # << >> /\ deferred \in Seq(Object) /\ frames # << >>
        /\ \A i \in DOMAIN deferred : deferred[i] \in marked
    BY EmptySeq DEF GetDeferred, Inv, Types, MarkInv
  <1>2. /\ Len(deferred) \in Nat \ {0} /\ DOMAIN deferred = 1..Len(deferred)
        /\ Head(deferred) = deferred[1] /\ Tail(deferred) \in Seq(Object)
        /\ Len(Tail(deferred)) = Len(deferred) - 1
        /\ DOMAIN Tail(deferred) = 1..(Len(deferred) - 1)
        /\ \A i \in 1..(Len(deferred) - 1) : Tail(deferred)[i] = deferred[i + 1]
    BY <1>1, HeadTailProperties, EmptySeq, LenProperties
  <1>3. PICK x \in marked : x = Head(deferred)
    BY <1>1, <1>2
  <1>4. /\ Top.at > Len(Kids(Top.object)) /\ Top.nextObject = 0
        /\ frames' = TopBecomes(Visiting(x)) /\ deferred' = Tail(deferred)
        /\ marked' = marked \cup heap.leaves[x]
        /\ heap' = heap /\ phase' = phase /\ scanner' = scanner
        /\ overflow' = overflow
    BY <1>3 DEF GetDeferred, Comes
  <1>5. \A i \in DOMAIN deferred' : deferred'[i] \in marked
    <2>1. \A i \in 1..(Len(deferred) - 1) : i + 1 \in DOMAIN deferred
      BY <1>2
    <2> QED
      BY <2>1, <1>1, <1>2, <1>4
  <1>6. ASSUME NEW d \in marked, NEW i \in DOMAIN deferred, deferred[i] = d
        PROVE  d = x \/ (\E j \in DOMAIN deferred' : deferred'[j] = d)
    <2>1. CASE i = 1
      BY <2>1, <1>2, <1>3, <1>6
    <2>2. CASE i # 1
      <3>1. i - 1 \in 1..(Len(deferred) - 1) /\ (i - 1) + 1 = i
        BY <2>2, <1>2
      <3>2. Tail(deferred)[i - 1] = deferred[(i - 1) + 1]
        BY <3>1, <1>2
      <3> QED
        BY <3>1, <3>2, <1>2, <1>4, <1>6
    <2> QED
      BY <2>1, <2>2
  <1> QED
    BY <1>1, <1>2, <1>4, <1>5, <1>6, ComesTo

LEMMA ReturnStep == ASSUME Inv, Return PROVE Inv'
  <1>1. /\ frames # << >> /\ Top.at > Len(Kids(Top.object)) /\ Top.nextObject = 0
        /\ Len(frames) = 1 => deferred = << >>
        /\ frames' = SubSeq(frames, 1, Len(frames) - 1)
        /\ scanner' = IF Len(frames) = 1 THEN scanner + 1 ELSE scanner
        /\ heap' = heap /\ phase' = phase /\ marked' = marked
        /\ deferred' = deferred /\ overflow' = overflow
    BY DEF Return, Below
  <1>2. /\ phase = "mark" /\ scanner \in marked /\ scanner \in Object
        /\ scanner \in Nat /\ 0 \notin marked /\ heap.n \in Nat
    BY <1>1 DEF Inv, MarkInv, Types, IsHeap, Object
  <1>3. /\ frames' \in Seq(Frame) /\ DOMAIN frames' = 1..(Len(frames) - 1)
        /\ DOMAIN frames = 1..Len(frames) /\ Len(frames) \in Nat \ {0}
        /\ \A k \in 1..(Len(frames) - 1) : frames'[k] = frames[k]
        /\ frames' = << >> <=> Len(frames) = 1
    BY <1>1, LastDropped DEF Inv, Types
  <1>4. \A k \in DOMAIN frames' : /\ frames'[k].object \in marked'
                                  /\ frames'[k].nextObject # 0 =>
                                       frames'[k].nextObject \in marked'
    BY <1>1, <1>3 DEF Inv, MarkInv
  <1>5. \A d \in marked : d = Top.object /\ Passed(d, Top.at) => Known(d)'
    <2> SUFFICES ASSUME NEW d \in marked, d = Top.object, Passed(d, Top.at)
                 PROVE  Known(d)'
      OBVIOUS
    <2>1. Passed(d, Len(Kids(d)) + 1)
      BY <1>1, TopFacts DEF Passed
    <2>2. Passed(d, Len(Kids(d)) + 1)'
      BY <2>1, <1>1, PassedKept, HeapKept
    <2> QED
      BY <2>2, <1>1, HeapKept DEF Known
  <1>6. CASE Len(frames) # 1
    <2>1. \A k \in DOMAIN frames \ {Len(frames)} :
            k \in DOMAIN frames' /\ frames'[k] = frames[k]
      BY <1>3
    <2>2. \A d \in marked : (\E i \in DOMAIN deferred : deferred[i] = d) => Known(d)'
      BY <1>1 DEF Known
    <2>3. \A d \in marked : d = Top.nextObject => Known(d)'
      BY <1>1, <1>2
    <2>4. ASSUME NEW o \in marked' PROVE Known(o)'
      <3>1. o \in marked /\ Known(o)
        BY <1>1, <1>2 DEF Inv, MarkInv
      <3>2. scanner' = scanner
        BY <1>1, <1>6
      <3> QED
        BY <3>1, <3>2, <1>1, <2>1, <2>2, <2>3, <1>5, KnownKept
    <2> QED
      BY <1>1, <1>2, <1>3, <1>4, <1>6, <2>4, Rest DEF Inv, MarkInv, Types
  <1>7. CASE Len(frames) = 1
    <2>1. frames' = << >> /\ deferred = << >> /\ scanner' = scanner + 1
      BY <1>1, <1>3, <1>7
    <2>2. ASSUME NEW o \in marked' PROVE Known(o)'
      <3>1. o \in marked /\ Known(o) /\ o \in Nat
        BY <1>1, <1>2 DEF Inv, MarkInv, Types, Object
      <3>2. CASE Passed(o, Len(Kids(o)) + 1)
        <4>1. Passed(o, Len(Kids(o)) + 1)'
          BY <3>2, <1>1, PassedKept, HeapKept
        <4> QED
          BY <4>1, <1>1, HeapKept DEF Known
      <3>3. CASE o > scanner
        <4>1. o > scanner' \/ o = scanner'
          BY <3>1, <3>3, <1>2, <2>1
        <4> QED
          BY <4>1, <2>1 DEF Known
      <3>4. CASE overflow
        BY <3>4, <1>1 DEF Known
      <3>5. CASE \E i \in DOMAIN deferred : deferred[i] = o
        BY <3>5, <2>1, EmptySeq
      <3>6. ASSUME NEW k \in DOMAIN frames,
                   \/ frames[k].nextObject = o
                   \/ frames[k].object = o /\ Passed(o, frames[k].at)
            PROVE  Known(o)'
        <4>1. k = Len(frames)
          BY <1>3, <1>7
        <4> QED
          BY <4>1, <3>1, <3>6, <1>1, <1>2, <1>5 DEF Top
      <3> QED
        BY <3>1, <3>2, <3>3, <3>4, <3>5, <3>6, <1>1 DEF Known
    <2>3. scanner' \in 1..(heap.n + 1)
      BY <1>2, <2>1 DEF Object
    <2>4. Types'
      BY <1>1, <1>3, <2>3, HeapKept DEF Inv, Types
    <2>5. MarkInv'
      BY <1>1, <1>2, <1>4, <2>1, <2>2, HeapKept DEF Inv, MarkInv
    <2> QED
      BY <2>4, <2>5 DEF Inv
  <1> QED
    BY <1>6, <1>7

LEMMA EndPassStep == ASSUME Inv, EndPass PROVE Inv'
  <1>1. /\ phase = "mark" /\ frames = << >> /\ scanner = heap.n + 1
        /\ heap' = heap /\ marked' = marked /\ frames' = frames
        /\ deferred = << >> /\ heap.n \in Nat
    BY DEF EndPass, Inv, MarkInv, Types, IsHeap
  <1>2. CASE overflow
    <2>1. scanner' = 1 /\ deferred' = << >> /\ overflow' = FALSE /\ phase' = phase
      BY <1>2 DEF EndPass
    <2>2. Types'
      <3>1. 1 \in 1..(heap.n + 1) /\ deferred' \in Seq(Object)
        BY <1>1, <2>1
      <3> QED
        BY <3>1, <1>1, <2>1, HeapKept DEF Inv, Types
    <2>3. \A o \in marked' : Known(o)'
      BY <1>1, <2>1 DEF Known, Inv, Types, Object
    <2>4. MarkInv'
      BY <1>1, <2>1, <2>3, HeapKept, EmptySeq DEF Inv, MarkInv
    <2> QED
      BY <2>2, <2>4 DEF Inv
  <1>3. CASE ~overflow
    <2>1. /\ phase' = "weak" /\ scanner' = scanner /\ deferred' = deferred
          /\ overflow' = overflow
      BY <1>3 DEF EndPass
    <2>2. Types'
      BY <1>1, <2>1, HeapKept DEF Inv, Types
    <2>3. Closed(marked)
      <3> SUFFICES ASSUME NEW o \in marked
                   PROVE  /\ heap.leaves[o] \subseteq marked
                          /\ \A i \in DOMAIN Kids(o) : Kids(o)[i] \in marked
        BY DEF Closed
      <3>1. o \in Object /\ ~(o > scanner) /\ o # scanner
        BY <1>1 DEF Inv, Types, Object
      <3>2. Known(o)
        BY <1>1 DEF Inv, MarkInv
      <3>3. Passed(o, Len(Kids(o)) + 1)
        BY <3>1, <3>2, <1>1, <1>3, EmptySeq DEF Known
      <3>4. Kids(o) \in Seq(Object)
        BY <3>1 DEF Inv, Types, IsHeap, Object, Kids
      <3>5. \A i \in DOMAIN Kids(o) : i < Len(Kids(o)) + 1
        BY <3>4, LenProperties
      <3> QED
        BY <3>3, <3>5 DEF Passed
    <2>4. Closed(marked)'
      BY <2>3, <1>1, HeapKept DEF Closed
    <2>5. MarkInv'
      BY <1>1, <2>1, <2>4, HeapKept DEF Inv, MarkInv
    <2> QED
      BY <2>2, <2>5 DEF Inv
  <1> QED
    BY <1>2, <1>3

LEMMA MarkWeakStep == ASSUME Inv, MarkWeak PROVE Inv'
  <1>1. /\ phase = "weak" /\ phase' = "sweep" /\ heap' = heap /\ marked' = marked
        /\ scanner' = scanner /\ frames' = frames /\ deferred' = deferred
        /\ overflow' = overflow /\ frames = << >>
    BY DEF MarkWeak, Inv, MarkInv
  <1>2. Types'
    BY <1>1, HeapKept DEF Inv, Types
  <1>3. Closed(marked)'
    BY <1>1, HeapKept DEF Inv, MarkInv, Closed
  <1>4. MarkInv'
    BY <1>1, <1>3, HeapKept DEF Inv, MarkInv
  <1> QED
    BY <1>2, <1>4 DEF Inv

\* Nothing else touches what marking works with.
LEMMA MarkVarsKept == ASSUME Inv, UNCHANGED markVars PROVE Inv'
  <1>1. /\ heap' = heap /\ phase' = phase /\ marked' = marked /\ scanner' = scanner
        /\ frames' = frames /\ deferred' = deferred /\ overflow' = overflow
    BY DEF markVars
  <1>2. Types'
    BY <1>1, HeapKept DEF Inv, Types
  <1>3. \A o \in marked' : Passed(o, Len(Kids(o)) + 1)' = Passed(o, Len(Kids(o)) + 1)
    BY <1>1, HeapKept DEF Passed
  <1>4. \A o \in marked' : Known(o)' = Known(o)
    BY <1>1, <1>3 DEF Known, Passed, Kids
  <1>5. Closed(marked)' = Closed(marked)
    BY <1>1, HeapKept DEF Closed
  <1>6. MarkInv'
    BY <1>1, <1>4, <1>5, HeapKept DEF Inv, MarkInv
  <1> QED
    BY <1>2, <1>6 DEF Inv

LEMMA NextInv == Inv /\ [CollectorNext]_collectorVars => Inv'
  <1> SUFFICES ASSUME Inv, [CollectorNext]_collectorVars PROVE Inv'
    OBVIOUS
  <1>1. CASE MarkNext
    BY <1>1, ScanStep, MarkOnlyStep, MarkAndChooseStep, MarkAndRecurseStep,
       IterateStep, GetDeferredStep, ReturnStep, EndPassStep, MarkWeakStep
       DEF MarkNext
  <1>2. CASE UNCHANGED markVars
    BY <1>2, MarkVarsKept
  <1>3. MarkNext \/ UNCHANGED markVars
    BY DEF CollectorNext, collectorVars, SweepTheHeap, SkipFirst, MoveFirst, MoveNext,
           SlideBelow, SlideTableAway, SlideSwap, SlideShift, SlideRoll,
           slideUnchanged, BeginSort, SortStep, EndSort, UpdatePointers,
           AllocateFreeChunk, ExpandPermanent
  <1> QED
    BY <1>1, <1>2, <1>3

-----------------------------------------------------------------------------
(***************************************************************************)
(* The result.                                                             *)
(***************************************************************************)
LEMMA InvIsEnough == Inv => MarkedIsReachable
  <1> SUFFICES ASSUME Inv, phase # "mark" PROVE marked = Reachable
    BY DEF MarkedIsReachable
  <1>1. /\ IsHeap(heap) /\ marked \in SUBSET Object /\ heap.roots \subseteq marked
        /\ Closed(marked) /\ marked \subseteq Reachable
    BY DEF Inv, Types, MarkInv
  <1>2. Reachable \subseteq marked
    BY <1>1, ClosedIsAll
  <1> QED
    BY <1>1, <1>2

\* Marking marks what is reachable from the roots and nothing else, whatever
\* the heap, MAX_GC_DEPTH and the size of the queue of deferred objects.
THEOREM LiveObjectsMarked == CollectorSpec => []MarkedIsReachable
  <1>1. Inv /\ [CollectorNext]_collectorVars => Inv'
    BY NextInv
  <1> QED
    BY InitInv, <1>1, InvIsEnough, PTL DEF CollectorSpec

-----------------------------------------------------------------------------
(***************************************************************************)
(* Weak objects.  In a pass, whoever is to be visited is visited once: by  *)
(* the scanner, as the choice of one activation, or from the queue.        *)
(***************************************************************************)
Among(s, o) == \E i \in DOMAIN s : s[i] = o

OnWeakList(o) == Among(weakList, o)
IsDeferred(o) == Among(deferred, o)
IsChosen(o)   == \E k \in DOMAIN frames : frames[k].nextObject = o

NoneTwice(s) == \A i, j \in DOMAIN s : s[i] = s[j] => i = j

\* No two activations have chosen the same object.
ChosenOnce ==
    \A k, l \in DOMAIN frames :
      frames[k].nextObject = frames[l].nextObject => k = l \/ frames[k].nextObject = 0

ListedVisited ==
    /\ weakList \in Seq(Object) /\ NoneTwice(weakList)
    /\ \A o \in Object : OnWeakList(o) =>
         o \in marked /\ (o < scanner \/ (o = scanner /\ frames # << >>))

PendingOnce ==
    /\ ChosenOnce /\ NoneTwice(deferred)
    /\ \A o \in Object : IsChosen(o) => o < scanner /\ ~IsDeferred(o) /\ ~OnWeakList(o)
    /\ \A o \in Object : IsDeferred(o) => o < scanner /\ ~OnWeakList(o)

NoneForgotten ==
    \A o \in marked : IsWeak(o) =>
        \/ OnWeakList(o) \/ IsDeferred(o) \/ IsChosen(o) \/ overflow
        \/ o > scanner \/ (o = scanner /\ frames = << >>)

Cleared ==
    \A o \in marked : \A i \in DOMAIN heap.weak[o] :
      referents[o][i] = IF heap.weak[o][i] \in marked THEN heap.weak[o][i] ELSE 0

WeakInv ==
    /\ ListedVisited /\ PendingOnce /\ NoneForgotten
    /\ phase # "mark" => ~overflow /\ frames = << >> /\ scanner = heap.n + 1
    /\ phase # "sweep" => referents = heap.weak
    /\ phase = "sweep" => Cleared

\* The list when markChildren() comes to an object; to none, when x is 0.
Lists(x) == weakList' = IF x # 0 /\ IsWeak(x) THEN <<x>> \o weakList ELSE weakList

LEMMA ListedMore ==
  ASSUME NEW S, NEW s \in Seq(S), NEW x \in S, NoneTwice(s), ~Among(s, x),
         NEW r, r = <<x>> \o s
  PROVE  /\ r \in Seq(S) /\ NoneTwice(r)
         /\ \A o : Among(r, o) <=> o = x \/ Among(s, o)
  <1>1. /\ r \in Seq(S) /\ Len(r) = Len(s) + 1 /\ r[1] = x /\ Len(s) \in Nat
        /\ DOMAIN r = 1..(Len(s) + 1) /\ DOMAIN s = 1..Len(s)
    OBVIOUS
  <1>2. \A k \in 1..Len(s) : k + 1 \in 1..(Len(s) + 1) /\ r[k + 1] = s[k]
    OBVIOUS
  <1>3. \A k \in 1..(Len(s) + 1) : k # 1 => k - 1 \in 1..Len(s) /\ r[k] = s[k - 1]
    OBVIOUS
  <1>4. NoneTwice(r)
    <2> SUFFICES ASSUME NEW a \in 1..(Len(s) + 1), NEW b \in 1..(Len(s) + 1), r[a] = r[b]
                 PROVE  a = b
      BY <1>1 DEF NoneTwice
    <2>1. a = 1 <=> b = 1
      BY <1>1, <1>3 DEF Among
    <2>2. a # 1 => a - 1 = b - 1
      BY <2>1, <1>1, <1>3 DEF NoneTwice
    <2> QED
      BY <2>1, <2>2
  <1>5. ASSUME NEW o
        PROVE  Among(r, o) <=> o = x \/ Among(s, o)
    <2>1. ASSUME NEW i \in DOMAIN r, r[i] = o
          PROVE  o = x \/ \E j \in DOMAIN s : s[j] = o
      BY <2>1, <1>1, <1>3
    <2>2. ASSUME NEW i \in DOMAIN s, s[i] = o
          PROVE  \E j \in DOMAIN r : r[j] = o
      BY <2>2, <1>1, <1>2
    <2>3. 1 \in DOMAIN r /\ r[1] = x
      BY <1>1
    <2> QED
      BY <2>1, <2>2, <2>3 DEF Among
  <1> QED
    BY <1>1, <1>4, <1>5

LEMMA ListedOnceMore ==
  ASSUME Inv, ListedVisited, heap' = heap, NEW x \in Object \cup {0}, Lists(x),
         x # 0 => ~OnWeakList(x)
  PROVE  /\ weakList' \in Seq(Object) /\ NoneTwice(weakList)'
         /\ \A o \in Object : OnWeakList(o)' <=> OnWeakList(o) \/ (o = x /\ IsWeak(x))
  <1>1. 0 \notin Object
    BY DEF Object
  <1>2. CASE x # 0 /\ IsWeak(x)
    <2>1. weakList' = <<x>> \o weakList /\ weakList \in Seq(Object) /\ NoneTwice(weakList)
          /\ x \in Object /\ ~Among(weakList, x)
      BY <1>2 DEF Lists, ListedVisited, OnWeakList
    <2>2. PICK r : r = weakList'
      OBVIOUS
    <2>3. /\ r \in Seq(Object) /\ NoneTwice(r)
          /\ \A o : Among(r, o) <=> o = x \/ Among(weakList, o)
      BY <2>1, <2>2, ListedMore
    <2> QED
      BY <1>2, <2>2, <2>3 DEF OnWeakList, NoneTwice
  <1>3. CASE ~(x # 0 /\ IsWeak(x))
    BY <1>1, <1>3 DEF Lists, ListedVisited, OnWeakList, NoneTwice
  <1> QED
    BY <1>2, <1>3

\* A step in the middle of markChildren() visits x, or nobody, and chooses the child c,
\* or none; whoever was to be visited still is, or is x, or is lost when the queue is full.
LEMMA MiddleOfVisit ==
  ASSUME Inv, Inv', WeakInv, frames # << >>, frames' # << >>, heap' = heap, phase' = phase,
         scanner' = scanner, referents' = referents, marked \subseteq marked',
         overflow => overflow',
         NEW c, c # 0 => c \in marked' \ marked /\ c < scanner,
         NEW x \in Object \cup {0}, Lists(x),
         x # 0 => x \in marked /\ (IsChosen(x) \/ IsDeferred(x)),
         ChosenOnce', NoneTwice(deferred)',
         \A o \in Object : IsChosen(o)' =>
           (o = c /\ c # 0) \/ (IsChosen(o) /\ o # x /\ ~IsDeferred(o)'),
         \A o \in Object : IsDeferred(o)' => (IsDeferred(o) \/ IsChosen(o)) /\ o # x,
         \A o \in Object : IsChosen(o) \/ IsDeferred(o) =>
           o = x \/ IsChosen(o)' \/ IsDeferred(o)' \/ overflow',
         c # 0 => IsChosen(c)',
         \A o \in marked' : o \in marked \/ o = c \/ o > scanner \/ ~IsWeak(o)
  PROVE  WeakInv'
  <1>1. /\ Object' = Object /\ marked \subseteq Object /\ marked' \subseteq Object
        /\ 0 \notin Object /\ phase = "mark" /\ scanner \in Nat
        /\ \A o : IsWeak(o)' <=> IsWeak(o)
    BY HeapKept DEF Inv, Types, MarkInv, Object, IsWeak
  <1>2. x # 0 => ~OnWeakList(x) /\ x < scanner
    BY <1>1 DEF WeakInv, PendingOnce
  <1>3. /\ weakList' \in Seq(Object) /\ NoneTwice(weakList)'
        /\ \A o \in Object : OnWeakList(o)' <=> OnWeakList(o) \/ (o = x /\ IsWeak(x))
    BY <1>2, ListedOnceMore DEF WeakInv
  <1>4. \A o \in Object : IsChosen(o) \/ IsDeferred(o) => o \in marked
    BY <1>1 DEF Inv, MarkInv, IsChosen, IsDeferred, Among
  <1>5. ListedVisited'
    BY <1>1, <1>2, <1>3 DEF WeakInv, ListedVisited
  <1>6. PendingOnce'
    <2>1. ASSUME NEW o \in Object, IsChosen(o)'
          PROVE  o < scanner /\ ~IsDeferred(o)' /\ ~OnWeakList(o)'
      <3>1. CASE o = c /\ c # 0
        BY <3>1, <1>1, <1>3, <1>4 DEF WeakInv, ListedVisited
      <3>2. CASE IsChosen(o) /\ o # x /\ ~IsDeferred(o)'
        BY <3>2, <1>3 DEF WeakInv, PendingOnce
      <3> QED
        BY <2>1, <3>1, <3>2
    <2>2. ASSUME NEW o \in Object, IsDeferred(o)'
          PROVE  o < scanner /\ ~OnWeakList(o)'
      BY <2>2, <1>3 DEF WeakInv, PendingOnce
    <2> QED
      BY <1>1, <2>1, <2>2 DEF PendingOnce
  <1>7. NoneForgotten'
    <2> SUFFICES ASSUME NEW o \in marked', IsWeak(o)
                 PROVE  \/ OnWeakList(o)' \/ IsDeferred(o)' \/ IsChosen(o)' \/ overflow'
                        \/ o > scanner
      BY <1>1 DEF NoneForgotten
    <2>1. CASE o \in marked
      <3>1. OnWeakList(o) \/ IsDeferred(o) \/ IsChosen(o) \/ overflow \/ o > scanner
        BY <2>1 DEF WeakInv, NoneForgotten
      <3> QED
        BY <3>1, <1>1, <1>3
    <2>2. CASE o \notin marked
      BY <2>2, <1>1
    <2> QED
      BY <2>1, <2>2
  <1> QED
    BY <1>1, <1>5, <1>6, <1>7 DEF WeakInv

\* The top activation has another choice, the same, or none.
LEMMA TopChooses ==
  ASSUME Inv, ChosenOnce, frames # << >>, NEW v \in Frame, frames' = TopBecomes(v),
         v.nextObject = 0 \/ v.nextObject = Top.nextObject \/ ~IsChosen(v.nextObject)
  PROVE  /\ frames' # << >> /\ ChosenOnce'
         /\ \A o \in Object : IsChosen(o)' <=>
              o = v.nextObject \/ (IsChosen(o) /\ o # Top.nextObject)
  <1>1. PICK n : n = Len(frames) /\ n \in DOMAIN frames
    BY TopFacts
  <1>2. /\ frames' # << >> /\ DOMAIN frames' = DOMAIN frames /\ frames'[n] = v
        /\ \A k \in DOMAIN frames \ {n} : frames'[k] = frames[k]
        /\ frames[n] = Top
    BY <1>1, TopReplaced DEF Top
  <1>3. ChosenOnce'
    <2> SUFFICES ASSUME NEW k \in DOMAIN frames, NEW l \in DOMAIN frames,
                        frames'[k].nextObject = frames'[l].nextObject,
                        frames'[k].nextObject # 0
                 PROVE  k = l
      BY <1>2 DEF ChosenOnce
    <2>1. CASE k # n /\ l # n
      BY <2>1, <1>2 DEF ChosenOnce
    <2>2. ASSUME NEW m \in DOMAIN frames \ {n}, frames[m].nextObject = v.nextObject,
                 v.nextObject # 0
          PROVE  FALSE
      <3>1. v.nextObject = Top.nextObject
        BY <2>2 DEF IsChosen
      <3> QED
        BY <3>1, <2>2, <1>1, <1>2 DEF ChosenOnce
    <2> QED
      BY <2>1, <2>2, <1>2
  <1>4. ASSUME NEW o \in Object
        PROVE  IsChosen(o)' <=> o = v.nextObject \/ (IsChosen(o) /\ o # Top.nextObject)
    <2>1. ASSUME IsChosen(o)'
          PROVE  o = v.nextObject \/ (IsChosen(o) /\ o # Top.nextObject)
      <3>1. PICK k \in DOMAIN frames : frames'[k].nextObject = o
        BY <2>1, <1>2 DEF IsChosen
      <3>2. ASSUME k # n
            PROVE  IsChosen(o) /\ o # Top.nextObject
        <4>1. frames[k].nextObject = o /\ o # 0
          BY <3>1, <3>2, <1>2 DEF Object
        <4> QED
          BY <4>1, <3>2, <1>1, <1>2 DEF IsChosen, ChosenOnce
      <3> QED
        BY <3>1, <3>2, <1>2
    <2>2. ASSUME o = v.nextObject
          PROVE  IsChosen(o)'
      BY <2>2, <1>1, <1>2 DEF IsChosen
    <2>3. ASSUME IsChosen(o), o # Top.nextObject
          PROVE  IsChosen(o)'
      BY <2>3, <1>2 DEF IsChosen
    <2> QED
      BY <2>1, <2>2, <2>3
  <1> QED
    BY <1>2, <1>3, <1>4

LEMMA DeferredKept ==
  ASSUME deferred' = deferred
  PROVE  /\ \A o : IsDeferred(o)' <=> IsDeferred(o)
         /\ NoneTwice(deferred) => NoneTwice(deferred)'
  BY DEF IsDeferred, NoneTwice

LEMMA MarkOnlyWeak == ASSUME Inv, Inv', WeakInv, MarkOnly PROVE WeakInv'
  <1> DEFINE c == Kids(Top.object)[Top.at]
  <1>1. /\ frames # << >> /\ Top.at <= Len(Kids(Top.object))
        /\ c \in marked \/ c >= scanner
        /\ marked' = marked \cup {c} /\ frames' = TopBecomes(Past(Top))
        /\ heap' = heap /\ phase' = phase /\ scanner' = scanner /\ referents' = referents
        /\ deferred' = deferred /\ overflow' = overflow /\ weakList' = weakList
    BY DEF MarkOnly
  <1>2. PICK g \in Frame : g = Past(Top) /\ g.nextObject = Top.nextObject
    BY <1>1, TopFacts, NextChild
  <1>3. /\ frames' # << >> /\ ChosenOnce'
        /\ \A o \in Object : IsChosen(o)' <=>
             o = g.nextObject \/ (IsChosen(o) /\ o # Top.nextObject)
    BY <1>1, <1>2, TopChooses DEF WeakInv, PendingOnce
  <1>4. IsChosen(Top.nextObject)
    BY <1>1, TopFacts DEF IsChosen, Top
  <1>5. \A o \in Object : IsChosen(o)' <=> IsChosen(o)
    BY <1>2, <1>3, <1>4
  <1>6. c \in marked \/ c > scanner
    <2>1. c \in Object /\ scanner \in marked
      BY <1>1, TopFacts DEF Inv, MarkInv
    <2>2. c \in Nat /\ scanner \in Nat
      BY <2>1 DEF Inv, Types, Object
    <2> QED
      BY <2>1, <2>2, <1>1
  <1>7. Lists(0)
    BY <1>1 DEF Lists
  <1>8. 0 \in Object \cup {0} /\ 0 \notin Object
    BY DEF Object
  <1>9. \A o \in Object : IsDeferred(o)' <=> IsDeferred(o)
    BY <1>1, DeferredKept
  <1>10. \A o \in Object : IsChosen(o) => ~IsDeferred(o)
    BY DEF WeakInv, PendingOnce
  <1>11. NoneTwice(deferred)'
    BY <1>1, DeferredKept DEF WeakInv, PendingOnce
  <1>12. \A o \in marked' : o \in marked \/ o = 0 \/ o > scanner \/ ~IsWeak(o)
    BY <1>1, <1>6
  <1> HIDE DEF c
  <1> QED
    BY <1>1, <1>3, <1>5, <1>7, <1>8, <1>9, <1>10, <1>11, <1>12, MiddleOfVisit


LEMMA MarkAndChooseWeak == ASSUME Inv, Inv', WeakInv, MarkAndChoose PROVE WeakInv'
  <1>2. PICK c \in Object : c = Kids(Top.object)[Top.at]
    BY TopFacts DEF MarkAndChoose
  <1>1. /\ frames # << >> /\ Top.at <= Len(Kids(Top.object)) /\ Top.nextObject = 0
        /\ c \notin marked /\ c < scanner
        /\ marked' = marked \cup {c}
        /\ frames' = TopBecomes([Past(Top) EXCEPT !.nextObject = c])
        /\ heap' = heap /\ phase' = phase /\ scanner' = scanner /\ referents' = referents
        /\ deferred' = deferred /\ overflow' = overflow /\ weakList' = weakList
    BY <1>2 DEF MarkAndChoose
  <1>3. PICK g \in Frame : g = [Past(Top) EXCEPT !.nextObject = c] /\ g.nextObject = c
    <2>1. Top \in Frame /\ Top.at \in Nat
      BY <1>1, TopFacts
    <2> QED
      BY <2>1, <1>2, NextChild
  <1>4. \A o \in Object : IsChosen(o) \/ IsDeferred(o) => o \in marked
    BY DEF Inv, MarkInv, IsChosen, IsDeferred, Among, Object
  <1>5. /\ frames' # << >> /\ ChosenOnce'
        /\ \A o \in Object : IsChosen(o)' <=>
             o = g.nextObject \/ (IsChosen(o) /\ o # Top.nextObject)
    <2>1. ~IsChosen(g.nextObject)
      BY <1>1, <1>2, <1>3, <1>4
    <2> QED
      BY <2>1, <1>1, <1>3, TopChooses DEF WeakInv, PendingOnce
  <1>6. 0 \in Object \cup {0} /\ 0 \notin Object
    BY DEF Object
  <1>7. \A o \in Object : IsChosen(o)' <=> o = c \/ IsChosen(o)
    BY <1>1, <1>3, <1>5, <1>6
  <1>8. Lists(0)
    BY <1>1 DEF Lists
  <1>9. \A o \in Object : IsDeferred(o)' <=> IsDeferred(o)
    BY <1>1, DeferredKept
  <1>10. \A o \in Object : IsChosen(o) => ~IsDeferred(o)
    BY DEF WeakInv, PendingOnce
  <1>11. NoneTwice(deferred)'
    BY <1>1, DeferredKept DEF WeakInv, PendingOnce
  <1>12. c \in marked' \ marked /\ IsChosen(c)'
    BY <1>1, <1>2, <1>7
  <1> QED
    BY <1>1, <1>5, <1>6, <1>7, <1>8, <1>9, <1>10, <1>11, <1>12, MiddleOfVisit

LEMMA MarkAndRecurseWeak == ASSUME Inv, Inv', WeakInv, MarkAndRecurse PROVE WeakInv'
  <1>2. PICK c \in Object : c = Kids(Top.object)[Top.at]
    BY TopFacts DEF MarkAndRecurse
  <1>1. /\ frames # << >> /\ Top.at <= Len(Kids(Top.object)) /\ Top.nextObject # 0
        /\ c \notin marked /\ c < scanner
        /\ heap' = heap /\ phase' = phase /\ scanner' = scanner /\ referents' = referents
    BY <1>2 DEF MarkAndRecurse
  <1>3. PICK g \in Frame : g = [Past(Top) EXCEPT !.nextObject = c] /\ g.nextObject = c
    <2>1. Top \in Frame /\ Top.at \in Nat
      BY <1>1, TopFacts
    <2> QED
      BY <2>1, <1>2, NextChild
  <1>4. PICK x \in Object : x = Top.nextObject /\ x \in marked /\ IsChosen(x)
    BY <1>1, TopFacts DEF IsChosen, Top, Inv, Types
  <1>5. /\ \A o \in Object : IsChosen(o) \/ IsDeferred(o) => o \in marked
        /\ \A o \in Object : IsChosen(o) => ~IsDeferred(o)
    BY DEF Inv, MarkInv, IsChosen, IsDeferred, Among, Object, WeakInv, PendingOnce
  <1>6. 0 \in Object \cup {0} /\ 0 \notin Object
    BY DEF Object
  <1>7. CASE Len(frames) <= MAX_GC_DEPTH
    <2>1. /\ frames' = Append(TopBecomes(g), Visiting(x))
          /\ marked' = marked \cup {c} \cup heap.leaves[x]
          /\ weakList' = (IF IsWeak(x) THEN <<x>> \o weakList ELSE weakList)
          /\ deferred' = deferred /\ overflow' = overflow
      BY <1>2, <1>3, <1>4, <1>7 DEF MarkAndRecurse
    <2>2. PICK n : n = Len(frames) /\ n \in DOMAIN frames /\ n \in Nat \ {0} /\ DOMAIN frames = 1..n
      BY <1>1, TopFacts
    <2>3. PICK top \in Seq(Frame) :
            /\ top = TopBecomes(g) /\ Len(top) = n /\ DOMAIN top = DOMAIN frames /\ top[n] = g
            /\ \A k \in DOMAIN frames \ {n} : top[k] = frames[k]
      <3>1. /\ TopBecomes(g) \in Seq(Frame) /\ Len(TopBecomes(g)) = n
            /\ DOMAIN TopBecomes(g) = DOMAIN frames /\ TopBecomes(g)[n] = g
            /\ \A k \in DOMAIN frames \ {n} : TopBecomes(g)[k] = frames[k]
        BY <1>1, <2>2, LastReplaced DEF TopBecomes, Inv, Types
      <3> QED
        BY <3>1
    <2>4. Visiting(x) \in Frame /\ Visiting(x).nextObject = 0
      BY DEF Visiting, Frame
    <2>5. /\ frames' # << >> /\ DOMAIN frames' = 1..(n + 1) /\ frames'[n + 1] = Visiting(x)
          /\ \A k \in 1..n : frames'[k] = top[k]
      BY <2>1, <2>2, <2>3, <2>4, OneMore
    <2>6. \A o \in Object : IsChosen(o)' <=> o = c \/ (IsChosen(o) /\ o # x)
      <3> SUFFICES ASSUME NEW o \in Object
                   PROVE  IsChosen(o)' <=> o = c \/ (IsChosen(o) /\ o # x)
        OBVIOUS
      <3>1. IsChosen(o)' <=> \E k \in 1..n : top[k].nextObject = o
        BY <1>6, <2>2, <2>4, <2>5 DEF IsChosen
      <3>2. \A k \in 1..n : k # n => (top[k].nextObject = o <=> frames[k].nextObject = o)
        BY <2>2, <2>3
      <3>3. frames[n].nextObject = x /\ top[n].nextObject = c
        BY <1>3, <1>4, <2>2, <2>3 DEF Top
      <3>4. \A k \in 1..n : k # n => frames[k].nextObject # x
        BY <1>6, <2>2, <3>3 DEF WeakInv, PendingOnce, ChosenOnce
      <3>5. ~IsChosen(c)
        BY <1>1, <1>2, <1>5
      <3> QED
        BY <2>2, <3>1, <3>2, <3>3, <3>4, <3>5 DEF IsChosen
    <2>7. ChosenOnce'
      <3> SUFFICES ASSUME NEW k \in 1..(n + 1), NEW l \in 1..(n + 1),
                          frames'[k].nextObject = frames'[l].nextObject,
                          frames'[k].nextObject # 0
                   PROVE  k = l
        BY <2>5 DEF ChosenOnce
      <3>1. k \in 1..n /\ l \in 1..n /\ top[k].nextObject = top[l].nextObject
            /\ top[k].nextObject # 0
        BY <2>2, <2>4, <2>5
      <3>2. \A m \in 1..n : m # n => frames[m].nextObject # c
        BY <1>1, <1>2, <1>5, <2>2 DEF IsChosen
      <3>3. CASE k # n /\ l # n
        <4>1. frames[k].nextObject = frames[l].nextObject /\ frames[k].nextObject # 0
          BY <2>2, <2>3, <3>1, <3>3
        <4> QED
          BY <4>1, <2>2, <3>1 DEF WeakInv, PendingOnce, ChosenOnce
      <3>4. CASE k = n \/ l = n
        BY <1>3, <2>2, <2>3, <3>1, <3>2, <3>4
      <3> QED
        BY <3>3, <3>4
    <2>8. Lists(x)
      BY <2>1, <1>6 DEF Lists
    <2>9. \A o \in Object : IsDeferred(o)' <=> IsDeferred(o)
      BY <2>1, DeferredKept
    <2>10. NoneTwice(deferred)'
      BY <2>1, DeferredKept DEF WeakInv, PendingOnce
    <2>11. c \in marked' \ marked /\ IsChosen(c)' /\ marked \subseteq marked'
      BY <1>1, <1>2, <2>1, <2>6
    <2>12. \A o \in marked' : o \in marked \/ o = c \/ o > scanner \/ ~IsWeak(o)
      BY <2>1 DEF Inv, Types, IsHeap, Object, IsWeak
    <2> QED
      BY <1>1, <1>4, <1>5, <1>6, <2>1, <2>5, <2>6, <2>7, <2>8, <2>9, <2>10, <2>11, <2>12,
         MiddleOfVisit
  <1>8. CASE ~(Len(frames) <= MAX_GC_DEPTH)
    <2>1. /\ frames' = TopBecomes(g) /\ marked' = marked \cup {c} /\ PutDeferred(x)
          /\ weakList' = weakList
      BY <1>2, <1>3, <1>4, <1>8 DEF MarkAndRecurse
    <2>2. ~IsChosen(c)
      BY <1>1, <1>2, <1>5
    <2>3. /\ frames' # << >> /\ ChosenOnce'
          /\ \A o \in Object : IsChosen(o)' <=>
               o = g.nextObject \/ (IsChosen(o) /\ o # Top.nextObject)
      BY <1>1, <1>3, <2>1, <2>2, TopChooses DEF WeakInv, PendingOnce
    <2>4. \A o \in Object : IsChosen(o)' <=> o = c \/ (IsChosen(o) /\ o # x)
      BY <1>3, <1>4, <2>3
    <2>5. /\ NoneTwice(deferred)' /\ (overflow => overflow')
          /\ \A o \in Object : IsDeferred(o)' => IsDeferred(o) \/ o = x
          /\ \A o \in Object : IsDeferred(o) => IsDeferred(o)'
          /\ IsDeferred(x)' \/ overflow'
      <3>0. deferred \in Seq(Object) /\ NoneTwice(deferred) /\ ~IsDeferred(x)
        BY <1>4, <1>5 DEF Inv, Types, WeakInv, PendingOnce
      <3>1. CASE Len(deferred) < DEFERRED_OBJECT_TABLE_SIZE
        <4>1. deferred' = Append(deferred, x) /\ overflow' = overflow
          BY <3>1, <2>1 DEF PutDeferred
        <4>2. DOMAIN deferred = 1..Len(deferred) /\ Len(deferred) \in Nat
          BY <3>0, LenProperties
        <4>3. /\ DOMAIN deferred' = 1..(Len(deferred) + 1)
              /\ deferred'[Len(deferred) + 1] = x
              /\ \A k \in 1..Len(deferred) : deferred'[k] = deferred[k]
          BY <4>1, <3>0, OneMore
        <4>4. NoneTwice(deferred)'
          BY <3>0, <4>2, <4>3 DEF NoneTwice, IsDeferred, Among
        <4>5. \A o \in Object : IsDeferred(o)' <=> IsDeferred(o) \/ o = x
          BY <4>2, <4>3 DEF IsDeferred, Among
        <4> QED
          BY <4>1, <4>4, <4>5
      <3>2. CASE ~(Len(deferred) < DEFERRED_OBJECT_TABLE_SIZE)
        <4>1. deferred' = deferred /\ overflow'
          BY <3>2, <2>1 DEF PutDeferred
        <4> QED
          BY <4>1, <3>0, DeferredKept
      <3> QED
        BY <3>1, <3>2
    <2>6. Lists(0)
      BY <2>1 DEF Lists
    <2>7. c \in marked' \ marked /\ IsChosen(c)' /\ marked \subseteq marked'
      BY <1>1, <1>2, <2>1, <2>4
    <2>8. \A o \in marked' : o \in marked \/ o = c \/ o > scanner \/ ~IsWeak(o)
      BY <2>1
    <2>9. \A o \in Object : IsChosen(o)' =>
            (o = c /\ c # 0) \/ (IsChosen(o) /\ o # 0 /\ ~IsDeferred(o)')
      BY <1>5, <1>6, <2>4, <2>5
    <2>10. \A o \in Object : IsDeferred(o)' => (IsDeferred(o) \/ IsChosen(o)) /\ o # 0
      BY <1>4, <1>6, <2>5
    <2>11. \A o \in Object : IsChosen(o) \/ IsDeferred(o) =>
             o = 0 \/ IsChosen(o)' \/ IsDeferred(o)' \/ overflow'
      BY <2>4, <2>5
    <2>12. frames' # << >> /\ ChosenOnce' /\ NoneTwice(deferred)' /\ (overflow => overflow')
      BY <2>3, <2>5
    <2> QED
      BY <1>1, <1>6, <2>6, <2>7, <2>8, <2>9, <2>10, <2>11, <2>12, MiddleOfVisit
  <1> QED
    BY <1>7, <1>8

LEMMA IterateWeak == ASSUME Inv, Inv', WeakInv, Iterate PROVE WeakInv'
  <1>1. /\ frames # << >> /\ Top.nextObject # 0
        /\ heap' = heap /\ phase' = phase /\ scanner' = scanner /\ referents' = referents
        /\ deferred' = deferred /\ overflow' = overflow
    BY DEF Iterate
  <1>2. PICK x \in Object : x = Top.nextObject /\ x \in marked /\ IsChosen(x)
    BY <1>1, TopFacts DEF IsChosen, Top, Inv, Types
  <1>3. /\ frames' = TopBecomes(Visiting(x)) /\ marked' = marked \cup heap.leaves[x]
        /\ weakList' = (IF IsWeak(x) THEN <<x>> \o weakList ELSE weakList)
    BY <1>2 DEF Iterate, Comes
  <1>4. Visiting(x) \in Frame /\ Visiting(x).nextObject = 0
    BY DEF Visiting, Frame
  <1>5. /\ frames' # << >> /\ ChosenOnce'
        /\ \A o \in Object : IsChosen(o)' <=>
             o = Visiting(x).nextObject \/ (IsChosen(o) /\ o # Top.nextObject)
    BY <1>1, <1>3, <1>4, TopChooses DEF WeakInv, PendingOnce
  <1>6. 0 \notin Object /\ x \in Object \cup {0}
    BY DEF Object
  <1>7. \A o \in Object : IsChosen(o)' <=> IsChosen(o) /\ o # x
    BY <1>2, <1>4, <1>5, <1>6
  <1>8. Lists(x)
    BY <1>3, <1>6 DEF Lists
  <1>9. \A o \in Object : IsDeferred(o)' <=> IsDeferred(o)
    BY <1>1, DeferredKept
  <1>10. \A o \in Object : IsChosen(o) => ~IsDeferred(o)
    BY DEF WeakInv, PendingOnce
  <1>11. NoneTwice(deferred)'
    BY <1>1, DeferredKept DEF WeakInv, PendingOnce
  <1>12. \A o \in marked' : o \in marked \/ o = 0 \/ o > scanner \/ ~IsWeak(o)
    BY <1>3 DEF Inv, Types, IsHeap, Object, IsWeak
  <1>13. marked \subseteq marked'
    BY <1>3
  <1> QED
    BY <1>1, <1>2, <1>5, <1>6, <1>7, <1>8, <1>9, <1>10, <1>11, <1>12, <1>13, MiddleOfVisit

LEMMA GetDeferredWeak == ASSUME Inv, Inv', WeakInv, GetDeferred PROVE WeakInv'
  <1>0. /\ deferred # << >> /\ Len(frames) = 1
        /\ Top.nextObject = 0 /\ deferred' = Tail(deferred)
        /\ heap' = heap /\ phase' = phase /\ scanner' = scanner /\ referents' = referents
        /\ overflow' = overflow
    BY DEF GetDeferred
  <1>1. /\ deferred \in Seq(Object) /\ frames # << >> /\ NoneTwice(deferred)
    <2>1. deferred \in Seq(Object) /\ frames \in Seq(Frame)
      BY DEF Inv, Types
    <2>2. NoneTwice(deferred)
      BY DEF WeakInv, PendingOnce
    <2>3. frames # << >>
      <3>1. Len(<< >>) = 0
        OBVIOUS
      <3> QED
        BY <3>1, <1>0
    <2> QED
      BY <2>1, <2>2, <2>3
  <1>2. /\ Len(deferred) \in Nat \ {0} /\ DOMAIN deferred = 1..Len(deferred)
        /\ Head(deferred) = deferred[1]
        /\ DOMAIN deferred' = 1..(Len(deferred) - 1)
        /\ \A i \in 1..(Len(deferred) - 1) : deferred'[i] = deferred[i + 1]
    BY <1>0, <1>1, HeadTailProperties, EmptySeq, LenProperties
  <1>3. PICK x \in Object : x = Head(deferred) /\ x = deferred[1] /\ x \in marked /\ IsDeferred(x)
    <2>1. 1 \in DOMAIN deferred
      BY <1>2
    <2> QED
      BY <2>1, <1>2 DEF Inv, MarkInv, Types, IsDeferred, Among
  <1>4. /\ frames' = TopBecomes(Visiting(x)) /\ marked' = marked \cup heap.leaves[x]
        /\ weakList' = (IF IsWeak(x) THEN <<x>> \o weakList ELSE weakList)
    BY <1>3 DEF GetDeferred, Comes
  <1>5. Visiting(x) \in Frame /\ Visiting(x).nextObject = 0
    BY DEF Visiting, Frame
  <1>6. /\ frames' # << >> /\ ChosenOnce'
        /\ \A o \in Object : IsChosen(o)' <=>
             o = Visiting(x).nextObject \/ (IsChosen(o) /\ o # Top.nextObject)
    BY <1>0, <1>1, <1>4, <1>5, TopChooses DEF WeakInv, PendingOnce
  <1>7. 0 \notin Object /\ x \in Object \cup {0}
    BY DEF Object
  <1>8. \A o \in Object : IsChosen(o)' <=> IsChosen(o)
    BY <1>0, <1>5, <1>6, <1>7
  <1>9. Lists(x)
    BY <1>4, <1>7 DEF Lists
  <1>10. NoneTwice(deferred)'
    <2> SUFFICES ASSUME NEW i \in 1..(Len(deferred) - 1), NEW j \in 1..(Len(deferred) - 1),
                        deferred'[i] = deferred'[j]
                 PROVE  i = j
      BY <1>2 DEF NoneTwice
    <2>1. i + 1 = j + 1
      BY <1>1, <1>2 DEF NoneTwice
    <2> QED
      BY <2>1
  <1>11. \A o \in Object : IsDeferred(o)' <=> IsDeferred(o) /\ o # x
    <2> SUFFICES ASSUME NEW o \in Object
                 PROVE  IsDeferred(o)' <=> IsDeferred(o) /\ o # x
      OBVIOUS
    <2>1. ASSUME NEW i \in DOMAIN deferred', deferred'[i] = o
          PROVE  IsDeferred(o) /\ o # x
      <3>1. i + 1 \in DOMAIN deferred /\ deferred[i + 1] = o /\ i + 1 # 1 /\ 1 \in DOMAIN deferred
        BY <2>1, <1>2
      <3> QED
        BY <3>1, <1>1, <1>3 DEF IsDeferred, Among, NoneTwice
    <2>2. ASSUME NEW i \in DOMAIN deferred, deferred[i] = o, o # x
          PROVE  IsDeferred(o)'
      <3>1. i # 1
        BY <2>2, <1>3
      <3>2. i - 1 \in DOMAIN deferred' /\ deferred'[i - 1] = deferred[(i - 1) + 1]
            /\ (i - 1) + 1 = i
        BY <3>1, <1>2
      <3> QED
        BY <3>2, <2>2 DEF IsDeferred, Among
    <2> QED
      BY <2>1, <2>2 DEF IsDeferred, Among
  <1>12. \A o \in Object : IsChosen(o) => ~IsDeferred(o)
    BY DEF WeakInv, PendingOnce
  <1>13. \A o \in marked' : o \in marked \/ o = 0 \/ o > scanner \/ ~IsWeak(o)
    BY <1>4 DEF Inv, Types, IsHeap, Object, IsWeak
  <1>14. marked \subseteq marked'
    BY <1>4
  <1> QED
    BY <1>0, <1>1, <1>3, <1>6, <1>7, <1>8, <1>9, <1>10, <1>11, <1>12, <1>13, <1>14, MiddleOfVisit


LEMMA ScanWeak == ASSUME Inv, Inv', WeakInv, Scan PROVE WeakInv'
  <1>1. /\ heap' = heap /\ phase' = phase /\ phase = "mark" /\ frames = << >>
        /\ deferred' = deferred /\ deferred = << >> /\ overflow' = overflow
        /\ referents' = referents /\ Object' = Object /\ scanner \in Object /\ scanner \in Nat
        /\ 0 \notin Object
    BY HeapKept DEF Scan, Inv, Types, MarkInv, IsHeap, Object
  <1>2. \A o \in Object : o \in Nat /\ ~IsDeferred(o) /\ ~IsChosen(o) /\ ~IsDeferred(o)'
    BY <1>1, EmptySeq DEF IsDeferred, IsChosen, Among, Object
  <1>3. /\ ListedVisited /\ NoneForgotten /\ NoneTwice(deferred)'
        /\ \A o : IsWeak(o)' <=> IsWeak(o)
    BY <1>1, DeferredKept DEF WeakInv, PendingOnce, IsWeak
  <1>4. CASE scanner \in marked
    <2>1. PICK s \in Object : s = scanner
      BY <1>1
    <2>2. /\ frames' = <<Visiting(s)>> /\ scanner' = s
          /\ marked' = marked \cup heap.leaves[s]
          /\ weakList' = (IF IsWeak(s) THEN <<s>> \o weakList ELSE weakList)
      BY <1>4, <2>1 DEF Scan, Comes
    <2>3. Lists(s) /\ s \in Object \cup {0} /\ s # 0 /\ ~OnWeakList(s)
      BY <1>1, <1>3, <2>1, <2>2 DEF Lists, ListedVisited
    <2>4. /\ weakList' \in Seq(Object) /\ NoneTwice(weakList)'
          /\ \A o \in Object : OnWeakList(o)' <=> OnWeakList(o) \/ (o = s /\ IsWeak(s))
      BY <1>1, <1>3, <2>3, ListedOnceMore
    <2>5. /\ frames' # << >> /\ DOMAIN frames' = {1} /\ frames'[1].nextObject = 0
      BY <2>2 DEF Visiting
    <2>6. ListedVisited'
      BY <1>1, <1>3, <1>4, <2>1, <2>2, <2>4, <2>5 DEF ListedVisited
    <2>7. PendingOnce'
      <3>1. ChosenOnce' /\ \A o \in Object : ~IsChosen(o)'
        BY <1>1, <2>5 DEF ChosenOnce, IsChosen
      <3> QED
        BY <3>1, <1>1, <1>2, <1>3 DEF PendingOnce
    <2>8. NoneForgotten'
      <3> SUFFICES ASSUME NEW o \in marked', IsWeak(o)
                   PROVE  OnWeakList(o)' \/ overflow' \/ o > scanner'
        BY <1>3 DEF NoneForgotten
      <3>1. o \in marked
        BY <1>1, <2>1, <2>2 DEF Inv, Types, IsHeap, Object, IsWeak
      <3>2. OnWeakList(o) \/ overflow \/ o > scanner \/ o = scanner
        <4>1. o \in Object
          BY <3>1 DEF Inv, Types
        <4> QED
          BY <3>1, <4>1, <1>2, <1>3 DEF NoneForgotten
      <3> QED
        BY <3>1, <3>2, <1>1, <2>1, <2>2, <2>4 DEF Inv, Types
    <2> QED
      BY <1>1, <2>6, <2>7, <2>8 DEF WeakInv
  <1>5. CASE scanner \notin marked
    <2>1. scanner' = scanner + 1 /\ marked' = marked /\ frames' = frames
          /\ weakList' = weakList
      BY <1>5 DEF Scan
    <2>2. \A o \in Object : /\ OnWeakList(o)' <=> OnWeakList(o)
                            /\ IsChosen(o)' <=> IsChosen(o)
      BY <2>1 DEF OnWeakList, IsChosen
    <2>3. ListedVisited'
      BY <1>1, <1>2, <1>3, <2>1, <2>2 DEF ListedVisited, NoneTwice
    <2>4. PendingOnce'
      BY <1>1, <1>2, <1>3, <2>1, <2>2 DEF PendingOnce, ChosenOnce, WeakInv
    <2>5. NoneForgotten'
      <3> SUFFICES ASSUME NEW o \in marked, IsWeak(o)
                   PROVE  OnWeakList(o)' \/ overflow' \/ o > scanner' \/ o = scanner'
        BY <1>1, <1>3, <2>1 DEF NoneForgotten
      <3>1. o \in Object /\ o # scanner
        BY <1>5 DEF Inv, Types
      <3>2. OnWeakList(o) \/ overflow \/ o > scanner
        BY <3>1, <1>2, <1>3 DEF NoneForgotten
      <3> QED
        BY <3>1, <3>2, <1>1, <1>2, <2>1, <2>2
    <2> QED
      BY <1>1, <2>3, <2>4, <2>5 DEF WeakInv
  <1> QED
    BY <1>4, <1>5

LEMMA ReturnWeak == ASSUME Inv, Inv', WeakInv, Return PROVE WeakInv'
  <1>1. /\ frames # << >> /\ Top.nextObject = 0
        /\ Len(frames) = 1 => deferred = << >>
        /\ frames' = SubSeq(frames, 1, Len(frames) - 1)
        /\ scanner' = IF Len(frames) = 1 THEN scanner + 1 ELSE scanner
        /\ heap' = heap /\ phase' = phase /\ marked' = marked /\ weakList' = weakList
        /\ deferred' = deferred /\ overflow' = overflow /\ referents' = referents
    BY DEF Return, Below
  <1>2. /\ phase = "mark" /\ Object' = Object /\ scanner \in Nat
        /\ \A o \in Object : o \in Nat \ {0}
        /\ marked \subseteq Object /\ \A o : IsWeak(o)' <=> IsWeak(o)
    BY <1>1, HeapKept DEF Inv, MarkInv, Types, Object, IsWeak
  <1>3. /\ DOMAIN frames' = 1..(Len(frames) - 1)
        /\ DOMAIN frames = 1..Len(frames) /\ Len(frames) \in Nat \ {0}
        /\ \A k \in 1..(Len(frames) - 1) : frames'[k] = frames[k]
        /\ frames' = << >> <=> Len(frames) = 1
        /\ frames[Len(frames)].nextObject = 0
    BY <1>1, LastDropped DEF Inv, Types, Top
  <1>4. \A o \in Object : /\ IsChosen(o)' <=> IsChosen(o)
                          /\ IsDeferred(o)' <=> IsDeferred(o)
                          /\ OnWeakList(o)' <=> OnWeakList(o)
    <2>1. ASSUME NEW o \in Object
          PROVE  IsChosen(o)' <=> IsChosen(o)
      <3>1. \A k \in DOMAIN frames : frames[k].nextObject = o => k \in 1..(Len(frames) - 1)
        BY <1>2, <1>3
      <3>2. 1..(Len(frames) - 1) \subseteq DOMAIN frames
        BY <1>3
      <3> QED
        BY <3>1, <3>2, <1>3 DEF IsChosen
    <2> QED
      BY <2>1, <1>1 DEF IsDeferred, OnWeakList
  <1>5. scanner <= scanner' /\ (frames' = << >> => scanner' = scanner + 1)
        /\ (frames' # << >> => scanner' = scanner)
    BY <1>1, <1>2, <1>3
  <1>6. ListedVisited'
    BY <1>1, <1>2, <1>4, <1>5 DEF WeakInv, ListedVisited, NoneTwice
  <1>7. PendingOnce'
    <2>1. ChosenOnce'
      <3>1. 1..(Len(frames) - 1) \subseteq DOMAIN frames
        BY <1>3
      <3> QED
        BY <3>1, <1>3 DEF WeakInv, PendingOnce, ChosenOnce
    <2>2. NoneTwice(deferred)'
      BY <1>1, DeferredKept DEF WeakInv, PendingOnce
    <2> QED
      BY <2>1, <2>2, <1>2, <1>4, <1>5 DEF WeakInv, PendingOnce
  <1>8. NoneForgotten'
    BY <1>1, <1>2, <1>4, <1>5 DEF WeakInv, NoneForgotten
  <1> QED
    BY <1>1, <1>2, <1>6, <1>7, <1>8 DEF WeakInv

LEMMA EndPassWeak == ASSUME Inv, Inv', WeakInv, EndPass PROVE WeakInv'
  <1>1. /\ phase = "mark" /\ frames = << >> /\ scanner = heap.n + 1
        /\ heap' = heap /\ marked' = marked /\ frames' = frames /\ referents' = referents
        /\ deferred = << >> /\ heap.n \in Nat /\ Object' = Object /\ marked \subseteq Object
        /\ \A o : IsWeak(o)' <=> IsWeak(o)
    BY HeapKept DEF EndPass, Inv, MarkInv, Types, IsHeap, IsWeak
  <1>2. CASE overflow
    <2>1. scanner' = 1 /\ deferred' = << >> /\ weakList' = << >> /\ phase' = phase
      BY <1>2 DEF EndPass
    <2>2. \A o : ~OnWeakList(o)' /\ ~IsDeferred(o)' /\ ~IsChosen(o)'
      BY <1>1, <2>1 DEF OnWeakList, IsDeferred, IsChosen, Among
    <2>3. ListedVisited'
      BY <1>1, <2>1, <2>2 DEF ListedVisited, NoneTwice
    <2>4. PendingOnce'
      BY <1>1, <2>1, <2>2 DEF PendingOnce, ChosenOnce, NoneTwice
    <2>5. NoneForgotten'
      BY <1>1, <2>1 DEF NoneForgotten, Object
    <2> QED
      BY <1>1, <2>1, <2>3, <2>4, <2>5 DEF WeakInv
  <1>3. CASE ~overflow
    <2>1. phase' = "weak" /\ UNCHANGED <<scanner, deferred, overflow, weakList>>
      BY <1>3 DEF EndPass
    <2>2. ListedVisited' /\ PendingOnce' /\ NoneForgotten'
      BY <1>1, <2>1 DEF WeakInv, ListedVisited, PendingOnce, NoneForgotten, NoneTwice,
                        ChosenOnce, OnWeakList, IsDeferred, IsChosen, Among
    <2> QED
      BY <1>1, <1>3, <2>1, <2>2 DEF WeakInv
  <1> QED
    BY <1>2, <1>3

LEMMA MarkWeakWeak == ASSUME Inv, Inv', WeakInv, MarkWeak PROVE WeakInv'
  <1>1. /\ phase = "weak" /\ phase' = "sweep" /\ frames = << >> /\ ~overflow
        /\ UNCHANGED <<heap, marked, scanner, frames, deferred, overflow, weakList>>
        /\ scanner = heap.n + 1 /\ referents = heap.weak /\ Object' = Object
        /\ marked \subseteq Object /\ deferred = << >> /\ IsHeap(heap)
        /\ \A o : IsWeak(o)' <=> IsWeak(o)
    BY HeapKept DEF MarkWeak, WeakInv, Inv, Types, MarkInv, IsWeak
  <1>2. ListedVisited' /\ PendingOnce' /\ NoneForgotten'
    BY <1>1 DEF WeakInv, ListedVisited, PendingOnce, NoneForgotten, NoneTwice,
                ChosenOnce, OnWeakList, IsDeferred, IsChosen, Among
  <1>3. \A o \in Object : referents'[o] =
          IF OnWeakList(o)
          THEN [i \in DOMAIN heap.weak[o] |->
                 IF heap.weak[o][i] \in marked THEN heap.weak[o][i] ELSE 0]
          ELSE heap.weak[o]
    BY <1>1 DEF MarkWeak, OnWeakList, Among
  <1>4. \A o \in marked : IsWeak(o) => OnWeakList(o)
    <2> SUFFICES ASSUME NEW o \in marked, IsWeak(o)
                 PROVE  OnWeakList(o)
      OBVIOUS
    <2>1. o \in 1..heap.n /\ heap.n \in Nat
      BY <1>1 DEF Object, IsHeap
    <2>2. ~IsDeferred(o) /\ ~IsChosen(o) /\ ~(o > scanner) /\ o # scanner
      BY <1>1, <2>1, EmptySeq DEF IsDeferred, IsChosen, Among
    <2> QED
      BY <1>1, <2>2 DEF WeakInv, NoneForgotten
  <1>5. \A o \in Object : ~IsWeak(o) => heap.weak[o] = << >>
    BY DEF IsWeak
  <1>6. Cleared'
    <2> SUFFICES ASSUME NEW o \in marked, NEW i \in DOMAIN heap.weak[o]
                 PROVE  referents'[o][i] =
                          IF heap.weak[o][i] \in marked THEN heap.weak[o][i] ELSE 0
      BY <1>1 DEF Cleared
    <2>1. o \in Object
      BY <1>1
    <2>2. CASE IsWeak(o)
      <3>1. referents'[o] = [j \in DOMAIN heap.weak[o] |->
              IF heap.weak[o][j] \in marked THEN heap.weak[o][j] ELSE 0]
        BY <1>3, <1>4, <2>1, <2>2
      <3> QED
        BY <3>1
    <2>3. CASE ~IsWeak(o)
      BY <1>5, <2>1, <2>3, EmptySeq
    <2> QED
      BY <2>2, <2>3
  <1> QED
    BY <1>1, <1>2, <1>6 DEF WeakInv

LEMMA MarkVarsWeak == ASSUME Inv, WeakInv, UNCHANGED markVars PROVE WeakInv'
  <1>1. /\ UNCHANGED <<heap, phase, marked, scanner, frames, deferred, overflow, weakList,
                       referents>>
        /\ Object' = Object /\ \A o : IsWeak(o)' <=> IsWeak(o)
    BY HeapKept DEF markVars, IsWeak
  <1>2. ListedVisited' /\ PendingOnce' /\ NoneForgotten' /\ (Cleared <=> Cleared')
    BY <1>1 DEF WeakInv, ListedVisited, PendingOnce, NoneForgotten, NoneTwice, Cleared,
                ChosenOnce, OnWeakList, IsDeferred, IsChosen, Among
  <1> QED
    BY <1>1, <1>2 DEF WeakInv

LEMMA InitWeakInv == CollectorInit => WeakInv
  <1> SUFFICES ASSUME CollectorInit PROVE WeakInv
    OBVIOUS
  <1> USE DEF CollectorInit, MarkInit
  <1>1. IsHeap(heap) /\ marked \subseteq Object /\ heap.n \in Nat
    BY MarkingAssumption DEF IsHeap, Object
  <1>2. \A o : ~OnWeakList(o) /\ ~IsDeferred(o) /\ ~IsChosen(o)
    BY DEF OnWeakList, IsDeferred, IsChosen, Among
  <1>3. ListedVisited
    BY <1>2 DEF ListedVisited, NoneTwice
  <1>4. PendingOnce
    BY <1>2 DEF PendingOnce, ChosenOnce, NoneTwice
  <1>5. NoneForgotten
    BY <1>1 DEF NoneForgotten, Object
  <1> QED
    BY <1>3, <1>4, <1>5 DEF WeakInv

LEMMA NextWeakInv == Inv /\ WeakInv /\ [CollectorNext]_collectorVars => WeakInv'
  <1> SUFFICES ASSUME Inv, WeakInv, [CollectorNext]_collectorVars PROVE WeakInv'
    OBVIOUS
  <1>0. Inv'
    BY NextInv
  <1>1. CASE MarkNext
    BY <1>0, <1>1, ScanWeak, MarkOnlyWeak, MarkAndChooseWeak, MarkAndRecurseWeak,
       IterateWeak, GetDeferredWeak, ReturnWeak, EndPassWeak, MarkWeakWeak
       DEF MarkNext
  <1>2. CASE UNCHANGED markVars
    BY <1>2, MarkVarsWeak
  <1>3. MarkNext \/ UNCHANGED markVars
    BY DEF CollectorNext, collectorVars, SweepTheHeap, SkipFirst, MoveFirst, MoveNext,
           SlideBelow, SlideTableAway, SlideSwap, SlideShift, SlideRoll,
           slideUnchanged, BeginSort, SortStep, EndSort, UpdatePointers,
           AllocateFreeChunk, ExpandPermanent
  <1> QED
    BY <1>1, <1>2, <1>3

\* Each weak object is on its list once, through all passes and although the queue may
\* overflow, so that after markWeakReferences() it refers to live objects or to nothing:
\* for every heap, MAX_GC_DEPTH and size of the queue.
THEOREM WeakObjectsOnce == CollectorSpec => []WeakReferencesCleared
  <1>1. WeakInv => WeakReferencesCleared
    BY DEF WeakInv, ListedVisited, NoneTwice, Cleared, WeakReferencesCleared
  <1>2. Inv /\ WeakInv /\ [CollectorNext]_collectorVars => (Inv /\ WeakInv)'
    BY NextInv, NextWeakInv
  <1>3. CollectorInit => Inv /\ WeakInv
    BY InitInv, InitWeakInv
  <1> QED
    BY <1>1, <1>2, <1>3, PTL DEF CollectorSpec
=============================================================================
