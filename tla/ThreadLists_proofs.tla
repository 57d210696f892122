-------------------------- MODULE ThreadLists_proofs --------------------------
(***************************************************************************)
(* The lists thread.c keeps on its pointers implement sequences of threads *)
(* and alarms, for any number of threads and queues.                       *)
(*                                                                         *)
(* A walk along pointers is defined by recursion.  What it meets is shown  *)
(* by induction over its length, which the provers do with NatSetInduction *)
(* below, stated for a set instead of a predicate.                         *)
(***************************************************************************)
EXTENDS ThreadLists, Integers, Sequences, TLAPS, FiniteSetTheorems, WellFoundedInduction

----------------------------------------------------------------------------
(* Induction and walks *)

\* A set of numbers that has 0 and with each number the next has them all.
LEMMA NatSetInduction ==
    ASSUME NEW T, 0 \in T, \A n \in Nat : n \in T => n + 1 \in T
    PROVE  Nat \subseteq T
<1>. DEFINE F == Nat \ T
<1>1. SUFFICES ASSUME F # {} PROVE FALSE
  OBVIOUS
<1>2. PICK x \in F : \A y \in F : ~(<<y, x>> \in OpToRel(<, Nat))
  <2>. HIDE DEF F
  <2>1. F \subseteq Nat
    BY DEF F
  <2>. QED
    BY <1>1, <2>1, NatLessThanWellFounded, WFMin
<1>3. x # 0 /\ x \in Nat /\ x - 1 \in Nat
  OBVIOUS
<1>4. x - 1 \in F
  BY <1>3
<1>5. <<x - 1, x>> \in OpToRel(<, Nat)
  BY <1>3 DEF OpToRel
<1>. QED
  BY <1>2, <1>4, <1>5

\* A nonempty set of numbers has a least one.
LEMMA LeastNumber ==
    ASSUME NEW T, T \subseteq Nat, T # {}
    PROVE  \E n \in T : \A k \in 0..(n - 1) : k \notin T
<1>1. PICK x \in T : \A y \in T : ~(<<y, x>> \in OpToRel(<, Nat))
  BY NatLessThanWellFounded, WFMin
<1>2. ASSUME NEW k \in 0..(x - 1), k \in T PROVE FALSE
  <2>1. <<k, x>> \in OpToRel(<, Nat)
    BY <1>2 DEF OpToRel
  <2>. QED
    BY <1>1, <1>2, <2>1
<1>. QED
  BY <1>2

\* The walk from p along nx, n links long: what Queues!Hops and Timers!Walk are.
WalkOf(nx, p, N) ==
    LET walk[n \in 0..N] ==
            IF n = 0 THEN p ELSE IF walk[n - 1] = NULL THEN NULL ELSE nx[walk[n - 1]]
    IN  walk

IsWalk(w, nx, p, N) ==
    w = [n \in 0..N |-> IF n = 0 THEN p ELSE IF w[n - 1] = NULL THEN NULL ELSE nx[w[n - 1]]]

LEMMA WalkExists ==
    ASSUME NEW nx, NEW p, NEW N \in Nat
    PROVE  \E w : IsWalk(w, nx, p, N)
<1>. DEFINE T == {n \in Nat : \E w : IsWalk(w, nx, p, n)}
<1>1. 0 \in T
  <2>. DEFINE w0 == [n \in 0..0 |-> p]
  <2>1. IsWalk(w0, nx, p, 0)
    BY DEF IsWalk
  <2>. QED
    BY <2>1
<1>2. ASSUME NEW m \in Nat, m \in T PROVE m + 1 \in T
  <2>1. PICK w : IsWalk(w, nx, p, m)
    BY <1>2
  <2>. DEFINE v == [n \in 0..(m + 1) |->
                      IF n <= m THEN w[n] ELSE IF w[m] = NULL THEN NULL ELSE nx[w[m]]]
  <2>2. ASSUME NEW n \in 0..(m + 1)
        PROVE  v[n] = IF n = 0 THEN p ELSE IF v[n - 1] = NULL THEN NULL ELSE nx[v[n - 1]]
    <3>1. CASE n = 0
      BY <2>1, <3>1 DEF IsWalk
    <3>2. CASE n # 0
      <4>1. n - 1 \in 0..m
        BY <3>2
      <4>2. v[n - 1] = w[n - 1]
        BY <4>1
      <4>3. CASE n <= m
        <5>1. n \in 0..m /\ v[n] = w[n]
          BY <4>3
        <5>2. w[n] = IF w[n - 1] = NULL THEN NULL ELSE nx[w[n - 1]]
          BY <5>1, <2>1, <3>2 DEF IsWalk
        <5>. QED
          BY <5>1, <5>2, <4>2, <3>2
      <4>4. CASE n = m + 1
        BY <4>2, <4>4, <3>2
      <4>. QED
        BY <4>3, <4>4
    <3>. QED
      BY <3>1, <3>2
  <2>3. IsWalk(v, nx, p, m + 1)
    BY <2>2 DEF IsWalk
  <2>. QED
    BY <2>3
<1>3. Nat \subseteq T
  <2>. HIDE DEF T
  <2>. QED
    BY <1>1, <1>2, NatSetInduction
<1>. QED
  BY <1>3

LEMMA WalkSteps ==
    ASSUME NEW nx, NEW p, NEW N \in Nat
    PROVE  /\ DOMAIN WalkOf(nx, p, N) = 0..N
           /\ WalkOf(nx, p, N)[0] = p
           /\ \A n \in 1..N :
                WalkOf(nx, p, N)[n] = IF WalkOf(nx, p, N)[n - 1] = NULL THEN NULL
                                      ELSE nx[WalkOf(nx, p, N)[n - 1]]
<1>1. WalkOf(nx, p, N) = CHOOSE w : IsWalk(w, nx, p, N)
  BY DEF WalkOf, IsWalk
<1>2. IsWalk(WalkOf(nx, p, N), nx, p, N)
  BY <1>1, WalkExists
<1>. DEFINE w == WalkOf(nx, p, N)
<1>3. IsWalk(w, nx, p, N)
  BY <1>2
<1>. HIDE DEF w
<1>4. /\ DOMAIN w = 0..N
      /\ w[0] = p
      /\ \A n \in 1..N : w[n] = IF w[n - 1] = NULL THEN NULL ELSE nx[w[n - 1]]
  BY <1>3 DEF IsWalk
<1>. QED
  BY <1>4 DEF w

NThreads == Cardinality(Thread)

\* A sequence of different threads is no longer than there are threads.
LEMMA NoRepetition ==
    ASSUME NEW s \in Seq(Thread), \A i, j \in 1..Len(s) : s[i] = s[j] => i = j
    PROVE  NThreads \in Nat /\ Len(s) <= NThreads
<1>1. NThreads \in Nat /\ IsFiniteSet(Thread)
  BY ListsAssumption, FS_CardinalityType DEF NThreads
<1>2. s \in Injection(1..Len(s), Thread)
  BY DEF Injection, IsInjective
<1>3. Cardinality(1..Len(s)) <= Cardinality(Thread)
  BY <1>1, <1>2, FS_Injection
<1>4. Cardinality(1..Len(s)) = Len(s)
  BY FS_Interval
<1>. QED
  BY <1>1, <1>3, <1>4 DEF NThreads

----------------------------------------------------------------------------
(* Circular queues: the queue pointer l names the last element of s *)

IsRing(nx, l, s) ==
    /\ s \in Seq(Thread)
    /\ \A i, j \in 1..Len(s) : s[i] = s[j] => i = j
    /\ IF s = << >> THEN l = NULL
       ELSE /\ l = s[Len(s)] /\ nx[l] = s[1]
            /\ \A i \in 1..(Len(s) - 1) : nx[s[i]] = s[i + 1]

StepsOf(nx, l, t) ==
    CHOOSE n \in 1..NThreads :
        /\ WalkOf(nx, l, NThreads)[n] \in {t, l}
        /\ \A k \in 1..(n - 1) : WalkOf(nx, l, NThreads)[k] \notin {t, l}

ListOf(nx, l) ==
    IF l = NULL THEN << >>
    ELSE [n \in 1..StepsOf(nx, l, l) |-> WalkOf(nx, l, NThreads)[n]]

\* Once around the ring, the walk meets its elements in order.
LEMMA RingWalk ==
    ASSUME NEW nx, NEW l, NEW s, IsRing(nx, l, s), s # << >>
    PROVE  /\ NThreads \in Nat /\ Len(s) \in 1..NThreads
           /\ WalkOf(nx, l, NThreads)[0] = l
           /\ \A n \in 1..Len(s) : WalkOf(nx, l, NThreads)[n] = s[n]
<1>1. /\ s \in Seq(Thread) /\ Len(s) \in Nat \ {0} /\ l = s[Len(s)] /\ nx[l] = s[1]
      /\ \A i \in 1..Len(s) : s[i] \in Thread /\ s[i] # NULL
      /\ \A i \in 1..(Len(s) - 1) : nx[s[i]] = s[i + 1]
  BY ListsAssumption DEF IsRing
<1>2. NThreads \in Nat /\ Len(s) <= NThreads
  BY NoRepetition DEF IsRing
<1>. DEFINE w == WalkOf(nx, l, NThreads)
<1>3. /\ w[0] = l
      /\ \A n \in 1..NThreads : w[n] = IF w[n - 1] = NULL THEN NULL ELSE nx[w[n - 1]]
  BY <1>2, WalkSteps
<1>. HIDE DEF w
<1>. DEFINE T == {n \in Nat : n + 1 <= Len(s) => w[n + 1] = s[n + 1]}
<1>4. 0 \in T
  <2>1. w[1] = nx[l]
    BY <1>1, <1>2, <1>3
  <2>. QED
    BY <2>1, <1>1
<1>5. ASSUME NEW n \in Nat, n \in T PROVE n + 1 \in T
  <2>1. SUFFICES ASSUME n + 2 <= Len(s) PROVE w[n + 2] = s[n + 2]
    OBVIOUS
  <2>2. w[n + 1] = s[n + 1] /\ n + 1 \in 1..(Len(s) - 1)
    BY <1>1, <1>5, <2>1
  <2>3. nx[s[n + 1]] = s[n + 2] /\ s[n + 1] # NULL
    <3>1. (n + 1) + 1 = n + 2
      OBVIOUS
    <3>. QED
      BY <1>1, <2>2, <3>1
  <2>4. n + 2 \in 1..NThreads /\ (n + 2) - 1 = n + 1
    BY <1>1, <1>2, <2>1
  <2>. QED
    BY <2>2, <2>3, <2>4, <1>3
<1>6. Nat \subseteq T
  <2>. HIDE DEF T
  <2>. QED
    BY <1>4, <1>5, NatSetInduction
<1>7. ASSUME NEW n \in 1..Len(s) PROVE w[n] = s[n]
  <2>1. n - 1 \in Nat /\ (n - 1) + 1 = n
    BY <1>1
  <2>2. n - 1 \in T
    BY <1>6, <2>1
  <2>. QED
    BY <2>1, <2>2
<1>. QED
  BY <1>1, <1>2, <1>3, <1>7 DEF w

\* The walk stops at t, or where it began.
LEMMA RingSteps ==
    ASSUME NEW nx, NEW l, NEW s, IsRing(nx, l, s), s # << >>,
           NEW t, NEW m \in 1..Len(s),
           s[m] = t \/ (m = Len(s) /\ \A i \in 1..Len(s) : s[i] # t)
    PROVE  StepsOf(nx, l, t) = m
<1>. DEFINE w == WalkOf(nx, l, NThreads)
            P(n) == w[n] \in {t, l} /\ \A k \in 1..(n - 1) : w[k] \notin {t, l}
<1>1. /\ Len(s) \in Nat /\ NThreads \in Nat /\ Len(s) <= NThreads /\ l = s[Len(s)]
      /\ \A i, j \in 1..Len(s) : s[i] = s[j] => i = j
      /\ \A n \in 1..Len(s) : w[n] = s[n]
  <2>1. NThreads \in Nat /\ Len(s) \in 1..NThreads /\ \A n \in 1..Len(s) : w[n] = s[n]
    BY RingWalk
  <2>. HIDE DEF w
  <2>. QED
    BY <2>1 DEF IsRing
<1>. HIDE DEF w
<1>2. m \in 1..NThreads /\ P(m)
  <2>1. w[m] \in {t, l}
    BY <1>1
  <2>2. ASSUME NEW k \in 1..(m - 1) PROVE w[k] \notin {t, l}
    <3>1. k \in 1..Len(s) /\ k # m /\ k # Len(s) /\ Len(s) \in 1..Len(s)
      BY <1>1
    <3>. QED
      BY <1>1, <3>1
  <2>. QED
    BY <1>1, <2>1, <2>2
<1>3. ASSUME NEW n \in 1..NThreads, P(n) PROVE n = m
  <2>1. CASE n < m
    BY <2>1, <1>2, <1>3
  <2>2. CASE m < n
    BY <2>2, <1>2, <1>3
  <2>. QED
    BY <2>1, <2>2
<1>4. StepsOf(nx, l, t) = CHOOSE n \in 1..NThreads : P(n)
  BY DEF StepsOf, w
<1>. HIDE DEF P
<1>5. (CHOOSE n \in 1..NThreads : P(n)) = m
  BY <1>2, <1>3
<1>. QED
  BY <1>4, <1>5

\* The ring determines the contents.
LEMMA RingList ==
    ASSUME NEW nx, NEW l, NEW s, IsRing(nx, l, s)
    PROVE  ListOf(nx, l) = s
<1>1. CASE s = << >>
  BY <1>1 DEF IsRing, ListOf
<1>2. CASE s # << >>
  <2>1. /\ l \in Thread /\ l # NULL /\ s \in Seq(Thread) /\ Len(s) \in 1..Len(s) /\ s[Len(s)] = l
    BY <1>2, ListsAssumption DEF IsRing
  <2>2. StepsOf(nx, l, l) = Len(s)
    BY <1>2, <2>1, RingSteps
  <2>3. \A n \in 1..Len(s) : WalkOf(nx, l, NThreads)[n] = s[n]
    BY <1>2, RingWalk
  <2>4. ListOf(nx, l) = [n \in 1..Len(s) |-> WalkOf(nx, l, NThreads)[n]]
    BY <2>1, <2>2 DEF ListOf
  <2>5. s = [n \in 1..Len(s) |-> s[n]]
    BY <2>1
  <2>. QED
    BY <2>3, <2>4, <2>5
<1>. QED
  BY <1>1, <1>2

----------------------------------------------------------------------------
(* The routines on one ring *)

Links == [Thread -> Thread \cup {NULL}]

\* Links of other threads do not matter.
LEMMA RingApart ==
    ASSUME NEW nx, NEW ny, NEW l, NEW s, IsRing(nx, l, s),
           \A i \in 1..Len(s) : ny[s[i]] = nx[s[i]]
    PROVE  IsRing(ny, l, s)
<1>1. CASE s = << >>
  BY <1>1 DEF IsRing
<1>2. CASE s # << >>
  <2>1. s \in Seq(Thread) /\ Len(s) \in 1..Len(s) /\ l = s[Len(s)] /\ nx[l] = s[1]
    BY <1>2 DEF IsRing
  <2>2. ny[l] = s[1]
    BY <2>1
  <2>3. \A i \in 1..(Len(s) - 1) : ny[s[i]] = s[i + 1]
    BY <1>2, <2>1 DEF IsRing
  <2>. QED
    BY <1>2, <2>1, <2>2, <2>3 DEF IsRing
<1>. QED
  BY <1>1, <1>2

\* addThreadToQueue(): t is linked in behind the last element.
Linked(nx, l, t) ==
    IF l = NULL THEN [nx EXCEPT ![t] = t]
    ELSE [[nx EXCEPT ![t] = nx[l]] EXCEPT ![l] = t]

LEMMA RingAppend ==
    ASSUME NEW nx \in Links, NEW l, NEW s, IsRing(nx, l, s),
           NEW t \in Thread, \A i \in 1..Len(s) : s[i] # t
    PROVE  IsRing(Linked(nx, l, t), t, Append(s, t))
<1>. DEFINE ny == Linked(nx, l, t)
            r == Append(s, t)
<1>1. /\ s \in Seq(Thread) /\ r \in Seq(Thread) /\ Len(s) \in Nat /\ Len(r) = Len(s) + 1
      /\ r[Len(s) + 1] = t /\ \A i \in 1..Len(s) : r[i] = s[i]
      /\ \A i, j \in 1..Len(s) : s[i] = s[j] => i = j
  BY DEF IsRing
<1>2. CASE s = << >>
  <2>1. l = NULL /\ ny = [nx EXCEPT ![t] = t] /\ Len(s) = 0
    BY <1>2 DEF IsRing, Linked
  <2>2. ny[t] = t
    BY <2>1 DEF Links
  <2>3. IsRing(ny, t, r)
    <3>. HIDE DEF ny, r
    <3>1. Len(r) = 1 /\ r[1] = t
      BY <1>1, <2>1
    <3>2. r # << >> /\ \A i, j \in 1..Len(r) : r[i] = r[j] => i = j
      BY <3>1
    <3>. QED
      BY <1>1, <2>2, <3>1, <3>2 DEF IsRing
  <2>. QED
    BY <2>1, <2>3
<1>3. CASE s # << >>
  <2>1. /\ l = s[Len(s)] /\ l \in Thread /\ l # NULL /\ nx[l] = s[1] /\ Len(s) \in 1..Len(s)
        /\ \A i \in 1..(Len(s) - 1) : nx[s[i]] = s[i + 1]
        /\ l # t
    BY <1>3, <1>1, ListsAssumption DEF IsRing
  <2>2. ny = [[nx EXCEPT ![t] = nx[l]] EXCEPT ![l] = t]
    BY <2>1 DEF Linked
  <2>3. ny[t] = s[1] /\ ny[l] = t /\ \A u \in Thread \ {t, l} : ny[u] = nx[u]
    BY <2>1, <2>2 DEF Links
  <2>. HIDE DEF ny, r
  <2>4. \A i \in 1..(Len(r) - 1) : ny[r[i]] = r[i + 1]
    <3>. TAKE i \in 1..(Len(r) - 1)
    <3>1. CASE i = Len(s)
      BY <3>1, <1>1, <2>1, <2>3
    <3>2. CASE i # Len(s)
      <4>1. i \in 1..Len(s) /\ i \in 1..(Len(s) - 1) /\ i + 1 \in 1..Len(s)
        BY <3>2, <1>1
      <4>2. s[i] \in Thread \ {t, l}
        BY <4>1, <3>2, <1>1, <2>1
      <4>. QED
        BY <4>1, <4>2, <1>1, <2>1, <2>3
    <3>. QED
      BY <3>1, <3>2
  <2>5. \A i, j \in 1..Len(r) : r[i] = r[j] => i = j
    BY <1>1
  <2>6. r # << >> /\ t = r[Len(r)] /\ ny[t] = r[1]
    BY <1>1, <2>1, <2>3
  <2>. QED
    BY <1>1, <2>4, <2>5, <2>6 DEF IsRing, ny, r
<1>. QED
  BY <1>2, <1>3

\* A thread that is on the queue already cuts the circle short.
LEMMA RingCut ==
    ASSUME NEW nx \in Links, NEW l, NEW s, IsRing(nx, l, s), NEW m \in 1..Len(s)
    PROVE  IsRing(Linked(nx, l, s[m]), s[m],
                  IF m = Len(s) THEN <<s[m]>> ELSE SubSeq(s, 1, m))
<1>. DEFINE t == s[m]
            ny == Linked(nx, l, t)
            r == SubSeq(s, 1, m)
<1>1. /\ s \in Seq(Thread) /\ Len(s) \in Nat /\ Len(s) \in 1..Len(s) /\ s # << >>
      /\ l = s[Len(s)] /\ l \in Thread /\ t \in Thread /\ l # NULL /\ nx[l] = s[1]
      /\ \A i \in 1..(Len(s) - 1) : nx[s[i]] = s[i + 1]
      /\ \A i, j \in 1..Len(s) : s[i] = s[j] => i = j
  BY ListsAssumption DEF IsRing
<1>2. ny = [[nx EXCEPT ![t] = nx[l]] EXCEPT ![l] = t]
  BY <1>1 DEF Linked
<1>3. CASE m = Len(s)
  <2>1. t = l /\ ny[t] = t
    BY <1>1, <1>2, <1>3 DEF Links
  <2>2. IsRing(ny, t, <<t>>)
    <3>. HIDE DEF ny, t
    <3>. QED
      BY <2>1, <1>1 DEF IsRing
  <2>. QED
    BY <2>2, <1>3
<1>4. CASE m # Len(s)
  <2>1. /\ r \in Seq(Thread) /\ Len(r) = m /\ \A i \in 1..m : r[i] = s[i] /\ i \in 1..Len(s)
    BY <1>1
  <2>2. l # t
    BY <1>1, <1>4
  <2>3. ny[t] = s[1] /\ \A u \in Thread \ {t, l} : ny[u] = nx[u]
    BY <1>1, <1>2, <2>2 DEF Links
  <2>. HIDE DEF ny, r
  <2>4. \A i \in 1..(Len(r) - 1) : ny[r[i]] = r[i + 1]
    <3>. TAKE i \in 1..(Len(r) - 1)
    <3>1. i \in 1..(Len(s) - 1) /\ i \in 1..m /\ i + 1 \in 1..m /\ i # m /\ i # Len(s)
      BY <2>1, <1>1
    <3>2. s[i] \in Thread \ {t, l}
      BY <3>1, <1>1
    <3>. QED
      BY <3>1, <3>2, <2>1, <2>3, <1>1
  <2>5. \A i, j \in 1..Len(r) : r[i] = r[j] => i = j
    BY <2>1, <1>1
  <2>6. r # << >> /\ t = r[Len(r)] /\ ny[t] = r[1]
    BY <2>1, <2>3
  <2>7. IsRing(ny, t, r)
    BY <2>1, <2>4, <2>5, <2>6 DEF IsRing
  <2>. QED
    BY <2>7, <1>4 DEF ny, r
<1>. QED
  BY <1>3, <1>4

\* addThreadToQueue(AT_START): the same link, and the pointer stays.
LEMMA RingPush ==
    ASSUME NEW nx \in Links, NEW l, NEW s, IsRing(nx, l, s),
           NEW t \in Thread, \A i \in 1..Len(s) : s[i] # t
    PROVE  IsRing(Linked(nx, l, t), IF l = NULL THEN t ELSE l, <<t>> \o s)
<1>. DEFINE ny == Linked(nx, l, t)
            r == <<t>> \o s
<1>1. /\ s \in Seq(Thread) /\ r \in Seq(Thread) /\ Len(s) \in Nat /\ Len(r) = Len(s) + 1
      /\ r[1] = t /\ \A i \in 1..Len(s) : r[i + 1] = s[i]
      /\ \A i \in 2..Len(r) : r[i] = s[i - 1] /\ i - 1 \in 1..Len(s)
      /\ \A i, j \in 1..Len(s) : s[i] = s[j] => i = j
  BY DEF IsRing
<1>2. CASE s = << >>
  <2>1. l = NULL /\ ny = [nx EXCEPT ![t] = t] /\ Len(s) = 0
    BY <1>2 DEF IsRing, Linked
  <2>2. ny[t] = t
    BY <2>1 DEF Links
  <2>3. IsRing(ny, t, r)
    <3>. HIDE DEF ny, r
    <3>1. Len(r) = 1 /\ r[1] = t
      BY <1>1, <2>1
    <3>2. r # << >> /\ \A i, j \in 1..Len(r) : r[i] = r[j] => i = j
      BY <3>1
    <3>. QED
      BY <1>1, <2>2, <3>1, <3>2 DEF IsRing
  <2>. QED
    BY <2>1, <2>3
<1>3. CASE s # << >>
  <2>1. /\ l = s[Len(s)] /\ l \in Thread /\ l # NULL /\ nx[l] = s[1] /\ Len(s) \in 1..Len(s)
        /\ \A i \in 1..(Len(s) - 1) : nx[s[i]] = s[i + 1]
        /\ l # t
    BY <1>3, <1>1, ListsAssumption DEF IsRing
  <2>2. ny = [[nx EXCEPT ![t] = nx[l]] EXCEPT ![l] = t]
    BY <2>1 DEF Linked
  <2>3. ny[t] = s[1] /\ ny[l] = t /\ \A u \in Thread \ {t, l} : ny[u] = nx[u]
    BY <2>1, <2>2 DEF Links
  <2>. HIDE DEF ny, r
  <2>4. \A i \in 1..(Len(r) - 1) : ny[r[i]] = r[i + 1]
    <3>. TAKE i \in 1..(Len(r) - 1)
    <3>1. CASE i = 1
      BY <3>1, <1>1, <2>1, <2>3
    <3>2. CASE i # 1
      <4>1. i \in 2..Len(r) /\ i - 1 \in 1..(Len(s) - 1) /\ i \in 1..Len(s) /\ (i - 1) + 1 = i
        BY <3>2, <1>1
      <4>2. s[i - 1] \in Thread \ {t, l}
        BY <4>1, <1>1, <2>1
      <4>3. r[i] = s[i - 1] /\ r[i + 1] = s[i] /\ nx[s[i - 1]] = s[i]
        BY <4>1, <1>1, <2>1
      <4>. QED
        BY <4>2, <4>3, <2>3
    <3>. QED
      BY <3>1, <3>2
  <2>5. \A i, j \in 1..Len(r) : r[i] = r[j] => i = j
    <3>. TAKE i \in 1..Len(r), j \in 1..Len(r)
    <3>1. CASE i = 1 /\ j = 1
      BY <3>1
    <3>2. CASE i = 1 /\ j # 1
      <4>1. j \in 2..Len(r)
        BY <3>2, <1>1
      <4>2. r[j] = s[j - 1] /\ s[j - 1] # t
        BY <1>1, <4>1
      <4>. QED
        BY <1>1, <3>2, <4>2
    <3>3. CASE i # 1 /\ j = 1
      <4>1. i \in 2..Len(r)
        BY <3>3, <1>1
      <4>2. r[i] = s[i - 1] /\ s[i - 1] # t
        BY <1>1, <4>1
      <4>. QED
        BY <1>1, <3>3, <4>2
    <3>4. CASE i # 1 /\ j # 1
      <4>1. i \in 2..Len(r) /\ j \in 2..Len(r)
        BY <3>4, <1>1
      <4>2. r[i] = s[i - 1] /\ r[j] = s[j - 1] /\ i - 1 \in 1..Len(s) /\ j - 1 \in 1..Len(s)
        BY <1>1, <4>1
      <4>3. r[i] = r[j] => i - 1 = j - 1
        BY <1>1, <4>2
      <4>. QED
        BY <4>1, <4>3
    <3>. QED
      BY <3>1, <3>2, <3>3, <3>4
  <2>6. r # << >> /\ l = r[Len(r)] /\ ny[l] = r[1]
    BY <1>1, <2>1, <2>3
  <2>. QED
    BY <1>1, <2>1, <2>4, <2>5, <2>6 DEF IsRing, ny, r
<1>. QED
  BY <1>2, <1>3

LEMMA ConcatElements ==
    ASSUME NEW a \in Seq(Thread), NEW b \in Seq(Thread)
    PROVE  /\ a \o b \in Seq(Thread) /\ Len(a \o b) = Len(a) + Len(b)
           /\ \A i \in 1..(Len(a) + Len(b)) :
                (a \o b)[i] = IF i <= Len(a) THEN a[i] ELSE b[i - Len(a)]
OBVIOUS

LEMMA WithoutElements ==
    ASSUME NEW s \in Seq(Thread), NEW m \in 1..Len(s)
    PROVE  /\ Queues!WithoutIndex(s, m) \in Seq(Thread)
           /\ Len(Queues!WithoutIndex(s, m)) = Len(s) - 1
           /\ \A i \in 1..(Len(s) - 1) :
                Queues!WithoutIndex(s, m)[i] = IF i < m THEN s[i] ELSE s[i + 1]
<1>. DEFINE a == SubSeq(s, 1, m - 1)
            b == SubSeq(s, m + 1, Len(s))
<1>1. Len(s) \in Nat /\ m \in Int
  OBVIOUS
<1>2. a \in Seq(Thread) /\ Len(a) = m - 1 /\ \A i \in 1..(m - 1) : a[i] = s[i]
  OBVIOUS
<1>3. b \in Seq(Thread) /\ Len(b) = Len(s) - m /\ \A i \in 1..(Len(s) - m) : b[i] = s[m + i]
  OBVIOUS
<1>. HIDE DEF a, b
<1>4. /\ a \o b \in Seq(Thread) /\ Len(a \o b) = Len(s) - 1
      /\ \A i \in 1..(Len(s) - 1) : (a \o b)[i] = IF i <= m - 1 THEN a[i] ELSE b[i - (m - 1)]
  <2>1. a \in Seq(Thread) /\ b \in Seq(Thread)
    BY <1>2, <1>3
  <2>2. a \o b \in Seq(Thread) /\ Len(a \o b) = Len(a) + Len(b)
    BY <2>1, ConcatElements
  <2>3. Len(a \o b) = Len(s) - 1
    BY <1>1, <1>2, <1>3, <2>2
  <2>4. \A i \in 1..(Len(a) + Len(b)) : (a \o b)[i] = IF i <= Len(a) THEN a[i] ELSE b[i - Len(a)]
    BY <2>1, ConcatElements
  <2>. QED
    BY <2>2, <2>3, <2>4, <1>2
<1>5. ASSUME NEW i \in 1..(Len(s) - 1)
      PROVE  (a \o b)[i] = IF i < m THEN s[i] ELSE s[i + 1]
  <2>1. CASE i < m
    BY <1>1, <1>2, <1>4, <2>1
  <2>2. CASE ~(i < m)
    <3>1. i - (m - 1) \in 1..(Len(s) - m) /\ m + (i - (m - 1)) = i + 1
      BY <1>1, <2>2
    <3>. QED
      BY <1>1, <1>3, <1>4, <2>2, <3>1
  <2>. QED
    BY <2>1, <2>2
<1>. QED
  BY <1>4, <1>5 DEF a, b, Queues!WithoutIndex

\* The element before the m-th one, around the circle.
Before(l, s, m) == IF m = 1 THEN l ELSE s[m - 1]

Unlinked(nx, prev, cur) == [[nx EXCEPT ![prev] = nx[cur]] EXCEPT ![cur] = NULL]

\* removeFromQueue() and removeQueueStart(): an element is unlinked from the one before it.
LEMMA RingRemove ==
    ASSUME NEW nx \in Links, NEW l, NEW s, IsRing(nx, l, s), NEW m \in 1..Len(s)
    PROVE  IsRing(Unlinked(nx, Before(l, s, m), s[m]),
                  IF s[m] # l THEN l
                  ELSE IF Before(l, s, m) = s[m] THEN NULL ELSE Before(l, s, m),
                  Queues!WithoutIndex(s, m))
<1>. DEFINE prev == Before(l, s, m)
            cur == s[m]
            ny == Unlinked(nx, prev, cur)
            r == Queues!WithoutIndex(s, m)
            k == IF cur # l THEN l ELSE IF prev = cur THEN NULL ELSE prev
<1>1. /\ s \in Seq(Thread) /\ Len(s) \in Nat /\ Len(s) \in 1..Len(s) /\ s # << >>
      /\ l = s[Len(s)] /\ l \in Thread /\ cur \in Thread /\ l # NULL /\ nx[l] = s[1]
      /\ \A i \in 1..(Len(s) - 1) : nx[s[i]] = s[i + 1]
      /\ \A i, j \in 1..Len(s) : s[i] = s[j] => i = j
      /\ \A i \in 1..Len(s) : s[i] \in Thread
  BY ListsAssumption DEF IsRing
<1>2. /\ r \in Seq(Thread) /\ Len(r) = Len(s) - 1
      /\ \A i \in 1..(Len(s) - 1) : r[i] = IF i < m THEN s[i] ELSE s[i + 1]
  BY <1>1, WithoutElements
<1>3. prev \in Thread /\ (m # 1 => prev = s[m - 1] /\ m - 1 \in 1..Len(s)) /\ (m = 1 => prev = l)
  BY <1>1 DEF Before
<1>4. \A u \in Thread \ {prev, cur} : ny[u] = nx[u]
  BY <1>1, <1>3 DEF Unlinked, Links
<1>5. prev # cur => ny[prev] = nx[cur]
  BY <1>1, <1>3 DEF Unlinked, Links
<1>6. prev = cur <=> Len(s) = 1
  <2>1. CASE m = 1
    <3>1. prev = s[Len(s)] /\ cur = s[1]
      BY <2>1, <1>1, <1>3
    <3>2. 1 \in 1..Len(s) /\ Len(s) \in 1..Len(s)
      BY <1>1
    <3>. QED
      BY <3>1, <3>2, <1>1
  <2>2. CASE m # 1
    <3>1. m - 1 \in 1..Len(s) /\ m - 1 # m /\ prev = s[m - 1] /\ cur = s[m]
      BY <2>2, <1>1, <1>3
    <3>2. prev # cur
      BY <3>1, <1>1
    <3>3. Len(s) # 1
      BY <2>2, <1>1
    <3>. QED
      BY <3>2, <3>3
  <2>. QED
    BY <2>1, <2>2
<1>. HIDE DEF ny, r, prev, cur
<1>7. \A i, j \in 1..Len(r) : r[i] = r[j] => i = j
  <2>. TAKE i \in 1..Len(r), j \in 1..Len(r)
  <2>1. /\ i \in 1..(Len(s) - 1) /\ j \in 1..(Len(s) - 1)
        /\ i \in 1..Len(s) /\ j \in 1..Len(s) /\ i + 1 \in 1..Len(s) /\ j + 1 \in 1..Len(s)
    BY <1>1, <1>2
  <2>2. CASE i < m /\ j < m
    BY <2>1, <2>2, <1>1, <1>2
  <2>3. CASE i < m /\ ~(j < m)
    BY <2>1, <2>3, <1>1, <1>2
  <2>4. CASE ~(i < m) /\ j < m
    BY <2>1, <2>4, <1>1, <1>2
  <2>5. CASE ~(i < m) /\ ~(j < m)
    <3>1. r[i] = s[i + 1] /\ r[j] = s[j + 1]
      BY <2>1, <2>5, <1>2
    <3>2. r[i] = r[j] => i + 1 = j + 1
      BY <1>1, <2>1, <3>1
    <3>. QED
      BY <2>1, <3>2
  <2>. QED
    BY <2>2, <2>3, <2>4, <2>5
<1>8. CASE Len(s) = 1
  <2>1. m = 1 /\ cur = l /\ prev = cur /\ r = << >>
    BY <1>1, <1>2, <1>3, <1>8 DEF cur
  <2>2. IsRing(ny, k, r)
    BY <2>1, <1>2, <1>7 DEF IsRing
  <2>. QED
    BY <2>2 DEF ny, r, prev, cur
<1>9. CASE Len(s) # 1
  <2>1. prev # cur /\ ny[prev] = nx[cur] /\ r # << >> /\ Len(r) \in Nat \ {0}
    BY <1>1, <1>2, <1>5, <1>6, <1>9
  <2>2. \A i \in 1..(Len(r) - 1) : ny[r[i]] = r[i + 1]
    <3>. TAKE i \in 1..(Len(r) - 1)
    <3>1. /\ i \in 1..(Len(s) - 1) /\ i + 1 \in 1..(Len(s) - 1) /\ i \in 1..Len(s)
          /\ i + 1 \in 1..Len(s) /\ i + 2 \in 1..Len(s) /\ (i + 1) + 1 = i + 2
      BY <1>1, <1>2
    <3>2. CASE i < m - 1
      <4>1. r[i] = s[i] /\ r[i + 1] = s[i + 1] /\ nx[s[i]] = s[i + 1]
        BY <3>1, <3>2, <1>1, <1>2
      <4>2. i # m /\ i # m - 1 /\ i # Len(s) /\ m # 1
        BY <3>1, <3>2, <1>1
      <4>3. s[i] # cur /\ s[i] # prev
        BY <4>2, <3>1, <1>1, <1>3 DEF cur
      <4>. QED
        BY <4>1, <4>3, <3>1, <1>1, <1>4
    <3>3. CASE i = m - 1
      <4>1. r[i] = s[i] /\ r[i + 1] = s[i + 2]
        BY <3>1, <3>3, <1>2
      <4>2. prev = s[i] /\ cur = s[i + 1] /\ nx[cur] = s[i + 2]
        BY <3>1, <3>3, <1>1, <1>3 DEF cur
      <4>. QED
        BY <4>1, <4>2, <2>1
    <3>4. CASE i >= m
      <4>1. r[i] = s[i + 1] /\ r[i + 1] = s[i + 2] /\ nx[s[i + 1]] = s[i + 2]
        BY <3>1, <3>4, <1>1, <1>2
      <4>2. i + 1 # m /\ i + 1 # m - 1 /\ i + 1 # Len(s)
        BY <3>1, <3>4, <1>1
      <4>3. s[i + 1] # cur /\ s[i + 1] # prev
        BY <4>2, <3>1, <1>1, <1>3 DEF cur
      <4>. QED
        BY <4>1, <4>3, <3>1, <1>1, <1>4
    <3>. QED
      BY <3>1, <3>2, <3>3, <3>4
  <2>3. k = r[Len(r)] /\ ny[k] = r[1]
    <3>1. CASE m = Len(s)
      <4>1. cur = l /\ k = prev /\ prev = s[Len(s) - 1] /\ nx[cur] = s[1]
        BY <3>1, <2>1, <1>1, <1>3, <1>9 DEF cur
      <4>2. r[Len(r)] = s[Len(s) - 1] /\ r[1] = s[1]
        BY <3>1, <1>1, <1>2, <1>9, <2>1
      <4>. QED
        BY <4>1, <4>2, <2>1
    <3>2. CASE m # Len(s)
      <4>1. cur # l /\ k = l
        BY <3>2, <1>1 DEF cur
      <4>2. r[Len(r)] = s[Len(s)]
        BY <3>2, <1>1, <1>2, <2>1
      <4>3. CASE m = 1
        <5>1. prev = l /\ cur = s[1] /\ nx[s[1]] = s[2] /\ r[1] = s[2]
          BY <4>3, <3>2, <1>1, <1>2, <1>3, <1>9 DEF cur
        <5>. QED
          BY <5>1, <4>1, <4>2, <1>1, <2>1
      <4>4. CASE m # 1
        <5>1. prev = s[m - 1] /\ m - 1 # Len(s) /\ prev # l /\ r[1] = s[1]
          BY <4>4, <3>2, <1>1, <1>2, <1>3, <1>9
        <5>. QED
          BY <5>1, <4>1, <4>2, <1>1, <1>4
      <4>. QED
        BY <4>3, <4>4
    <3>. QED
      BY <3>1, <3>2
  <2>4. IsRing(ny, k, r)
    BY <1>2, <1>7, <2>1, <2>2, <2>3 DEF IsRing
  <2>. QED
    BY <2>4 DEF ny, r, prev, cur
<1>. QED
  BY <1>8, <1>9

----------------------------------------------------------------------------
(* The queues implement ThreadQueues *)

\* The threads on queue q; that they are on it once, and on no other queue.
Listed(q) == ListOf(nextThread, last[q])

QueueInv ==
    /\ nextThread \in Links
    /\ last \in [Queue -> Thread \cup {NULL}]
    /\ \A q \in Queue : IsRing(nextThread, last[q], Listed(q))
    /\ \A p, q \in Queue : p # q =>
         \A i \in 1..Len(Listed(p)), j \in 1..Len(Listed(q)) : Listed(p)[i] # Listed(q)[j]

\* The operators of CircularQueue are those of this module on the present links.
LEMMA QueueWalks ==
    /\ \A q, t : Queues!StepsTo(q, t) = StepsOf(nextThread, last[q], t)
    /\ \A p : Queues!Hops(p) = WalkOf(nextThread, p, NThreads)
    /\ \A q : Queues!Contents(q) = Listed(q)
    /\ \A q : Queues!Contents(q)' = Listed(q)'
<1>. Queues!Cardinality(Thread) = NThreads
  BY DEF Queues!Cardinality, Cardinality, NThreads
<1>1. \A p : Queues!Hops(p) = WalkOf(nextThread, p, NThreads)
  BY DEF Queues!Hops, WalkOf
<1>2. ASSUME NEW q, NEW t PROVE Queues!StepsTo(q, t) = StepsOf(nextThread, last[q], t)
  BY <1>1 DEF Queues!StepsTo, StepsOf
<1>3. \A q : Queues!Contents(q) = Listed(q)
  BY <1>1, <1>2 DEF Queues!Contents, Listed, ListOf
<1>4. \A p : Queues!Hops(p)' = WalkOf(nextThread', p, NThreads)
  BY DEF Queues!Hops, WalkOf
<1>5. ASSUME NEW q, NEW t PROVE Queues!StepsTo(q, t)' = StepsOf(nextThread', last'[q], t)
  BY <1>4 DEF Queues!StepsTo, StepsOf
<1>6. \A q : Queues!Contents(q)' = Listed(q)'
  BY <1>4, <1>5 DEF Queues!Contents, Listed, ListOf
<1>. QED
  BY <1>1, <1>2, <1>3, <1>6

QueueMap == [q \in Queue |-> Queues!Contents(q)]

\* A routine changes one queue, and links of threads that are on no other.
LEMMA QueueStep ==
    ASSUME QueueInv, NEW q \in Queue, NEW r,
           nextThread' \in Links,
           last' \in [Queue -> Thread \cup {NULL}],
           IsRing(nextThread', last'[q], r),
           \A p \in Queue \ {q} :
              /\ last'[p] = last[p]
              /\ \A i \in 1..Len(Listed(p)) : nextThread'[Listed(p)[i]] = nextThread[Listed(p)[i]]
              /\ \A i \in 1..Len(Listed(p)), j \in 1..Len(r) : Listed(p)[i] # r[j]
    PROVE  QueueInv' /\ QueueMap' = [QueueMap EXCEPT ![q] = r]
<1>1. Listed(q)' = r
  BY RingList DEF Listed
<1>2. ASSUME NEW p \in Queue \ {q}
      PROVE  IsRing(nextThread', last'[p], Listed(p)) /\ Listed(p)' = Listed(p)
  <2>1. IsRing(nextThread, last[p], Listed(p))
    BY DEF QueueInv
  <2>2. IsRing(nextThread', last[p], Listed(p))
    BY <2>1, RingApart
  <2>3. last'[p] = last[p]
    OBVIOUS
  <2>4. ListOf(nextThread', last'[p]) = Listed(p)
    BY <2>2, <2>3, RingList
  <2>5. Listed(p)' = ListOf(nextThread', last'[p])
    BY DEF Listed
  <2>. QED
    BY <2>2, <2>3, <2>4, <2>5
<1>3. \A p \in Queue : IsRing(nextThread', last'[p], Listed(p)')
  BY <1>1, <1>2
<1>4. ASSUME NEW p \in Queue, NEW u \in Queue, p # u,
             NEW i \in 1..Len(Listed(p)'), NEW j \in 1..Len(Listed(u)')
      PROVE  Listed(p)'[i] # Listed(u)'[j]
  <2>1. CASE p = q
    BY <2>1, <1>1, <1>2, <1>4
  <2>2. CASE u = q
    BY <2>2, <1>1, <1>2, <1>4
  <2>3. CASE p # q /\ u # q
    BY <2>3, <1>2, <1>4 DEF QueueInv
  <2>. QED
    BY <2>1, <2>2, <2>3
<1>5. QueueInv'
  BY <1>3, <1>4 DEF QueueInv
<1>6. QueueMap' = [p \in Queue |-> Listed(p)']
  BY QueueWalks DEF QueueMap
<1>7. QueueMap = [p \in Queue |-> Listed(p)]
  BY QueueWalks DEF QueueMap
<1>. QED
  BY <1>1, <1>2, <1>5, <1>6, <1>7

\* The operators of ThreadQueue, by the position of the thread.
LEMMA QueueOperators ==
    ASSUME NEW s \in Seq(Thread), \A i, j \in 1..Len(s) : s[i] = s[j] => i = j,
           NEW t \in Thread
    PROVE  /\ t \in Queues!TQ!OnQueue(s) <=> \E m \in 1..Len(s) : s[m] = t
           /\ (\A i \in 1..Len(s) : s[i] # t) =>
                 /\ Queues!TQ!AddThreadToQueue(s, t) = Append(s, t)
                 /\ Queues!TQ!RemoveFromQueue(s, t) = s
           /\ \A m \in 1..Len(s) : s[m] = t =>
                 /\ Queues!TQ!AddThreadToQueue(s, t) =
                      (IF m = Len(s) THEN <<t>> ELSE SubSeq(s, 1, m))
                 /\ Queues!TQ!RemoveFromQueue(s, t) = Queues!WithoutIndex(s, m)
<1>1. t \in Queues!TQ!OnQueue(s) <=> \E m \in 1..Len(s) : s[m] = t
  BY DEF Queues!TQ!OnQueue
<1>2. ASSUME \A i \in 1..Len(s) : s[i] # t
      PROVE  /\ Queues!TQ!AddThreadToQueue(s, t) = Append(s, t)
             /\ Queues!TQ!RemoveFromQueue(s, t) = s
  BY <1>1, <1>2 DEF Queues!TQ!AddThreadToQueue, Queues!TQ!RemoveFromQueue
<1>3. ASSUME NEW m \in 1..Len(s), s[m] = t
      PROVE  /\ Queues!TQ!AddThreadToQueue(s, t) =
                  (IF m = Len(s) THEN <<t>> ELSE SubSeq(s, 1, m))
             /\ Queues!TQ!RemoveFromQueue(s, t) = Queues!WithoutIndex(s, m)
  <2>1. t \in Queues!TQ!OnQueue(s) /\ Len(s) \in Nat /\ Len(s) \in 1..Len(s)
    BY <1>1, <1>3
  <2>2. Queues!TQ!IndexOf(s, t) = m
    BY <1>3, <2>1 DEF Queues!TQ!IndexOf
  <2>3. s[Len(s)] = t <=> m = Len(s)
    BY <1>3, <2>1
  <2>4. Queues!TQ!AddThreadToQueue(s, t) =
            (IF m = Len(s) THEN <<t>> ELSE SubSeq(s, 1, m))
    BY <2>1, <2>2, <2>3 DEF Queues!TQ!AddThreadToQueue
  <2>5. Queues!TQ!RemoveFromQueue(s, t) = Queues!WithoutIndex(s, m)
    BY <2>1, <2>2 DEF Queues!TQ!RemoveFromQueue, Queues!TQ!WithoutIndex, Queues!WithoutIndex
  <2>. QED
    BY <2>4, <2>5
<1>. QED
  BY <1>1, <1>2, <1>3

\* What the invariant says of one queue.
LEMMA QueueFacts ==
    ASSUME QueueInv, NEW q \in Queue
    PROVE  /\ IsRing(nextThread, last[q], Listed(q))
           /\ Listed(q) \in Seq(Thread)
           /\ \A i, j \in 1..Len(Listed(q)) : Listed(q)[i] = Listed(q)[j] => i = j
           /\ last[q] = NULL <=> Listed(q) = << >>
           /\ Listed(q) # << >> =>
                /\ last[q] \in Thread
                /\ Len(Listed(q)) \in 1..Len(Listed(q)) /\ Listed(q)[Len(Listed(q))] = last[q]
                /\ nextThread[last[q]] = Listed(q)[1]
           /\ QueueMap[q] = Listed(q)
<1>1. IsRing(nextThread, last[q], Listed(q))
  BY DEF QueueInv
<1>2. QueueMap[q] = Listed(q)
  BY QueueWalks DEF QueueMap
<1>. QED
  BY <1>1, <1>2, ListsAssumption DEF IsRing

LEMMA AddAtEndStep ==
    ASSUME QueueInv, NEW q \in Queue, NEW t \in Thread, Queues!AddAtEnd(q, t)
    PROVE  QueueInv' /\ Queues!TQ!AddAtEnd(q, t)
<1>. DEFINE s == Listed(q)
            l == last[q]
<1>1. /\ IsRing(nextThread, l, s) /\ s \in Seq(Thread) /\ QueueMap[q] = s
      /\ \A i, j \in 1..Len(s) : s[i] = s[j] => i = j
      /\ l = NULL <=> s = << >>
      /\ s # << >> => l \in Thread /\ Len(s) \in 1..Len(s) /\ s[Len(s)] = l
  BY QueueFacts
<1>2. /\ nextThread' = Linked(nextThread, l, t)
      /\ last' = [last EXCEPT ![q] = t]
      /\ result' = NULL
  BY DEF Queues!AddAtEnd, Linked
<1>3. nextThread \in Links /\ last \in [Queue -> Thread \cup {NULL}]
  BY DEF QueueInv
<1>4. /\ nextThread' \in Links /\ last' \in [Queue -> Thread \cup {NULL}] /\ last'[q] = t
      /\ \A p \in Queue \ {q} : last'[p] = last[p]
      /\ \A u \in Thread \ {t, l} : nextThread'[u] = nextThread[u]
  BY <1>1, <1>2, <1>3 DEF Linked, Links
<1>5. ASSUME NEW p \in Queue \ {q}, NEW i \in 1..Len(Listed(p))
      PROVE  /\ Listed(p)[i] \in Thread \ {t, l}
             /\ \A j \in 1..Len(s) : Listed(p)[i] # s[j]
  <2>1. Listed(p) \in Seq(Thread)
    BY QueueFacts
  <2>2. Listed(p)[i] \in Thread
    BY <2>1
  <2>3. \A j \in 1..Len(s) : Listed(p)[i] # s[j]
    BY DEF QueueInv
  <2>4. Listed(p)[i] # l
    BY <1>1, <2>2, <2>3, ListsAssumption
  <2>5. t \notin Queues!OnQueue(Listed(p))
    BY QueueWalks DEF Queues!AddAtEnd, Queues!Elsewhere
  <2>6. Listed(p)[i] # t
    BY <2>1, <2>5 DEF Queues!OnQueue
  <2>. QED
    BY <2>2, <2>3, <2>4, <2>6
<1>. DEFINE r == Queues!TQ!AddThreadToQueue(s, t)
<1>6. IsRing(nextThread', t, r) /\ \A j \in 1..Len(r) : r[j] = t \/ \E k \in 1..Len(s) : r[j] = s[k]
  <2>. HIDE DEF s, l
  <2>1. CASE \A i \in 1..Len(s) : s[i] # t
    <3>1. r = Append(s, t)
      BY <1>1, <2>1, QueueOperators
    <3>2. IsRing(nextThread', t, r)
      BY <1>1, <1>2, <1>3, <2>1, <3>1, RingAppend
    <3>. QED
      BY <1>1, <3>1, <3>2
  <2>2. ASSUME NEW m \in 1..Len(s), s[m] = t
        PROVE  IsRing(nextThread', t, r) /\ \A j \in 1..Len(r) : \E k \in 1..Len(s) : r[j] = s[k]
    <3>1. r = IF m = Len(s) THEN <<t>> ELSE SubSeq(s, 1, m)
      BY <1>1, <2>2, QueueOperators
    <3>2. IsRing(nextThread', t, r)
      BY <1>1, <1>2, <1>3, <2>2, <3>1, RingCut
    <3>3. ASSUME NEW j \in 1..Len(r) PROVE \E k \in 1..Len(s) : r[j] = s[k]
      <4>1. CASE m = Len(s)
        BY <2>2, <3>1, <4>1
      <4>2. CASE m # Len(s)
        BY <1>1, <2>2, <3>1, <4>2
      <4>. QED
        BY <4>1, <4>2
    <3>. QED
      BY <3>2, <3>3
  <2>. QED
    BY <2>1, <2>2
<1>7. ASSUME NEW p \in Queue \ {q}
      PROVE  /\ last'[p] = last[p]
             /\ \A i \in 1..Len(Listed(p)) : nextThread'[Listed(p)[i]] = nextThread[Listed(p)[i]]
             /\ \A i \in 1..Len(Listed(p)), j \in 1..Len(r) : Listed(p)[i] # r[j]
  BY <1>4, <1>5, <1>6
<1>8. QueueInv' /\ QueueMap' = [QueueMap EXCEPT ![q] = r]
  <2>. HIDE DEF r, s, l
  <2>. QED
    BY <1>4, <1>6, <1>7, QueueStep
<1>. QED
  BY <1>1, <1>2, <1>8 DEF Queues!TQ!AddAtEnd, QueueMap

LEMMA AddAtStartStep ==
    ASSUME QueueInv, NEW q \in Queue, NEW t \in Thread, Queues!AddAtStart(q, t)
    PROVE  QueueInv' /\ Queues!TQ!AddAtStart(q, t)
<1>. DEFINE s == Listed(q)
            l == last[q]
            r == Queues!TQ!PushThreadOnQueue(s, t)
<1>1. /\ IsRing(nextThread, l, s) /\ s \in Seq(Thread) /\ QueueMap[q] = s
      /\ l = NULL <=> s = << >>
      /\ s # << >> => l \in Thread /\ Len(s) \in 1..Len(s) /\ s[Len(s)] = l
  BY QueueFacts
<1>2. nextThread \in Links /\ last \in [Queue -> Thread \cup {NULL}]
  BY DEF QueueInv
<1>3. /\ nextThread' = Linked(nextThread, l, t)
      /\ last' = [last EXCEPT ![q] = IF l = NULL THEN t ELSE l]
      /\ result' = NULL
  BY <1>2 DEF Queues!AddAtStart, Linked
<1>4. /\ nextThread' \in Links /\ last' \in [Queue -> Thread \cup {NULL}]
      /\ last'[q] = IF l = NULL THEN t ELSE l
      /\ \A p \in Queue \ {q} : last'[p] = last[p]
      /\ \A u \in Thread \ {t, l} : nextThread'[u] = nextThread[u]
  BY <1>1, <1>2, <1>3 DEF Linked, Links
<1>5. ASSUME NEW p \in Queue, NEW i \in 1..Len(Listed(p))
      PROVE  Listed(p)[i] \in Thread \ {t}
  <2>1. Listed(p) \in Seq(Thread)
    BY QueueFacts
  <2>2. t \notin Queues!OnQueue(Listed(p))
    BY QueueWalks DEF Queues!AddAtStart
  <2>. QED
    BY <2>1, <2>2 DEF Queues!OnQueue
<1>6. ASSUME NEW p \in Queue \ {q}, NEW i \in 1..Len(Listed(p))
      PROVE  Listed(p)[i] # l /\ \A j \in 1..Len(s) : Listed(p)[i] # s[j]
  <2>1. \A j \in 1..Len(s) : Listed(p)[i] # s[j]
    BY DEF QueueInv
  <2>. QED
    BY <1>1, <1>5, <2>1, ListsAssumption
<1>7. r = <<t>> \o s
  BY DEF Queues!TQ!PushThreadOnQueue
<1>8. IsRing(nextThread', last'[q], r)
  <2>. HIDE DEF s, l, r
  <2>1. \A i \in 1..Len(s) : s[i] # t
    BY <1>5 DEF s
  <2>. QED
    BY <1>1, <1>2, <1>3, <1>4, <1>7, <2>1, RingPush
<1>9. \A j \in 1..Len(r) : r[j] = t \/ \E k \in 1..Len(s) : r[j] = s[k]
  <2>1. s \in Seq(Thread)
    BY <1>1
  <2>. HIDE DEF s, r
  <2>. QED
    BY <2>1, <1>7
<1>10. ASSUME NEW p \in Queue \ {q}
       PROVE  /\ last'[p] = last[p]
              /\ \A i \in 1..Len(Listed(p)) : nextThread'[Listed(p)[i]] = nextThread[Listed(p)[i]]
              /\ \A i \in 1..Len(Listed(p)), j \in 1..Len(r) : Listed(p)[i] # r[j]
  <2>. HIDE DEF s, r, l
  <2>. QED
    BY <1>4, <1>5, <1>6, <1>9
<1>11. QueueInv' /\ QueueMap' = [QueueMap EXCEPT ![q] = r]
  <2>. HIDE DEF r, s, l
  <2>. QED
    BY <1>4, <1>8, <1>10, QueueStep
<1>12. t \notin Queues!TQ!OnQueue(s)
  BY <1>1, <1>5 DEF Queues!TQ!OnQueue
<1>. QED
  BY <1>1, <1>3, <1>11, <1>12 DEF Queues!TQ!AddAtStart, QueueMap

\* The m-th element of a queue is unlinked, whichever routine does it.
LEMMA UnlinkStep ==
    ASSUME QueueInv, NEW q \in Queue, NEW m \in 1..Len(Listed(q)),
           nextThread' = Unlinked(nextThread, Before(last[q], Listed(q), m), Listed(q)[m]),
           last' = [last EXCEPT ![q] =
                      IF Listed(q)[m] # last[q] THEN last[q]
                      ELSE IF Before(last[q], Listed(q), m) = Listed(q)[m] THEN NULL
                      ELSE Before(last[q], Listed(q), m)]
    PROVE  /\ QueueInv'
           /\ QueueMap' = [QueueMap EXCEPT ![q] = Queues!WithoutIndex(Listed(q), m)]
<1>. DEFINE s == Listed(q)
            l == last[q]
            prev == Before(l, s, m)
            r == Queues!WithoutIndex(s, m)
<1>1. /\ IsRing(nextThread, l, s) /\ s \in Seq(Thread) /\ s # << >> /\ l \in Thread
      /\ s[m] \in Thread /\ Len(s) \in 1..Len(s) /\ s[Len(s)] = l
  <2>1. IsRing(nextThread, l, s) /\ s \in Seq(Thread) /\ s # << >> /\ s[m] \in Thread
    BY QueueFacts
  <2>. QED
    BY <2>1, QueueFacts
<1>2. \E k \in 1..Len(s) : prev = s[k]
  <2>1. m = 1 \/ m - 1 \in 1..Len(s)
    BY <1>1
  <2>. HIDE DEF s, l
  <2>. QED
    BY <1>1, <2>1 DEF Before
<1>3. prev \in Thread
  BY <1>1, <1>2
<1>4. nextThread \in Links /\ last \in [Queue -> Thread \cup {NULL}]
  BY DEF QueueInv
<1>5. /\ nextThread' \in Links
      /\ \A u \in Thread \ {prev, s[m]} : nextThread'[u] = nextThread[u]
  <2>1. nextThread' = [[nextThread EXCEPT ![prev] = nextThread[s[m]]] EXCEPT ![s[m]] = NULL]
    BY DEF Unlinked
  <2>. HIDE DEF s, prev
  <2>. QED
    BY <1>1, <1>3, <1>4, <2>1 DEF Links
<1>6. /\ last' \in [Queue -> Thread \cup {NULL}]
      /\ last'[q] = IF s[m] # l THEN l ELSE IF prev = s[m] THEN NULL ELSE prev
      /\ \A p \in Queue \ {q} : last'[p] = last[p]
  BY <1>1, <1>3, <1>4
<1>7. IsRing(nextThread', last'[q], r)
  BY <1>1, <1>4, <1>6, RingRemove
<1>8. \A j \in 1..Len(r) : \E k \in 1..Len(s) : r[j] = s[k]
  <2>1. s \in Seq(Thread) /\ Len(s) \in Nat
    BY <1>1
  <2>2. Len(r) = Len(s) - 1 /\ \A i \in 1..(Len(s) - 1) : r[i] = IF i < m THEN s[i] ELSE s[i + 1]
    BY <2>1, WithoutElements
  <2>. HIDE DEF s, r
  <2>. QED
    BY <2>1, <2>2
<1>9. ASSUME NEW p \in Queue \ {q}, NEW i \in 1..Len(Listed(p))
      PROVE  Listed(p)[i] \in Thread /\ \A j \in 1..Len(s) : Listed(p)[i] # s[j]
  <2>1. Listed(p) \in Seq(Thread)
    BY QueueFacts
  <2>. QED
    BY <2>1 DEF QueueInv
<1>10. ASSUME NEW p \in Queue \ {q}
       PROVE  /\ last'[p] = last[p]
              /\ \A i \in 1..Len(Listed(p)) : nextThread'[Listed(p)[i]] = nextThread[Listed(p)[i]]
              /\ \A i \in 1..Len(Listed(p)), j \in 1..Len(r) : Listed(p)[i] # r[j]
  <2>. m \in 1..Len(s)
    OBVIOUS
  <2>. HIDE DEF s, r, prev, l
  <2>1. \A i \in 1..Len(Listed(p)) : Listed(p)[i] \in Thread \ {prev, s[m]}
    BY <1>2, <1>9
  <2>2. \A i \in 1..Len(Listed(p)) : nextThread'[Listed(p)[i]] = nextThread[Listed(p)[i]]
    BY <1>5, <2>1
  <2>3. \A i \in 1..Len(Listed(p)), j \in 1..Len(r) : Listed(p)[i] # r[j]
    BY <1>8, <1>9
  <2>. QED
    BY <1>6, <2>2, <2>3
<1>. HIDE DEF r
<1>11. QueueInv' /\ QueueMap' = [QueueMap EXCEPT ![q] = r]
  BY <1>5, <1>6, <1>7, <1>10, QueueStep
<1>. QED
  BY <1>11 DEF r

\* A routine that finds nothing to remove.
LEMMA NothingRemoved ==
    ASSUME QueueInv, UNCHANGED <<nextThread, last>>
    PROVE  QueueInv' /\ QueueMap' = QueueMap
<1>1. \A q : Listed(q)' = Listed(q)
  BY DEF Listed
<1>2. QueueInv'
  BY <1>1 DEF QueueInv
<1>3. QueueMap' = [q \in Queue |-> Listed(q)'] /\ QueueMap = [q \in Queue |-> Listed(q)]
  BY QueueWalks DEF QueueMap
<1>. QED
  BY <1>1, <1>2, <1>3

LEMMA RemoveStartStep ==
    ASSUME QueueInv, NEW q \in Queue, Queues!RemoveStart(q)
    PROVE  QueueInv' /\ Queues!TQ!RemoveStart(q)
<1>. DEFINE s == Listed(q)
            l == last[q]
<1>1. /\ IsRing(nextThread, l, s) /\ s \in Seq(Thread) /\ QueueMap[q] = s
      /\ \A i, j \in 1..Len(s) : s[i] = s[j] => i = j
      /\ l = NULL <=> s = << >>
      /\ s # << >> => /\ l \in Thread /\ Len(s) \in 1..Len(s) /\ s[Len(s)] = l
                      /\ nextThread[l] = s[1]
  BY QueueFacts
<1>2. CASE l = NULL
  <2>1. s = << >> /\ UNCHANGED <<nextThread, last>> /\ result' = NULL
    BY <1>1, <1>2 DEF Queues!RemoveStart
  <2>2. QueueInv' /\ QueueMap' = QueueMap
    BY <2>1, NothingRemoved
  <2>3. Queues!TQ!QueueStart(s, NULL) = NULL /\ Queues!TQ!RemoveQueueStart(s) = s
    BY <2>1 DEF Queues!TQ!QueueStart, Queues!TQ!RemoveQueueStart
  <2>4. [QueueMap EXCEPT ![q] = s] = QueueMap
    <3>. HIDE DEF s
    <3>. QED
      BY <1>1 DEF QueueMap
  <2>. QED
    BY <1>1, <2>1, <2>2, <2>3, <2>4 DEF Queues!TQ!RemoveStart, QueueMap
<1>3. CASE l # NULL
  <2>1. s # << >> /\ 1 \in 1..Len(s) /\ Before(l, s, 1) = l /\ s[1] \in Thread /\ l \in Thread
    BY <1>1, <1>3 DEF Before
  <2>2. nextThread \in Links /\ last \in [Queue -> Thread \cup {NULL}]
    BY DEF QueueInv
  <2>3. ASSUME s[1] = l
        PROVE  /\ nextThread' = Unlinked(nextThread, l, s[1]) /\ result' = s[1]
               /\ last' = [last EXCEPT ![q] = NULL]
    <3>1. /\ nextThread' = [nextThread EXCEPT ![l] = NULL]
          /\ last' = [last EXCEPT ![q] = NULL] /\ result' = s[1]
      BY <1>1, <1>3, <2>1, <2>3 DEF Queues!RemoveStart
    <3>2. [nextThread EXCEPT ![l] = NULL] = Unlinked(nextThread, l, l)
      BY <2>1, <2>2 DEF Unlinked, Links
    <3>. QED
      BY <2>1, <2>3, <3>1, <3>2
  <2>4. ASSUME s[1] # l
        PROVE  /\ nextThread' = Unlinked(nextThread, l, s[1]) /\ result' = s[1]
               /\ last' = [last EXCEPT ![q] = l]
    <3>1. /\ nextThread' = Unlinked(nextThread, l, s[1])
          /\ last' = last /\ result' = s[1]
      BY <1>1, <1>3, <2>1, <2>4 DEF Queues!RemoveStart, Unlinked
    <3>2. last = [last EXCEPT ![q] = l]
      BY <2>2
    <3>. QED
      BY <2>1, <2>4, <3>1, <3>2
  <2>5. /\ nextThread' = Unlinked(nextThread, l, s[1]) /\ result' = s[1]
        /\ last' = [last EXCEPT ![q] = IF s[1] # l THEN l ELSE NULL]
    BY <2>3, <2>4
  <2>6. QueueInv' /\ QueueMap' = [QueueMap EXCEPT ![q] = Queues!WithoutIndex(s, 1)]
    BY <2>1, <2>5, UnlinkStep
  <2>7. Queues!WithoutIndex(s, 1) = Tail(s)
    <3>1. Len(s) \in Nat \ {0} /\ s \in Seq(Thread)
      BY <1>1, <2>1
    <3>. HIDE DEF s
    <3>. DEFINE r == Queues!WithoutIndex(s, 1)
    <3>2. r \in Seq(Thread) /\ Len(r) = Len(s) - 1 /\ \A i \in 1..(Len(s) - 1) : r[i] = s[i + 1]
      BY <3>1, <2>1, WithoutElements
    <3>3. Tail(s) \in Seq(Thread) /\ Len(Tail(s)) = Len(s) - 1
          /\ \A i \in 1..(Len(s) - 1) : Tail(s)[i] = s[i + 1]
      BY <3>1, <2>1
    <3>. HIDE DEF r
    <3>4. r = Tail(s)
      BY <3>1, <3>2, <3>3
    <3>. QED
      BY <3>4 DEF r
  <2>8. Queues!TQ!QueueStart(s, NULL) = s[1] /\ Queues!TQ!RemoveQueueStart(s) = Tail(s)
    BY <1>1, <2>1 DEF Queues!TQ!QueueStart, Queues!TQ!RemoveQueueStart
  <2>. QED
    BY <1>1, <2>5, <2>6, <2>7, <2>8 DEF Queues!TQ!RemoveStart, QueueMap
<1>. QED
  BY <1>2, <1>3

LEMMA RemoveStep ==
    ASSUME QueueInv, NEW q \in Queue, NEW t \in Thread, Queues!Remove(q, t)
    PROVE  QueueInv' /\ Queues!TQ!Remove(q, t)
<1>. DEFINE s == Listed(q)
            l == last[q]
            n == StepsOf(nextThread, l, t)
<1>1. /\ IsRing(nextThread, l, s) /\ s \in Seq(Thread) /\ QueueMap[q] = s
      /\ \A i, j \in 1..Len(s) : s[i] = s[j] => i = j
      /\ l = NULL <=> s = << >>
      /\ s # << >> => /\ l \in Thread /\ Len(s) \in 1..Len(s) /\ s[Len(s)] = l
  BY QueueFacts
<1>2. ASSUME \A i \in 1..Len(s) : s[i] # t
      PROVE  QueueInv' /\ Queues!TQ!Remove(q, t)
  <2>1. result' = FALSE /\ UNCHANGED <<nextThread, last>>
    <3>1. CASE l = NULL
      BY <3>1 DEF Queues!Remove
    <3>2. CASE l # NULL
      <4>1. n = Len(s)
        BY <1>1, <1>2, <3>2, RingSteps
      <4>2. WalkOf(nextThread, l, NThreads)[n] = s[n]
        BY <1>1, <3>2, <4>1, RingWalk
      <4>3. Queues!Hops(l)[Queues!StepsTo(q, t)] # t
        BY <1>1, <1>2, <3>2, <4>1, <4>2, QueueWalks
      <4>. QED
        BY <3>2, <4>3 DEF Queues!Remove
    <3>. QED
      BY <3>1, <3>2
  <2>2. QueueInv' /\ QueueMap' = QueueMap
    BY <2>1, NothingRemoved
  <2>3. t \notin Queues!TQ!OnQueue(s) /\ Queues!TQ!RemoveFromQueue(s, t) = s
    BY <1>1, <1>2, QueueOperators
  <2>4. [QueueMap EXCEPT ![q] = s] = QueueMap
    <3>. HIDE DEF s
    <3>. QED
      BY <1>1 DEF QueueMap
  <2>. QED
    <3>1. result' = (t \in Queues!TQ!OnQueue(s))
      <4>1. t \notin Queues!TQ!OnQueue(s)
        BY <2>3
      <4>2. \A x, S : x \notin S => (x \in S) = FALSE
        OBVIOUS
      <4>3. (t \in Queues!TQ!OnQueue(s)) = FALSE
        BY <4>1, <4>2
      <4>. QED
        BY <2>1, <4>3
    <3>2. QueueMap' = [QueueMap EXCEPT ![q] = Queues!TQ!RemoveFromQueue(QueueMap[q], t)]
      BY <1>1, <2>2, <2>3, <2>4
    <3>. QED
      BY <1>1, <2>2, <3>1, <3>2 DEF Queues!TQ!Remove, QueueMap
<1>3. ASSUME NEW m \in 1..Len(s), s[m] = t
      PROVE  QueueInv' /\ Queues!TQ!Remove(q, t)
  <2>1. s # << >> /\ l # NULL /\ Len(s) \in Nat
    BY <1>1, <1>3
  <2>2. n = m
    BY <1>1, <1>3, <2>1, RingSteps
  <2>3. /\ WalkOf(nextThread, l, NThreads)[m] = t
        /\ WalkOf(nextThread, l, NThreads)[m - 1] = Before(l, s, m)
    <3>1. WalkOf(nextThread, l, NThreads)[0] = l /\ \A k \in 1..Len(s) : WalkOf(nextThread, l, NThreads)[k] = s[k]
      BY <1>1, <2>1, RingWalk
    <3>2. m = 1 \/ m - 1 \in 1..Len(s)
      BY <2>1
    <3>. HIDE DEF s, l
    <3>. QED
      BY <1>3, <3>1, <3>2 DEF Before
  <2>4. /\ Queues!Hops(l)[Queues!StepsTo(q, t)] = t
        /\ Queues!Hops(l)[Queues!StepsTo(q, t) - 1] = Before(l, s, m)
    BY <2>2, <2>3, QueueWalks
  <2>5. /\ nextThread' = [[nextThread EXCEPT ![Before(l, s, m)] = nextThread[t]] EXCEPT ![t] = NULL]
        /\ last' = IF t # l THEN last
                   ELSE [last EXCEPT ![q] = IF Before(l, s, m) = t THEN NULL ELSE Before(l, s, m)]
        /\ result' = TRUE
    <3>. HIDE DEF s
    <3>. QED
      BY <2>1, <2>4 DEF Queues!Remove
  <2>6. last = [last EXCEPT ![q] = l]
    BY DEF QueueInv
  <2>7. last' = [last EXCEPT ![q] = IF t # l THEN l
                                    ELSE IF Before(l, s, m) = t THEN NULL ELSE Before(l, s, m)]
    BY <2>5, <2>6
  <2>8. nextThread' = Unlinked(nextThread, Before(l, s, m), t)
    BY <2>5 DEF Unlinked
  <2>9. QueueInv' /\ QueueMap' = [QueueMap EXCEPT ![q] = Queues!WithoutIndex(s, m)]
    BY <1>3, <2>7, <2>8, UnlinkStep
  <2>10. t \in Queues!TQ!OnQueue(s) /\ Queues!TQ!RemoveFromQueue(s, t) = Queues!WithoutIndex(s, m)
    BY <1>1, <1>3, QueueOperators
  <2>. QED
    BY <1>1, <2>5, <2>9, <2>10 DEF Queues!TQ!Remove, QueueMap
<1>. QED
  BY <1>2, <1>3

LEMMA QueueInit ==
    Queues!Init => QueueInv /\ Queues!TQ!Init
<1>. SUFFICES ASSUME Queues!Init PROVE QueueInv /\ Queues!TQ!Init
  OBVIOUS
<1>1. \A q \in Queue : last[q] = NULL /\ Listed(q) = << >>
  BY DEF Queues!Init, Listed, ListOf
<1>2. QueueInv
  <2>1. nextThread \in Links /\ last \in [Queue -> Thread \cup {NULL}]
    BY DEF Queues!Init, Links
  <2>2. \A nx : IsRing(nx, NULL, << >>)
    BY DEF IsRing
  <2>. QED
    BY <1>1, <2>1, <2>2 DEF QueueInv
<1>3. QueueMap = [q \in Queue |-> << >>]
  BY <1>1, QueueWalks DEF QueueMap
<1>. QED
  BY <1>2, <1>3 DEF Queues!TQ!Init, QueueMap, Queues!Init

LEMMA QueueNext ==
    QueueInv /\ [Queues!Next]_(Queues!vars) => QueueInv' /\ [Queues!TQ!Next]_(Queues!TQ!vars)
<1>. SUFFICES ASSUME QueueInv, [Queues!Next]_(Queues!vars)
              PROVE  QueueInv' /\ [Queues!TQ!Next]_(Queues!TQ!vars)
  OBVIOUS
<1>1. ASSUME NEW q \in Queue, NEW t \in Thread, Queues!AddAtEnd(q, t)
      PROVE  QueueInv' /\ Queues!TQ!Next
  BY <1>1, AddAtEndStep DEF Queues!TQ!Next
<1>2. ASSUME NEW q \in Queue, NEW t \in Thread, Queues!AddAtStart(q, t)
      PROVE  QueueInv' /\ Queues!TQ!Next
  BY <1>2, AddAtStartStep DEF Queues!TQ!Next
<1>3. ASSUME NEW q \in Queue, NEW t \in Thread, Queues!Remove(q, t)
      PROVE  QueueInv' /\ Queues!TQ!Next
  BY <1>3, RemoveStep DEF Queues!TQ!Next
<1>4. ASSUME NEW q \in Queue, Queues!RemoveStart(q)
      PROVE  QueueInv' /\ Queues!TQ!Next
  BY <1>4, RemoveStartStep DEF Queues!TQ!Next
<1>5. CASE UNCHANGED Queues!vars
  <2>1. UNCHANGED <<nextThread, last, result>>
    BY <1>5 DEF Queues!vars
  <2>2. QueueInv' /\ QueueMap' = QueueMap
    BY <2>1, NothingRemoved
  <2>. QED
    BY <2>1, <2>2 DEF Queues!TQ!vars, QueueMap
<1>. QED
  BY <1>1, <1>2, <1>3, <1>4, <1>5 DEF Queues!Next

\* addThreadToQueue(), removeQueueStart() and removeFromQueue(), which see only
\* links, do to the queues what ThreadQueues says they do to sequences, and return
\* what it says, also when a thread is added that is on the queue already: for any
\* number of threads and queues.
THEOREM ListsImplementQueues == Queues!Spec => ImplementsThreadQueues
<1>1. Queues!Init => QueueInv /\ Queues!TQ!Init
  BY QueueInit
<1>2. QueueInv /\ [Queues!Next]_(Queues!vars) => QueueInv' /\ [Queues!TQ!Next]_(Queues!TQ!vars)
  BY QueueNext
<1>. QED
  BY <1>1, <1>2, PTL
     DEF Queues!Spec, ImplementsThreadQueues, Queues!ImplementsThreadQueues, Queues!TQ!Spec

----------------------------------------------------------------------------
(* The timer queue: the links from h are the sequence s *)

NSleepers == Cardinality(Sleeper)

IsChain(nx, h, s) ==
    /\ s \in Seq(Sleeper)
    /\ \A i, j \in 1..Len(s) : s[i] = s[j] => i = j
    /\ h = IF s = << >> THEN NULL ELSE s[1]
    /\ \A i \in 1..Len(s) : nx[s[i]] = IF i = Len(s) THEN NULL ELSE s[i + 1]

\* The n-th thread behind the head of s.
Behind(s, n) == IF n < Len(s) THEN s[n + 1] ELSE NULL

LEMMA ChainWalk ==
    ASSUME NEW nx, NEW h, NEW s, IsChain(nx, h, s)
    PROVE  /\ NSleepers \in Nat /\ Len(s) \in 0..NSleepers
           /\ DOMAIN WalkOf(nx, h, NSleepers) = 0..NSleepers
           /\ \A n \in 0..NSleepers : WalkOf(nx, h, NSleepers)[n] = Behind(s, n)
<1>1. /\ s \in Seq(Sleeper) /\ Len(s) \in Nat
      /\ \A i, j \in 1..Len(s) : s[i] = s[j] => i = j
      /\ h = IF s = << >> THEN NULL ELSE s[1]
      /\ \A i \in 1..Len(s) : nx[s[i]] = IF i = Len(s) THEN NULL ELSE s[i + 1]
      /\ \A i \in 1..Len(s) : s[i] \in Sleeper /\ s[i] # NULL
  BY ListsAssumption DEF IsChain
<1>2. NSleepers \in Nat /\ Len(s) <= NSleepers
  <2>1. IsFiniteSet(Sleeper)
    BY ListsAssumption, FS_Subset
  <2>2. s \in Injection(1..Len(s), Sleeper)
    BY <1>1 DEF Injection, IsInjective
  <2>3. Cardinality(1..Len(s)) <= NSleepers /\ NSleepers \in Nat
    BY <2>1, <2>2, FS_Injection, FS_CardinalityType DEF NSleepers
  <2>4. Cardinality(1..Len(s)) = Len(s)
    <3>1. Len(s) \in Int /\ 1 \in Int
      BY <1>1
    <3>2. Cardinality(1..Len(s)) = IF 1 > Len(s) THEN 0 ELSE Len(s) - 1 + 1
      BY <3>1, FS_Interval
    <3>. QED
      BY <1>1, <3>2
  <2>. QED
    BY <2>3, <2>4
<1>. DEFINE w == WalkOf(nx, h, NSleepers)
<1>3. /\ DOMAIN w = 0..NSleepers
      /\ w[0] = h
      /\ \A n \in 1..NSleepers : w[n] = IF w[n - 1] = NULL THEN NULL ELSE nx[w[n - 1]]
  BY <1>2, WalkSteps
<1>. HIDE DEF w
<1>. DEFINE T == {n \in Nat : n <= NSleepers => w[n] = Behind(s, n)}
<1>4. 0 \in T
  BY <1>1, <1>3 DEF Behind
<1>5. ASSUME NEW n \in Nat, n \in T PROVE n + 1 \in T
  <2>1. SUFFICES ASSUME n + 1 <= NSleepers PROVE w[n + 1] = Behind(s, n + 1)
    OBVIOUS
  <2>2. w[n] = Behind(s, n) /\ n + 1 \in 1..NSleepers /\ (n + 1) - 1 = n
    BY <1>2, <1>5, <2>1
  <2>3. w[n + 1] = IF w[n] = NULL THEN NULL ELSE nx[w[n]]
    BY <1>3, <2>2
  <2>4. CASE n < Len(s)
    <3>1. n + 1 \in 1..Len(s) /\ w[n] = s[n + 1] /\ s[n + 1] # NULL
      BY <1>1, <2>2, <2>4 DEF Behind
    <3>2. w[n + 1] = IF n + 1 = Len(s) THEN NULL ELSE s[(n + 1) + 1]
      BY <1>1, <2>3, <3>1
    <3>. QED
      BY <1>1, <3>1, <3>2 DEF Behind
  <2>5. CASE ~(n < Len(s))
    BY <1>1, <2>2, <2>3, <2>5 DEF Behind
  <2>. QED
    BY <2>4, <2>5
<1>6. Nat \subseteq T
  <2>. HIDE DEF T
  <2>. QED
    BY <1>4, <1>5, NatSetInduction
<1>7. \A n \in 0..NSleepers : w[n] = Behind(s, n)
  BY <1>2, <1>6
<1>. QED
  BY <1>1, <1>2, <1>3, <1>7 DEF w

\* The loops stop at the first thread of ts, or at the end.
LEMMA ChainStop ==
    ASSUME NEW s, IsChain(nextAlarmThread, TimerQueue, s), NEW ts, NULL \notin ts
    PROVE  /\ Timers!LinksUntil(ts) \in 0..Len(s)
           /\ \A k \in 1..Timers!LinksUntil(ts) : s[k] \notin ts
           /\ Timers!LinksUntil(ts) < Len(s) => s[Timers!LinksUntil(ts) + 1] \in ts
<1>. DEFINE w == Timers!Walk
            Stop(n) == w[n] \in ts \cup {NULL} /\ \A k \in 0..(n - 1) : w[k] \notin ts \cup {NULL}
<1>1. w = WalkOf(nextAlarmThread, TimerQueue, NSleepers)
  <2>1. Timers!Cardinality(Sleeper) = NSleepers
    BY DEF Timers!Cardinality, Cardinality, NSleepers
  <2>. QED
    BY <2>1 DEF Timers!Walk, WalkOf
<1>2. /\ NSleepers \in Nat /\ Len(s) \in 0..NSleepers /\ DOMAIN w = 0..NSleepers
      /\ \A n \in 0..NSleepers : w[n] = Behind(s, n)
  BY <1>1, ChainWalk
<1>3. Timers!LinksUntil(ts) = CHOOSE n \in DOMAIN w : Stop(n)
  BY DEF Timers!LinksUntil
<1>. HIDE DEF w
<1>4. /\ s \in Seq(Sleeper) /\ \A i \in 1..Len(s) : s[i] # NULL
  BY ListsAssumption DEF IsChain
<1>5. \E n \in DOMAIN w : Stop(n)
  <2>. DEFINE T == {n \in 0..Len(s) : w[n] \in ts \cup {NULL}}
  <2>1. Len(s) \in T
    BY <1>2 DEF Behind
  <2>2. PICK n \in T : \A k \in 0..(n - 1) : k \notin T
    <3>1. T \subseteq Nat /\ T # {}
      BY <2>1
    <3>. HIDE DEF T
    <3>. QED
      BY <3>1, LeastNumber
  <2>3. n \in DOMAIN w /\ w[n] \in ts \cup {NULL}
    BY <1>2
  <2>4. \A k \in 0..(n - 1) : w[k] \notin ts \cup {NULL}
    BY <1>2, <2>2
  <2>. QED
    BY <2>3, <2>4
<1>. DEFINE m == CHOOSE n \in DOMAIN w : Stop(n)
<1>6. m \in DOMAIN w /\ Stop(m)
  BY <1>5
<1>. HIDE DEF m
<1>7. m <= Len(s)
  <2>1. SUFFICES ASSUME Len(s) < m PROVE FALSE
    BY <1>2, <1>6
  <2>2. Len(s) \in 0..(m - 1) /\ w[Len(s)] = NULL
    BY <1>2, <1>6, <2>1 DEF Behind
  <2>. QED
    BY <1>6, <2>2
<1>8. ASSUME NEW k \in 1..m PROVE s[k] \notin ts
  <2>1. k - 1 \in 0..(m - 1) /\ k - 1 \in 0..NSleepers /\ (k - 1) + 1 = k /\ k - 1 < Len(s)
    BY <1>2, <1>6, <1>7
  <2>2. w[k - 1] = s[k] /\ w[k - 1] \notin ts
    BY <1>2, <1>6, <2>1 DEF Behind
  <2>. QED
    BY <2>2
<1>9. ASSUME m < Len(s) PROVE s[m + 1] \in ts
  <2>1. w[m] = s[m + 1] /\ m + 1 \in 1..Len(s)
    BY <1>2, <1>6, <1>9 DEF Behind
  <2>. QED
    BY <1>4, <1>6, <2>1
<1>10. m \in 0..Len(s)
  BY <1>2, <1>6, <1>7
<1>11. Timers!LinksUntil(ts) = m
  BY <1>3 DEF m
<1>. QED
  BY <1>8, <1>9, <1>10, <1>11

\* What the routines read of the list.
LEMMA ChainReads ==
    ASSUME NEW s, IsChain(nextAlarmThread, TimerQueue, s)
    PROVE  /\ \A n \in 0..Len(s) : Timers!Walk[n] = Behind(s, n)
           /\ Timers!OnList = {s[i] : i \in 1..Len(s)}
<1>. DEFINE w == Timers!Walk
<1>1. w = WalkOf(nextAlarmThread, TimerQueue, NSleepers)
  <2>1. Timers!Cardinality(Sleeper) = NSleepers
    BY DEF Timers!Cardinality, Cardinality, NSleepers
  <2>. QED
    BY <2>1 DEF Timers!Walk, WalkOf
<1>2. /\ NSleepers \in Nat /\ Len(s) \in 0..NSleepers /\ DOMAIN w = 0..NSleepers
      /\ \A n \in 0..NSleepers : w[n] = Behind(s, n)
  BY <1>1, ChainWalk
<1>3. /\ s \in Seq(Sleeper) /\ \A i \in 1..Len(s) : s[i] # NULL
  BY ListsAssumption DEF IsChain
<1>4. Timers!OnList = {w[n] : n \in DOMAIN w} \ {NULL}
  BY DEF Timers!OnList
<1>. HIDE DEF w
<1>5. {w[n] : n \in DOMAIN w} \ {NULL} = {s[i] : i \in 1..Len(s)}
  <2>1. ASSUME NEW n \in 0..NSleepers, w[n] # NULL PROVE \E i \in 1..Len(s) : w[n] = s[i]
    BY <1>2, <2>1 DEF Behind
  <2>2. ASSUME NEW i \in 1..Len(s) PROVE \E n \in 0..NSleepers : w[n] = s[i]
    <3>1. i - 1 \in 0..NSleepers /\ i - 1 < Len(s) /\ (i - 1) + 1 = i
      BY <1>2
    <3>2. w[i - 1] = s[i]
      BY <1>2, <3>1 DEF Behind
    <3>. QED
      BY <3>1, <3>2
  <2>3. {w[n] : n \in DOMAIN w} \ {NULL} \subseteq {s[i] : i \in 1..Len(s)}
    BY <1>2, <2>1
  <2>4. {s[i] : i \in 1..Len(s)} \subseteq {w[n] : n \in DOMAIN w}
    <3>. SUFFICES ASSUME NEW i \in 1..Len(s) PROVE s[i] \in {w[n] : n \in DOMAIN w}
      OBVIOUS
    <3>. QED
      BY <1>2, <2>2
  <2>5. NULL \notin {s[i] : i \in 1..Len(s)}
    BY <1>3
  <2>. QED
    BY <2>3, <2>4, <2>5
<1>6. \A n \in 0..Len(s) : w[n] = Behind(s, n)
  BY <1>2
<1>. QED
  BY <1>4, <1>5, <1>6 DEF w

Sorted(time, s) == \A i, j \in 1..Len(s) : i < j => time[s[i]] <= time[s[j]]

\* A thread is in the list exactly if it has a call, and the list is sorted.
IsTimerList(h, nx, time, call, s) ==
    /\ IsChain(nx, h, s)
    /\ Sorted(time, s)
    /\ \A t \in Sleeper : call[t] # NULL <=> \E i \in 1..Len(s) : s[i] = t

TimerTypes ==
    /\ nextAlarmThread \in [Sleeper -> Sleeper \cup {NULL}]
    /\ wakeupTime \in [Sleeper -> Nat]
    /\ wakeupCall \in [Sleeper -> WakeupCall \cup {NULL}]
    /\ now \in Nat

TimerInv ==
    /\ TimerTypes
    /\ \E s : IsTimerList(TimerQueue, nextAlarmThread, wakeupTime, wakeupCall, s)

\* The alarms that the list stands for.
AlarmMap ==
    [t \in Sleeper |-> IF wakeupCall[t] = NULL THEN NULL
                       ELSE [time |-> wakeupTime[t], call |-> wakeupCall[t]]]

LEMMA AlarmsSet ==
    ASSUME TimerTypes
    PROVE  \A t \in Sleeper : AlarmMap[t] # NULL <=> wakeupCall[t] # NULL
<1>. TAKE t \in Sleeper
<1>1. wakeupCall[t] # NULL => [time |-> wakeupTime[t], call |-> wakeupCall[t]] # NULL
  BY ListsAssumption DEF TimerTypes
<1>. QED
  BY <1>1 DEF AlarmMap

LEMMA RegisterStep ==
    ASSUME TimerInv, NEW t \in Sleeper, NEW delta \in 0..MaxDelta, NEW call \in WakeupCall,
           Timers!RegisterAlarm(t, delta, call)
    PROVE  TimerInv' /\ Timers!Clock!Register(t, delta, call)
<1>1. PICK s : IsTimerList(TimerQueue, nextAlarmThread, wakeupTime, wakeupCall, s)
  BY DEF TimerInv
<1>. DEFINE time == now + delta
            late == {q \in Sleeper : wakeupTime[q] >= time}
            n == Timers!LinksUntil(late)
<1>2. /\ IsChain(nextAlarmThread, TimerQueue, s) /\ s \in Seq(Sleeper) /\ Len(s) \in Nat
      /\ \A i, j \in 1..Len(s) : s[i] = s[j] => i = j
      /\ TimerQueue = IF s = << >> THEN NULL ELSE s[1]
      /\ \A i \in 1..Len(s) : nextAlarmThread[s[i]] = IF i = Len(s) THEN NULL ELSE s[i + 1]
      /\ \A i \in 1..Len(s) : s[i] \in Sleeper /\ s[i] # NULL
  BY <1>1, ListsAssumption DEF IsTimerList, IsChain
<1>3. TimerTypes /\ time \in Nat
  BY ListsAssumption DEF TimerInv, TimerTypes
<1>4. /\ \A k \in 0..Len(s) : Timers!Walk[k] = Behind(s, k)
      /\ t \in Timers!OnList <=> wakeupCall[t] # NULL
  BY <1>1, <1>2, ChainReads DEF IsTimerList
<1>5. CASE Timers!Registered(t)
  <2>1. UNCHANGED <<TimerQueue, nextAlarmThread, wakeupTime, wakeupCall, now>>
    BY <1>5 DEF Timers!RegisterAlarm, Timers!fields
  <2>2. TimerInv'
    BY <2>1, <1>1, <1>3 DEF TimerInv, TimerTypes
  <2>3. AlarmMap' = AlarmMap
    BY <2>1 DEF AlarmMap
  <2>4. t \in Timers!Clock!Set
    BY <1>3, <1>4, <1>5, AlarmsSet DEF Timers!Registered, Timers!Clock!Set, AlarmMap
  <2>. QED
    BY <2>1, <2>2, <2>3, <2>4
       DEF Timers!RegisterAlarm, Timers!Clock!Register, Timers!Silent, Timers!Clock!Silent, AlarmMap
<1>6. CASE ~Timers!Registered(t)
  <2>1. /\ wakeupTime' = [wakeupTime EXCEPT ![t] = time]
        /\ wakeupCall' = [wakeupCall EXCEPT ![t] = call]
        /\ IF n = 0
           THEN /\ TimerQueue' = t
                /\ nextAlarmThread' = [nextAlarmThread EXCEPT ![t] = TimerQueue]
           ELSE /\ UNCHANGED TimerQueue
                /\ nextAlarmThread' = [nextAlarmThread EXCEPT
                                         ![Timers!Walk[n - 1]] = t, ![t] = Timers!Walk[n]]
        /\ now' = now /\ rung' = << >> /\ nextTimerDelta' = 0
    BY <1>6 DEF Timers!RegisterAlarm, Timers!Silent
  <2>2. /\ n \in 0..Len(s)
        /\ \A k \in 1..n : s[k] \notin late
        /\ n < Len(s) => s[n + 1] \in late
    BY <1>2, ListsAssumption, ChainStop
  <2>3. wakeupCall[t] = NULL /\ \A i \in 1..Len(s) : s[i] # t
    BY <1>1, <1>4, <1>6 DEF Timers!Registered, IsTimerList
  <2>. HIDE DEF n
  <2>. DEFINE r == [i \in 1..(Len(s) + 1) |->
                      IF i <= n THEN s[i] ELSE IF i = n + 1 THEN t ELSE s[i - 1]]
  <2>4. r \in Seq(Sleeper) /\ Len(r) = Len(s) + 1
    <3>1. r \in [1..(Len(s) + 1) -> Sleeper]
      BY <1>2, <2>2
    <3>. HIDE DEF r
    <3>. QED
      BY <3>1, <1>2
  <2>5. /\ \A i \in 1..n : r[i] = s[i] /\ i \in 1..Len(s)
        /\ r[n + 1] = t
        /\ \A i \in (n + 2)..(Len(s) + 1) : r[i] = s[i - 1] /\ i - 1 \in 1..Len(s)
    BY <1>2, <2>2
  <2>. HIDE DEF r
  <2>6. \A i \in 1..(Len(s) + 1) : i \in 1..n \/ i = n + 1 \/ i \in (n + 2)..(Len(s) + 1)
    BY <1>2, <2>2
  <2>7. /\ nextAlarmThread' \in [Sleeper -> Sleeper \cup {NULL}]
        /\ nextAlarmThread'[t] = Behind(s, n)
        /\ n # 0 => nextAlarmThread'[s[n]] = t
        /\ \A u \in Sleeper \ {t} : (n # 0 /\ u = s[n]) \/ nextAlarmThread'[u] = nextAlarmThread[u]
    <3>1. Behind(s, n) \in Sleeper \cup {NULL} /\ Timers!Walk[n] = Behind(s, n)
      BY <1>2, <1>4, <2>2 DEF Behind
    <3>2. CASE n = 0
      <4>1. TimerQueue = Behind(s, n)
        BY <3>2, <1>2 DEF Behind
      <4>. QED
        BY <3>1, <3>2, <4>1, <2>1, <1>3 DEF TimerTypes
    <3>3. CASE n # 0
      <4>1. n - 1 \in 0..Len(s) /\ n - 1 < Len(s) /\ (n - 1) + 1 = n /\ n \in 1..Len(s)
        BY <2>2, <3>3
      <4>2. Timers!Walk[n - 1] = s[n] /\ s[n] \in Sleeper /\ s[n] # t
        BY <4>1, <1>2, <1>4, <2>3 DEF Behind
      <4>. QED
        BY <3>1, <3>3, <4>2, <2>1, <1>3 DEF TimerTypes
    <3>. QED
      BY <3>2, <3>3
  <2>8. \A i, j \in 1..Len(r) : r[i] = r[j] => i = j
    <3>. TAKE i \in 1..Len(r), j \in 1..Len(r)
    <3>1. CASE i \in 1..n /\ j \in 1..n
      BY <3>1, <2>5, <1>2
    <3>2. CASE i \in (n + 2)..(Len(s) + 1) /\ j \in (n + 2)..(Len(s) + 1)
      <4>1. r[i] = s[i - 1] /\ r[j] = s[j - 1] /\ i - 1 \in 1..Len(s) /\ j - 1 \in 1..Len(s)
        BY <3>2, <2>5
      <4>2. r[i] = r[j] => i - 1 = j - 1
        BY <4>1, <1>2
      <4>. QED
        BY <4>2
    <3>3. CASE i \in 1..n /\ j \in (n + 2)..(Len(s) + 1)
      <4>1. r[i] = s[i] /\ r[j] = s[j - 1] /\ i \in 1..Len(s) /\ j - 1 \in 1..Len(s) /\ i # j - 1
        BY <3>3, <2>5, <2>2
      <4>. QED
        BY <4>1, <1>2
    <3>4. CASE j \in 1..n /\ i \in (n + 2)..(Len(s) + 1)
      <4>1. r[j] = s[j] /\ r[i] = s[i - 1] /\ j \in 1..Len(s) /\ i - 1 \in 1..Len(s) /\ j # i - 1
        BY <3>4, <2>5, <2>2
      <4>. QED
        BY <4>1, <1>2
    <3>5. CASE i = n + 1 /\ j # n + 1
      <4>1. r[i] = t /\ r[j] # t
        BY <3>5, <2>3, <2>4, <2>5, <2>6
      <4>. QED
        BY <4>1
    <3>6. CASE j = n + 1 /\ i # n + 1
      <4>1. r[j] = t /\ r[i] # t
        BY <3>6, <2>3, <2>4, <2>5, <2>6
      <4>. QED
        BY <4>1
    <3>. QED
      BY <3>1, <3>2, <3>3, <3>4, <3>5, <3>6, <2>4, <2>6
  <2>9. TimerQueue' = r[1] /\ r # << >>
    <3>1. r # << >>
      BY <2>4, <1>2
    <3>2. CASE n = 0
      BY <3>1, <3>2, <2>1, <2>5
    <3>3. CASE n # 0
      <4>1. 1 \in 1..n /\ s # << >> /\ r[1] = s[1]
        BY <3>3, <2>2, <2>5
      <4>. QED
        BY <3>1, <3>3, <4>1, <2>1, <1>2
    <3>. QED
      BY <3>2, <3>3
  <2>10. \A i \in 1..Len(r) : nextAlarmThread'[r[i]] = IF i = Len(r) THEN NULL ELSE r[i + 1]
    <3>. TAKE i \in 1..Len(r)
    <3>1. CASE i \in 1..n /\ i # n
      <4>1. r[i] = s[i] /\ r[i + 1] = s[i + 1] /\ i \in 1..Len(s) /\ i # Len(s) /\ i # Len(r)
            /\ n # 0 /\ n \in 1..Len(s)
        BY <3>1, <2>2, <2>4, <2>5
      <4>2. s[i] \in Sleeper \ {t} /\ s[i] # s[n]
        BY <3>1, <4>1, <1>2, <2>3
      <4>3. nextAlarmThread'[s[i]] = nextAlarmThread[s[i]]
        BY <4>2, <2>7
      <4>. QED
        BY <4>1, <4>3, <1>2
    <3>2. CASE i = n
      <4>1. r[i] = s[n] /\ i # Len(r) /\ n # 0
        BY <3>2, <2>2, <2>4, <2>5
      <4>. QED
        BY <3>2, <4>1, <2>5, <2>7
    <3>3. CASE i = n + 1
      <4>1. nextAlarmThread'[r[i]] = Behind(s, n)
        BY <3>3, <2>5, <2>7
      <4>2. CASE n = Len(s)
        BY <3>3, <4>1, <4>2, <2>4 DEF Behind
      <4>3. CASE n # Len(s)
        <5>1. n < Len(s) /\ i + 1 \in (n + 2)..(Len(s) + 1) /\ (i + 1) - 1 = n + 1 /\ i # Len(r)
          BY <3>3, <4>3, <2>2, <2>4
        <5>. QED
          BY <4>1, <5>1, <2>5 DEF Behind
      <4>. QED
        BY <4>2, <4>3
    <3>4. CASE i \in (n + 2)..(Len(s) + 1)
      <4>1. r[i] = s[i - 1] /\ i - 1 \in 1..Len(s) /\ i - 1 # n
        BY <3>4, <2>2, <2>5
      <4>2. s[i - 1] \in Sleeper \ {t} /\ (n # 0 => s[i - 1] # s[n])
        BY <4>1, <1>2, <2>2, <2>3
      <4>3. nextAlarmThread'[s[i - 1]] = nextAlarmThread[s[i - 1]]
        BY <4>2, <2>7
      <4>4. i # Len(r) => r[i + 1] = s[i] /\ i - 1 # Len(s) /\ (i - 1) + 1 = i
        BY <3>4, <2>2, <2>4, <2>5
      <4>5. i = Len(r) => i - 1 = Len(s)
        BY <2>4, <1>2
      <4>. QED
        BY <4>1, <4>3, <4>4, <4>5, <1>2
    <3>. QED
      BY <3>1, <3>2, <3>3, <3>4, <2>4, <2>6
  <2>11. IsChain(nextAlarmThread', TimerQueue', r)
    BY <2>4, <2>8, <2>9, <2>10 DEF IsChain
  <2>12. Sorted(wakeupTime', r)
    <3>1. wakeupTime'[t] = time /\ \A u \in Sleeper \ {t} : wakeupTime'[u] = wakeupTime[u]
      BY <2>1, <1>3 DEF TimerTypes
    <3>2. \A i, j \in 1..Len(s) : i < j => wakeupTime[s[i]] <= wakeupTime[s[j]]
      BY <1>1 DEF IsTimerList, Sorted
    <3>3. \A u \in Sleeper : wakeupTime[u] \in Nat
      BY <1>3 DEF TimerTypes
    <3>4. \A k \in 1..n : wakeupTime[s[k]] < time
      BY <1>2, <1>3, <2>2, <2>5, <3>3
    <3>5. \A k \in (n + 1)..Len(s) : wakeupTime[s[k]] >= time
      <4>. TAKE k \in (n + 1)..Len(s)
      <4>1. wakeupTime[s[n + 1]] >= time /\ n + 1 \in 1..Len(s) /\ k \in 1..Len(s)
        BY <2>2
      <4>2. k = n + 1 \/ wakeupTime[s[n + 1]] <= wakeupTime[s[k]]
        BY <4>1, <3>2, <2>2
      <4>. QED
        BY <4>1, <4>2, <3>3, <1>2, <1>3
    <3>6. ASSUME NEW i \in 1..Len(r), NEW j \in 1..Len(r), i < j
          PROVE  wakeupTime'[r[i]] <= wakeupTime'[r[j]]
      <4>1. CASE i \in 1..n /\ j \in 1..n
        <5>1. s[i] \in Sleeper \ {t} /\ s[j] \in Sleeper \ {t} /\ r[i] = s[i] /\ r[j] = s[j]
          BY <4>1, <1>2, <2>3, <2>5
        <5>. QED
          BY <4>1, <5>1, <3>1, <3>2, <3>6, <2>5
      <4>2. CASE i \in 1..n /\ j = n + 1
        <5>1. s[i] \in Sleeper \ {t} /\ r[i] = s[i] /\ r[j] = t
          BY <4>2, <1>2, <2>3, <2>5
        <5>. QED
          BY <4>2, <5>1, <3>1, <3>3, <3>4, <1>3
      <4>3. CASE i \in 1..n /\ j \in (n + 2)..(Len(s) + 1)
        <5>1. s[i] \in Sleeper \ {t} /\ s[j - 1] \in Sleeper \ {t} /\ r[i] = s[i] /\ r[j] = s[j - 1]
          BY <4>3, <1>2, <2>3, <2>5
        <5>2. i \in 1..Len(s) /\ j - 1 \in 1..Len(s) /\ i < j - 1
          BY <4>3, <2>2, <2>5
        <5>. QED
          BY <5>1, <5>2, <3>1, <3>2
      <4>4. CASE i = n + 1 /\ j \in (n + 2)..(Len(s) + 1)
        <5>1. s[j - 1] \in Sleeper \ {t} /\ r[i] = t /\ r[j] = s[j - 1] /\ j - 1 \in (n + 1)..Len(s)
          BY <4>4, <1>2, <2>2, <2>3, <2>5
        <5>. QED
          BY <5>1, <3>1, <3>3, <3>5, <1>3
      <4>5. CASE i \in (n + 2)..(Len(s) + 1) /\ j \in (n + 2)..(Len(s) + 1)
        <5>1. /\ s[i - 1] \in Sleeper \ {t} /\ s[j - 1] \in Sleeper \ {t}
              /\ r[i] = s[i - 1] /\ r[j] = s[j - 1]
              /\ i - 1 \in 1..Len(s) /\ j - 1 \in 1..Len(s) /\ i - 1 < j - 1
          BY <4>5, <1>2, <2>3, <2>5, <3>6
        <5>. QED
          BY <5>1, <3>1, <3>2
      <4>. QED
        BY <4>1, <4>2, <4>3, <4>4, <4>5, <3>6, <2>2, <2>4, <2>6
    <3>. QED
      BY <3>6 DEF Sorted
  <2>13. \A u \in Sleeper : wakeupCall'[u] # NULL <=> \E i \in 1..Len(r) : r[i] = u
    <3>. TAKE u \in Sleeper
    <3>1. CASE u = t
      <4>1. wakeupCall'[u] = call /\ call # NULL
        BY <3>1, <2>1, <1>3, ListsAssumption DEF TimerTypes
      <4>2. n + 1 \in 1..Len(r)
        BY <2>2, <2>4
      <4>. QED
        BY <3>1, <4>1, <4>2, <2>5
    <3>2. CASE u # t
      <4>1. wakeupCall'[u] = wakeupCall[u]
        BY <3>2, <2>1, <1>3 DEF TimerTypes
      <4>2. ASSUME NEW i \in 1..Len(s), s[i] = u PROVE \E j \in 1..Len(r) : r[j] = u
        <5>1. CASE i <= n
          <6>1. i \in 1..n /\ i \in 1..Len(r)
            BY <5>1, <2>2, <2>4
          <6>. QED
            BY <6>1, <4>2, <2>5
        <5>2. CASE ~(i <= n)
          <6>1. i + 1 \in (n + 2)..(Len(s) + 1) /\ i + 1 \in 1..Len(r) /\ (i + 1) - 1 = i
            BY <5>2, <2>2, <2>4
          <6>. QED
            BY <6>1, <4>2, <2>5
        <5>. QED
          BY <5>1, <5>2
      <4>3. ASSUME NEW j \in 1..Len(r), r[j] = u PROVE \E i \in 1..Len(s) : s[i] = u
        BY <4>3, <3>2, <2>4, <2>5, <2>6
      <4>. QED
        BY <4>1, <4>2, <4>3, <1>1 DEF IsTimerList
    <3>. QED
      BY <3>1, <3>2
  <2>14. TimerInv'
    <3>1. TimerTypes'
      BY <2>1, <2>7, <1>3 DEF TimerTypes
    <3>. QED
      BY <3>1, <2>11, <2>12, <2>13 DEF TimerInv, IsTimerList
  <2>15. AlarmMap' = [AlarmMap EXCEPT ![t] = [time |-> time, call |-> call]]
    BY <2>1, <1>3, ListsAssumption DEF AlarmMap, TimerTypes
  <2>16. t \notin Timers!Clock!Set
    BY <1>3, <2>3, AlarmsSet DEF Timers!Clock!Set, AlarmMap
  <2>. QED
    BY <2>1, <2>14, <2>15, <2>16 DEF Timers!Clock!Register, Timers!Clock!Silent, AlarmMap
<1>. QED
  BY <1>5, <1>6

LEMMA CheckStep ==
    ASSUME TimerInv, Timers!CheckTimerQueue
    PROVE  TimerInv' /\ Timers!Clock!Check
<1>1. PICK s : IsTimerList(TimerQueue, nextAlarmThread, wakeupTime, wakeupCall, s)
  BY DEF TimerInv
<1>. DEFINE late == {q \in Sleeper : ~Timers!Due(q)}
            n == Timers!LinksUntil(late)
            gone == {s[k] : k \in 1..n}
<1>2. /\ IsChain(nextAlarmThread, TimerQueue, s) /\ s \in Seq(Sleeper) /\ Len(s) \in Nat
      /\ \A i, j \in 1..Len(s) : s[i] = s[j] => i = j
      /\ TimerQueue = IF s = << >> THEN NULL ELSE s[1]
      /\ \A i \in 1..Len(s) : nextAlarmThread[s[i]] = IF i = Len(s) THEN NULL ELSE s[i + 1]
      /\ \A i \in 1..Len(s) : s[i] \in Sleeper /\ s[i] # NULL
  BY <1>1, ListsAssumption DEF IsTimerList, IsChain
<1>3. TimerTypes
  BY DEF TimerInv
<1>4. \A k \in 0..Len(s) : Timers!Walk[k] = Behind(s, k)
  BY <1>2, ChainReads
<1>5. /\ n \in 0..Len(s)
      /\ \A k \in 1..n : s[k] \notin late
      /\ n < Len(s) => s[n + 1] \in late
  BY <1>2, ListsAssumption, ChainStop
<1>6. \A k \in 1..n : Timers!Walk[k - 1] = s[k]
  <2>. HIDE DEF n
  <2>. TAKE k \in 1..n
  <2>1. k - 1 \in 0..Len(s) /\ k - 1 < Len(s) /\ (k - 1) + 1 = k
    BY <1>5
  <2>. QED
    BY <1>4, <2>1 DEF Behind
<1>7. gone = {Timers!Walk[k] : k \in 0..(n - 1)}
  <2>. HIDE DEF n
  <2>1. ASSUME NEW k \in 1..n PROVE s[k] \in {Timers!Walk[i] : i \in 0..(n - 1)}
    <3>1. k - 1 \in 0..(n - 1) /\ s[k] = Timers!Walk[k - 1]
      BY <1>5, <1>6
    <3>. QED
      BY <3>1
  <2>2. ASSUME NEW k \in 0..(n - 1) PROVE Timers!Walk[k] \in gone
    <3>1. k + 1 \in 1..n /\ (k + 1) - 1 = k
      BY <1>5
    <3>2. Timers!Walk[k] = s[k + 1]
      BY <1>6, <3>1
    <3>. QED
      BY <3>1, <3>2
  <2>. QED
    BY <2>1, <2>2
<1>8. /\ TimerQueue' = Behind(s, n)
      /\ nextAlarmThread' = [t \in Sleeper |-> IF t \in gone THEN NULL ELSE nextAlarmThread[t]]
      /\ wakeupCall' = [t \in Sleeper |-> IF t \in gone THEN NULL ELSE wakeupCall[t]]
      /\ rung' = [k \in 1..n |-> <<s[k], wakeupCall[s[k]]>>]
      /\ nextTimerDelta' = IF Behind(s, n) = NULL THEN 0 ELSE wakeupTime[Behind(s, n)] - now
      /\ wakeupTime' = wakeupTime /\ now' = now
  <2>1. Timers!Walk[n] = Behind(s, n)
    BY <1>4, <1>5
  <2>2. [k \in 1..n |-> <<Timers!Walk[k - 1], wakeupCall[Timers!Walk[k - 1]]>>]
            = [k \in 1..n |-> <<s[k], wakeupCall[s[k]]>>]
    BY <1>6
  <2>3. /\ TimerQueue' = Timers!Walk[n]
        /\ nextAlarmThread' = [t \in Sleeper |-> IF t \in {Timers!Walk[k] : k \in 0..(n - 1)}
                                                 THEN NULL ELSE nextAlarmThread[t]]
        /\ wakeupCall' = [t \in Sleeper |-> IF t \in {Timers!Walk[k] : k \in 0..(n - 1)}
                                            THEN NULL ELSE wakeupCall[t]]
        /\ rung' = [k \in 1..n |-> <<Timers!Walk[k - 1], wakeupCall[Timers!Walk[k - 1]]>>]
        /\ nextTimerDelta' = IF Timers!Walk[n] = NULL THEN 0 ELSE wakeupTime[Timers!Walk[n]] - now
        /\ wakeupTime' = wakeupTime /\ now' = now
    BY DEF Timers!CheckTimerQueue
  <2>. HIDE DEF n, gone
  <2>. QED
    BY <1>7, <2>1, <2>2, <2>3
<1>9. \A t \in Sleeper : t \in late <=> ~(wakeupTime[t] <= now)
  BY DEF Timers!Due
<1>10. \A i, j \in 1..Len(s) : i < j => wakeupTime[s[i]] <= wakeupTime[s[j]]
  BY <1>1 DEF IsTimerList, Sorted
<1>11. \A t \in Sleeper : wakeupCall[t] # NULL <=> \E i \in 1..Len(s) : s[i] = t
  BY <1>1 DEF IsTimerList
<1>12. \A u \in Sleeper : wakeupTime[u] \in Nat /\ now \in Nat
  BY <1>3 DEF TimerTypes
<1>. HIDE DEF late, n
<1>13. \A k \in 1..Len(s) : wakeupTime[s[k]] <= now <=> k <= n
  <2>. TAKE k \in 1..Len(s)
  <2>1. CASE k <= n
    <3>1. k \in 1..n
      BY <1>5, <2>1
    <3>. QED
      BY <3>1, <2>1, <1>2, <1>5, <1>9
  <2>2. CASE ~(k <= n)
    <3>1. n < Len(s) /\ n + 1 \in 1..Len(s) /\ (k = n + 1 \/ n + 1 < k)
      BY <1>5, <2>2
    <3>2. ~(wakeupTime[s[n + 1]] <= now)
      BY <3>1, <1>2, <1>5, <1>9
    <3>3. wakeupTime[s[n + 1]] <= wakeupTime[s[k]]
      BY <3>1, <1>2, <1>10, <1>12
    <3>. QED
      BY <3>1, <3>2, <3>3, <2>2, <1>2, <1>12
  <2>. QED
    BY <2>1, <2>2
<1>. DEFINE r == [i \in 1..(Len(s) - n) |-> s[i + n]]
<1>14. /\ r \in Seq(Sleeper) /\ Len(r) = Len(s) - n
       /\ \A i \in 1..Len(r) : r[i] = s[i + n] /\ i + n \in 1..Len(s)
  <2>1. r \in [1..(Len(s) - n) -> Sleeper] /\ Len(s) - n \in Nat
    BY <1>2, <1>5
  <2>2. \A i \in 1..(Len(s) - n) : r[i] = s[i + n] /\ i + n \in 1..Len(s)
    BY <1>2, <1>5
  <2>. HIDE DEF r
  <2>. QED
    BY <2>1, <2>2
<1>. HIDE DEF r
<1>15. \A k \in 1..Len(s) : s[k] \in gone <=> k <= n
  BY <1>2, <1>5
<1>16. IsTimerList(TimerQueue', nextAlarmThread', wakeupTime', wakeupCall', r)
  <2>1. \A i, j \in 1..Len(r) : r[i] = r[j] => i = j
    <3>. TAKE i \in 1..Len(r), j \in 1..Len(r)
    <3>1. r[i] = r[j] => i + n = j + n
      BY <1>2, <1>14
    <3>. QED
      BY <3>1, <1>5, <1>14
  <2>2. TimerQueue' = IF r = << >> THEN NULL ELSE r[1]
    <3>1. CASE n = Len(s)
      BY <3>1, <1>8, <1>14 DEF Behind
    <3>2. CASE n # Len(s)
      <4>1. 1 \in 1..Len(r) /\ 1 + n = n + 1 /\ n < Len(s) /\ r # << >>
        BY <3>2, <1>2, <1>5, <1>14
      <4>. QED
        BY <4>1, <1>8, <1>14 DEF Behind
    <3>. QED
      BY <3>1, <3>2
  <2>3. \A i \in 1..Len(r) : nextAlarmThread'[r[i]] = IF i = Len(r) THEN NULL ELSE r[i + 1]
    <3>. TAKE i \in 1..Len(r)
    <3>1. /\ r[i] = s[i + n] /\ i + n \in 1..Len(s) /\ ~(i + n <= n)
          /\ i = Len(r) <=> i + n = Len(s)
      BY <1>5, <1>14
    <3>2. nextAlarmThread'[s[i + n]] = nextAlarmThread[s[i + n]]
      BY <1>2, <1>8, <1>15, <3>1
    <3>3. i # Len(r) => r[i + 1] = s[(i + 1) + n] /\ (i + 1) + n = (i + n) + 1
      <4>1. Len(r) \in Nat /\ n \in Nat
        BY <1>2, <1>5, <1>14
      <4>2. i # Len(r) => i + 1 \in 1..Len(r)
        BY <4>1
      <4>. QED
        BY <4>1, <4>2, <1>14
    <3>. QED
      BY <3>1, <3>2, <3>3, <1>2
  <2>4. Sorted(wakeupTime', r)
    <3>1. ASSUME NEW i \in 1..Len(r), NEW j \in 1..Len(r), i < j
          PROVE  wakeupTime'[r[i]] <= wakeupTime'[r[j]]
      <4>1. i + n < j + n
        BY <1>5, <1>14, <3>1
      <4>. QED
        BY <4>1, <1>8, <1>10, <1>14
    <3>. QED
      BY <3>1 DEF Sorted
  <2>5. \A t \in Sleeper : wakeupCall'[t] # NULL <=> \E i \in 1..Len(r) : r[i] = t
    <3>. TAKE t \in Sleeper
    <3>1. wakeupCall'[t] # NULL <=> t \notin gone /\ wakeupCall[t] # NULL
      BY <1>8
    <3>2. ASSUME NEW i \in 1..Len(r), r[i] = t PROVE t \notin gone /\ wakeupCall[t] # NULL
      <4>1. t = s[i + n] /\ i + n \in 1..Len(s) /\ ~(i + n <= n)
        BY <3>2, <1>5, <1>14
      <4>. QED
        BY <4>1, <1>11, <1>15
    <3>3. ASSUME t \notin gone, wakeupCall[t] # NULL PROVE \E i \in 1..Len(r) : r[i] = t
      <4>1. PICK k \in 1..Len(s) : s[k] = t
        BY <3>3, <1>11
      <4>2. ~(k <= n)
        BY <4>1, <3>3, <1>15
      <4>3. k - n \in 1..Len(r) /\ (k - n) + n = k
        BY <4>2, <1>5, <1>14
      <4>. QED
        BY <4>1, <4>3, <1>14
    <3>. QED
      BY <3>1, <3>2, <3>3
  <2>. QED
    BY <1>14, <2>1, <2>2, <2>3, <2>4, <2>5 DEF IsTimerList, IsChain
<1>17. TimerInv'
  <2>1. TimerTypes'
    BY <1>3, <1>8 DEF TimerTypes
  <2>. QED
    BY <2>1, <1>16 DEF TimerInv
<1>18. /\ Timers!Clock!Set = {t \in Sleeper : wakeupCall[t] # NULL}
       /\ \A t \in Sleeper : wakeupCall[t] # NULL =>
            AlarmMap[t].time = wakeupTime[t] /\ AlarmMap[t].call = wakeupCall[t]
  <2>1. Timers!Clock!Set = {t \in Sleeper : AlarmMap[t] # NULL}
    BY DEF Timers!Clock!Set, AlarmMap
  <2>2. \A t \in Sleeper : wakeupCall[t] # NULL =>
            AlarmMap[t].time = wakeupTime[t] /\ AlarmMap[t].call = wakeupCall[t]
    BY DEF AlarmMap
  <2>. QED
    BY <2>1, <2>2, <1>3, AlarmsSet
<1>19. Timers!Clock!DueSet = gone
  <2>1. Timers!Clock!DueSet = {t \in Timers!Clock!Set : AlarmMap[t].time <= now}
    BY DEF Timers!Clock!DueSet, AlarmMap
  <2>2. \A t \in Sleeper : t \in Timers!Clock!DueSet <=> t \in gone
    <3>. TAKE t \in Sleeper
    <3>1. t \in Timers!Clock!DueSet <=> wakeupCall[t] # NULL /\ wakeupTime[t] <= now
      BY <2>1, <1>18
    <3>2. ASSUME wakeupCall[t] # NULL, wakeupTime[t] <= now PROVE t \in gone
      <4>1. PICK k \in 1..Len(s) : s[k] = t
        BY <3>2, <1>11
      <4>. QED
        BY <4>1, <3>2, <1>13, <1>15
    <3>3. ASSUME t \in gone PROVE wakeupCall[t] # NULL /\ wakeupTime[t] <= now
      <4>1. PICK k \in 1..n : s[k] = t
        BY <3>3
      <4>2. k \in 1..Len(s) /\ k <= n
        BY <1>5
      <4>. QED
        BY <4>1, <4>2, <1>11, <1>13
    <3>. QED
      BY <3>1, <3>2, <3>3
  <2>3. gone \subseteq Sleeper
    BY <1>2, <1>5
  <2>4. Timers!Clock!DueSet \subseteq Sleeper
    BY <2>1, <1>18
  <2>. HIDE DEF gone
  <2>. QED
    BY <2>2, <2>3, <2>4
<1>20. AlarmMap' = [t \in Sleeper |-> IF t \in gone THEN NULL ELSE AlarmMap[t]]
  <2>1. AlarmMap' = [t \in Sleeper |-> IF wakeupCall'[t] = NULL THEN NULL
                                      ELSE [time |-> wakeupTime'[t], call |-> wakeupCall'[t]]]
    BY DEF AlarmMap
  <2>. HIDE DEF gone
  <2>. QED
    BY <2>1, <1>8 DEF AlarmMap
<1>21. \E order \in [1..Len(rung') -> gone] :
          /\ \A t \in gone : \E i \in DOMAIN order : order[i] = t
          /\ \A i, j \in DOMAIN order : i < j =>
               /\ order[i] # order[j]
               /\ AlarmMap[order[i]].time <= AlarmMap[order[j]].time
          /\ rung' = [i \in DOMAIN order |-> <<order[i], AlarmMap[order[i]].call>>]
  <2>. DEFINE order == [k \in 1..n |-> s[k]]
  <2>1. Len(rung') = n
    BY <1>5, <1>8
  <2>2. order \in [1..n -> gone] /\ DOMAIN order = 1..n /\ \A k \in 1..n : order[k] = s[k] /\ k \in 1..Len(s)
    BY <1>5
  <2>3. \A t \in gone : \E i \in 1..n : order[i] = t
    BY <2>2
  <2>4. \A k \in 1..n : /\ AlarmMap[s[k]].time = wakeupTime[s[k]]
                        /\ AlarmMap[s[k]].call = wakeupCall[s[k]]
    BY <1>2, <1>11, <1>18, <2>2
  <2>. HIDE DEF order, gone
  <2>5. \A i, j \in 1..n : i < j => /\ order[i] # order[j]
                                    /\ AlarmMap[order[i]].time <= AlarmMap[order[j]].time
    <3>. TAKE i \in 1..n, j \in 1..n
    <3>. HAVE i < j
    <3>1. i \in 1..Len(s) /\ j \in 1..Len(s) /\ order[i] = s[i] /\ order[j] = s[j] /\ i # j
      BY <2>2, <1>5
    <3>. QED
      BY <3>1, <2>4, <1>2, <1>10
  <2>6. rung' = [i \in 1..n |-> <<order[i], AlarmMap[order[i]].call>>]
    BY <1>8, <2>2, <2>4
  <2>. QED
    BY <2>1, <2>2, <2>3, <2>5, <2>6
<1>22. LET left == Timers!Clock!Set \ gone IN
       IF left = {} THEN nextTimerDelta' = 0
       ELSE \E t \in left : /\ nextTimerDelta' = AlarmMap[t].time - now
                            /\ \A u \in left : AlarmMap[t].time <= AlarmMap[u].time
  <2>. DEFINE left == Timers!Clock!Set \ gone
  <2>1. \A t \in left : \E k \in (n + 1)..Len(s) : s[k] = t
    <3>. TAKE t \in left
    <3>1. PICK k \in 1..Len(s) : s[k] = t
      BY <1>11, <1>18
    <3>2. ~(k <= n)
      BY <3>1, <1>15
    <3>. QED
      BY <3>1, <3>2, <1>5
  <2>2. CASE n = Len(s)
    <3>1. left = {}
      BY <2>1, <2>2, <1>5
    <3>2. nextTimerDelta' = 0
      BY <2>2, <1>5, <1>8 DEF Behind
    <3>. QED
      BY <3>1, <3>2
  <2>3. CASE n # Len(s)
    <3>1. n < Len(s) /\ n + 1 \in 1..Len(s) /\ ~(n + 1 <= n)
      BY <2>3, <1>5
    <3>2. s[n + 1] \in left
      BY <3>1, <1>2, <1>11, <1>15, <1>18
    <3>3. nextTimerDelta' = wakeupTime[s[n + 1]] - now
      BY <3>1, <1>2, <1>8 DEF Behind
    <3>4. \A t \in left : AlarmMap[t].time = wakeupTime[t]
      BY <1>18
    <3>5. ASSUME NEW u \in left PROVE wakeupTime[s[n + 1]] <= wakeupTime[u]
      <4>1. PICK k \in (n + 1)..Len(s) : s[k] = u
        BY <2>1
      <4>2. k = n + 1 \/ (n + 1 < k /\ k \in 1..Len(s))
        BY <1>5
      <4>. QED
        BY <4>1, <4>2, <3>1, <1>2, <1>10, <1>12
    <3>. HIDE DEF left
    <3>6. \E t \in left : /\ nextTimerDelta' = AlarmMap[t].time - now
                          /\ \A u \in left : AlarmMap[t].time <= AlarmMap[u].time
      BY <3>2, <3>3, <3>4, <3>5
    <3>. QED
      BY <3>2, <3>6 DEF left
  <2>. QED
    BY <2>2, <2>3
<1>. QED
  <2>. HIDE DEF gone
  <2>. QED
    BY <1>8, <1>17, <1>19, <1>20, <1>21, <1>22 DEF Timers!Clock!Check, AlarmMap

LEMMA RemoveAlarmStep ==
    ASSUME TimerInv, NEW t \in Sleeper, Timers!RemovePendingAlarm(t)
    PROVE  TimerInv' /\ Timers!Clock!Remove(t)
<1>1. PICK s : IsTimerList(TimerQueue, nextAlarmThread, wakeupTime, wakeupCall, s)
  BY DEF TimerInv
<1>. DEFINE n == Timers!LinksUntil({t})
<1>2. /\ IsChain(nextAlarmThread, TimerQueue, s) /\ s \in Seq(Sleeper) /\ Len(s) \in Nat
      /\ \A i, j \in 1..Len(s) : s[i] = s[j] => i = j
      /\ TimerQueue = IF s = << >> THEN NULL ELSE s[1]
      /\ \A i \in 1..Len(s) : nextAlarmThread[s[i]] = IF i = Len(s) THEN NULL ELSE s[i + 1]
      /\ \A i \in 1..Len(s) : s[i] \in Sleeper /\ s[i] # NULL
  BY <1>1, ListsAssumption DEF IsTimerList, IsChain
<1>3. TimerTypes
  BY DEF TimerInv
<1>4. /\ \A k \in 0..Len(s) : Timers!Walk[k] = Behind(s, k)
      /\ t \in Timers!OnList <=> \E i \in 1..Len(s) : s[i] = t
  BY <1>2, ChainReads
<1>5. \A u \in Sleeper : wakeupCall[u] # NULL <=> \E i \in 1..Len(s) : s[i] = u
  BY <1>1 DEF IsTimerList
<1>6. now' = now /\ rung' = << >> /\ nextTimerDelta' = 0
  BY DEF Timers!RemovePendingAlarm, Timers!Silent
<1>7. CASE t \notin Timers!OnList
  <2>1. UNCHANGED <<TimerQueue, nextAlarmThread, wakeupTime, wakeupCall>>
    BY <1>7 DEF Timers!RemovePendingAlarm, Timers!fields
  <2>2. TimerInv'
    BY <2>1, <1>1, <1>3, <1>6 DEF TimerInv, TimerTypes
  <2>3. wakeupCall[t] = NULL
    BY <1>4, <1>5, <1>7
  <2>4. AlarmMap' = [AlarmMap EXCEPT ![t] = NULL]
    BY <2>1, <2>3 DEF AlarmMap
  <2>. QED
    BY <1>6, <2>2, <2>4 DEF Timers!Clock!Remove, Timers!Clock!Silent, AlarmMap
<1>8. CASE t \in Timers!OnList
  <2>1. /\ wakeupCall' = [wakeupCall EXCEPT ![t] = NULL]
        /\ wakeupTime' = wakeupTime
        /\ IF n = 0
           THEN /\ TimerQueue' = nextAlarmThread[t]
                /\ nextAlarmThread' = [nextAlarmThread EXCEPT ![t] = NULL]
           ELSE /\ TimerQueue' = TimerQueue
                /\ nextAlarmThread' = [nextAlarmThread EXCEPT
                                         ![Timers!Walk[n - 1]] = nextAlarmThread[t], ![t] = NULL]
    BY <1>8 DEF Timers!RemovePendingAlarm
  <2>2. n \in 0..Len(s) /\ (\A k \in 1..n : s[k] # t) /\ (n < Len(s) => s[n + 1] = t)
    <3>1. /\ n \in 0..Len(s) /\ (\A k \in 1..n : s[k] \notin {t})
          /\ n < Len(s) => s[n + 1] \in {t}
      BY <1>2, ListsAssumption, ChainStop
    <3>. HIDE DEF n
    <3>. QED
      BY <3>1
  <2>. HIDE DEF n
  <2>3. n < Len(s) /\ n + 1 \in 1..Len(s) /\ s[n + 1] = t
    <3>1. n # Len(s)
      BY <1>4, <1>8, <2>2
    <3>. QED
      BY <2>2, <3>1
  <2>4. \A i \in 1..Len(s) : s[i] = t => i = n + 1
    BY <1>2, <2>3
  <2>5. n # 0 => Timers!Walk[n - 1] = s[n] /\ n \in 1..Len(s) /\ s[n] # t
    <3>. HAVE n # 0
    <3>1. n - 1 \in 0..Len(s) /\ n - 1 < Len(s) /\ (n - 1) + 1 = n /\ n \in 1..n
      BY <2>2
    <3>. QED
      BY <3>1, <1>4, <2>2 DEF Behind
  <2>6. nextAlarmThread[t] = Behind(s, n + 1)
    BY <1>2, <2>3 DEF Behind
  <2>7. /\ nextAlarmThread' \in [Sleeper -> Sleeper \cup {NULL}]
        /\ n # 0 => nextAlarmThread'[s[n]] = Behind(s, n + 1)
        /\ \A u \in Sleeper \ {t} : (n # 0 /\ u = s[n]) \/ nextAlarmThread'[u] = nextAlarmThread[u]
    <3>1. CASE n = 0
      BY <3>1, <2>1, <1>3 DEF TimerTypes
    <3>2. CASE n # 0
      <4>1. nextAlarmThread' = [nextAlarmThread EXCEPT ![s[n]] = nextAlarmThread[t], ![t] = NULL]
        BY <3>2, <2>1, <2>5
      <4>. QED
        BY <3>2, <4>1, <2>5, <2>6, <1>2, <1>3 DEF TimerTypes
    <3>. QED
      BY <3>1, <3>2
  <2>. DEFINE r == [i \in 1..(Len(s) - 1) |-> IF i <= n THEN s[i] ELSE s[i + 1]]
  <2>8. /\ r \in Seq(Sleeper) /\ Len(r) = Len(s) - 1 /\ Len(r) \in Nat
        /\ \A i \in 1..Len(r) : r[i] = IF i <= n THEN s[i] ELSE s[i + 1]
        /\ \A i \in 1..Len(r) : i \in 1..Len(s) /\ i + 1 \in 1..Len(s)
    <3>1. r \in [1..(Len(s) - 1) -> Sleeper] /\ Len(s) - 1 \in Nat
      BY <1>2, <2>2, <2>3
    <3>2. \A i \in 1..(Len(s) - 1) : r[i] = IF i <= n THEN s[i] ELSE s[i + 1]
      OBVIOUS
    <3>. HIDE DEF r
    <3>3. r \in Seq(Sleeper) /\ Len(r) = Len(s) - 1
      BY <3>1
    <3>4. \A i \in 1..(Len(s) - 1) : i \in 1..Len(s) /\ i + 1 \in 1..Len(s)
      BY <1>2
    <3>. QED
      BY <3>1, <3>2, <3>3, <3>4
  <2>. HIDE DEF r
  <2>9. \A i, j \in 1..Len(r) : r[i] = r[j] => i = j
    <3>. TAKE i \in 1..Len(r), j \in 1..Len(r)
    <3>. DEFINE a == IF i <= n THEN i ELSE i + 1
                b == IF j <= n THEN j ELSE j + 1
    <3>1. a \in 1..Len(s) /\ b \in 1..Len(s) /\ r[i] = s[a] /\ r[j] = s[b]
      BY <2>8
    <3>2. r[i] = r[j] => a = b
      <4>. HIDE DEF a, b
      <4>. QED
        BY <3>1, <1>2
    <3>3. a = b => i = j
      BY <2>2, <2>8
    <3>. QED
      BY <3>2, <3>3
  <2>10. TimerQueue' = IF r = << >> THEN NULL ELSE r[1]
    <3>1. CASE n = 0
      <4>1. TimerQueue' = Behind(s, 1)
        BY <3>1, <2>1, <2>6
      <4>2. CASE Len(s) = 1
        BY <4>1, <4>2, <2>8 DEF Behind
      <4>3. CASE Len(s) # 1
        <5>1. 1 \in 1..Len(r) /\ r # << >> /\ 1 < Len(s)
          BY <4>3, <2>3, <2>8, <1>2
        <5>. QED
          BY <5>1, <4>1, <3>1, <2>8 DEF Behind
      <4>. QED
        BY <4>2, <4>3
    <3>2. CASE n # 0
      <4>1. 1 \in 1..Len(r) /\ 1 <= n /\ r # << >> /\ s # << >>
        BY <3>2, <2>2, <2>3, <2>8
      <4>. QED
        BY <3>2, <4>1, <2>1, <2>8, <1>2
    <3>. QED
      BY <3>1, <3>2
  <2>11. \A i \in 1..Len(r) : nextAlarmThread'[r[i]] = IF i = Len(r) THEN NULL ELSE r[i + 1]
    <3>. TAKE i \in 1..Len(r)
    <3>1. i \in 1..Len(s) /\ i + 1 \in 1..Len(s) /\ i # Len(s)
      BY <2>8
    <3>2. i # Len(r) => i + 1 \in 1..Len(r)
      BY <2>8
    <3>3. CASE i < n
      <4>1. r[i] = s[i] /\ i # Len(r) /\ r[i + 1] = s[i + 1]
        BY <3>1, <3>2, <3>3, <2>2, <2>3, <2>8
      <4>2. s[i] \in Sleeper \ {t} /\ s[i] # s[n]
        BY <3>1, <3>3, <1>2, <2>2, <2>4, <2>5
      <4>3. nextAlarmThread'[s[i]] = nextAlarmThread[s[i]]
        BY <4>2, <2>7
      <4>. QED
        BY <4>1, <4>3, <3>1, <1>2
    <3>4. CASE i = n
      <4>1. r[i] = s[n] /\ nextAlarmThread'[s[n]] = Behind(s, n + 1)
        <5>1. n # 0 /\ i <= n
          BY <3>4, <2>2
        <5>2. r[i] = s[i]
          BY <5>1, <2>8
        <5>. QED
          BY <3>4, <5>1, <5>2, <2>7
      <4>2. CASE i = Len(r)
        BY <3>4, <4>1, <4>2, <2>8 DEF Behind
      <4>3. CASE i # Len(r)
        <5>1. r[i + 1] = s[(i + 1) + 1] /\ n + 1 < Len(s)
          BY <3>2, <3>4, <4>3, <2>2, <2>8
        <5>. QED
          BY <3>4, <4>1, <4>3, <5>1 DEF Behind
      <4>. QED
        BY <4>2, <4>3
    <3>5. CASE i > n
      <4>1. r[i] = s[i + 1]
        BY <3>5, <2>2, <2>8
      <4>2. s[i + 1] \in Sleeper \ {t} /\ (n # 0 => s[i + 1] # s[n])
        <5>1. i + 1 # n + 1 /\ i + 1 # n
          BY <3>5, <2>2
        <5>. QED
          BY <5>1, <3>1, <1>2, <2>4, <2>5
      <4>3. nextAlarmThread'[s[i + 1]] = nextAlarmThread[s[i + 1]]
        BY <4>2, <2>7
      <4>4. i # Len(r) => r[i + 1] = s[(i + 1) + 1] /\ i + 1 # Len(s)
        BY <3>2, <3>5, <2>2, <2>8
      <4>5. i = Len(r) => i + 1 = Len(s)
        BY <2>8, <1>2
      <4>. QED
        BY <4>1, <4>3, <4>4, <4>5, <3>1, <1>2
    <3>. QED
      BY <3>3, <3>4, <3>5, <2>2
  <2>12. Sorted(wakeupTime', r)
    <3>1. ASSUME NEW i \in 1..Len(r), NEW j \in 1..Len(r), i < j
          PROVE  wakeupTime[r[i]] <= wakeupTime[r[j]]
      <4>. DEFINE a == IF i <= n THEN i ELSE i + 1
                  b == IF j <= n THEN j ELSE j + 1
      <4>1. a \in 1..Len(s) /\ b \in 1..Len(s) /\ r[i] = s[a] /\ r[j] = s[b] /\ a < b
        BY <2>2, <2>8, <3>1
      <4>. HIDE DEF a, b
      <4>. QED
        BY <4>1, <1>1 DEF IsTimerList, Sorted
    <3>. QED
      BY <3>1, <2>1 DEF Sorted
  <2>13. \A u \in Sleeper : wakeupCall'[u] # NULL <=> \E i \in 1..Len(r) : r[i] = u
    <3>. TAKE u \in Sleeper
    <3>1. wakeupCall'[u] # NULL <=> u # t /\ wakeupCall[u] # NULL
      BY <2>1, <1>3 DEF TimerTypes
    <3>2. ASSUME NEW i \in 1..Len(r), r[i] = u PROVE u # t /\ wakeupCall[u] # NULL
      <4>. DEFINE a == IF i <= n THEN i ELSE i + 1
      <4>1. a \in 1..Len(s) /\ s[a] = u
        BY <2>8, <3>2
      <4>2. a # n + 1
        BY <2>2
      <4>. HIDE DEF a
      <4>. QED
        BY <4>1, <4>2, <1>5, <2>3, <1>2
    <3>3. ASSUME u # t, wakeupCall[u] # NULL PROVE \E i \in 1..Len(r) : r[i] = u
      <4>1. PICK k \in 1..Len(s) : s[k] = u
        BY <3>3, <1>5
      <4>2. k # n + 1
        BY <4>1, <3>3, <2>3
      <4>3. CASE k <= n
        <5>1. k \in 1..Len(r) /\ r[k] = s[k]
          BY <4>3, <2>2, <2>3, <2>8
        <5>. QED
          BY <5>1, <4>1
      <4>4. CASE ~(k <= n)
        <5>1. k - 1 \in 1..Len(r) /\ ~(k - 1 <= n) /\ (k - 1) + 1 = k
          BY <4>2, <4>4, <2>2, <2>8
        <5>. QED
          BY <5>1, <4>1, <2>8
      <4>. QED
        BY <4>3, <4>4
    <3>. QED
      BY <3>1, <3>2, <3>3
  <2>14. TimerInv'
    <3>1. TimerTypes'
      BY <1>3, <1>6, <2>1, <2>7 DEF TimerTypes
    <3>2. IsTimerList(TimerQueue', nextAlarmThread', wakeupTime', wakeupCall', r)
      BY <2>8, <2>9, <2>10, <2>11, <2>12, <2>13 DEF IsTimerList, IsChain
    <3>. QED
      BY <3>1, <3>2 DEF TimerInv
  <2>15. AlarmMap' = [AlarmMap EXCEPT ![t] = NULL]
    BY <2>1, <1>3 DEF AlarmMap, TimerTypes
  <2>. QED
    BY <1>6, <2>14, <2>15 DEF Timers!Clock!Remove, Timers!Clock!Silent, AlarmMap
<1>. QED
  BY <1>7, <1>8

LEMMA TimerInit ==
    Timers!Init => TimerInv /\ Timers!Clock!Init
<1>. SUFFICES ASSUME Timers!Init PROVE TimerInv /\ Timers!Clock!Init
  OBVIOUS
<1>1. TimerTypes
  BY DEF Timers!Init, TimerTypes
<1>2. IsTimerList(TimerQueue, nextAlarmThread, wakeupTime, wakeupCall, << >>)
  BY DEF Timers!Init, IsTimerList, IsChain, Sorted
<1>3. AlarmMap = [t \in Sleeper |-> NULL]
  BY DEF Timers!Init, AlarmMap
<1>. QED
  BY <1>1, <1>2, <1>3 DEF TimerInv, Timers!Init, Timers!Clock!Init, AlarmMap

LEMMA TimerNext ==
    TimerInv /\ [Timers!Next]_(Timers!vars)
        => TimerInv' /\ [Timers!Clock!Next]_(Timers!Clock!vars)
<1>. SUFFICES ASSUME TimerInv, [Timers!Next]_(Timers!vars)
              PROVE  TimerInv' /\ [Timers!Clock!Next]_(Timers!Clock!vars)
  OBVIOUS
<1>1. ASSUME NEW t \in Sleeper, NEW delta \in 0..MaxDelta, NEW call \in WakeupCall,
             Timers!RegisterAlarm(t, delta, call)
      PROVE  TimerInv' /\ Timers!Clock!Next
  BY <1>1, RegisterStep DEF Timers!Clock!Next
<1>2. ASSUME NEW t \in Sleeper, Timers!RemovePendingAlarm(t)
      PROVE  TimerInv' /\ Timers!Clock!Next
  BY <1>2, RemoveAlarmStep DEF Timers!Clock!Next
<1>3. ASSUME Timers!CheckTimerQueue PROVE TimerInv' /\ Timers!Clock!Next
  BY <1>3, CheckStep DEF Timers!Clock!Next
<1>4. ASSUME Timers!Tick PROVE TimerInv' /\ Timers!Clock!Next
  <2>1. UNCHANGED <<TimerQueue, nextAlarmThread, wakeupTime, wakeupCall>>
    BY <1>4 DEF Timers!Tick, Timers!fields
  <2>2. now < MaxTime /\ now' = now + 1 /\ rung' = << >> /\ nextTimerDelta' = 0
    BY <1>4 DEF Timers!Tick, Timers!Silent
  <2>3. TimerInv' /\ AlarmMap' = AlarmMap
    BY <2>1, <2>2 DEF TimerInv, TimerTypes, AlarmMap
  <2>. QED
    BY <2>2, <2>3 DEF Timers!Clock!Next, Timers!Clock!Tick, Timers!Clock!Silent, AlarmMap
<1>5. CASE UNCHANGED Timers!vars
  <2>1. UNCHANGED <<TimerQueue, nextAlarmThread, wakeupTime, wakeupCall, now, rung, nextTimerDelta>>
    BY <1>5 DEF Timers!vars, Timers!fields
  <2>2. TimerInv' /\ AlarmMap' = AlarmMap
    BY <2>1 DEF TimerInv, TimerTypes, AlarmMap
  <2>. QED
    BY <2>1, <2>2 DEF Timers!Clock!vars, AlarmMap
<1>. QED
  BY <1>1, <1>2, <1>3, <1>4, <1>5 DEF Timers!Next

\* registerAlarm(), removePendingAlarm() and checkTimerQueue() keep the promise of
\* AlarmClock with their sorted list: no alarm is lost, none rings early or twice,
\* those that are due ring in order, and the time to the next one is right.
THEOREM ListImplementsAlarmClock == Timers!Spec => ImplementsAlarmClock
<1>1. Timers!Init => TimerInv /\ Timers!Clock!Init
  BY TimerInit
<1>2. TimerInv /\ [Timers!Next]_(Timers!vars)
        => TimerInv' /\ [Timers!Clock!Next]_(Timers!Clock!vars)
  BY TimerNext
<1>. QED
  BY <1>1, <1>2, PTL
     DEF Timers!Spec, ImplementsAlarmClock, Timers!ImplementsAlarmClock, Timers!Clock!Spec
=============================================================================
