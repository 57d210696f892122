---------------------------- MODULE Events_proofs ----------------------------
(***************************************************************************)
(* The buffer of events.c is never overrun and gives its readers the cells *)
(* of a stream of whole events in order, for every size of the buffer and  *)
(* all types of events whose cells fit into it.                            *)
(***************************************************************************)
EXTENDS Events, SequenceTheorems, TLAPS

InBounds(b) ==
    b.inP \in Nat /\ b.count \in Nat /\ b.count <= b.inP /\ b.inP <= MAXPARMLENGTH

\* BufferInBounds, with the types that make it inductive.
BufferInv == InBounds(Buffer)

LEMMA CellsFit ==
    ASSUME NEW e \in Event
    PROVE  /\ ArgCount[e] \in Nat /\ ArgCount[e] <= MAXPARMLENGTH - 1
           /\ MAXPARMLENGTH \in Nat
           /\ Len(CellsOf(e)) = ArgCount[e] + 1
  <1>1. /\ ArgCount[e] \in Nat /\ ArgCount[e] <= MAXPARMLENGTH - 1
        /\ MAXPARMLENGTH \in Nat
    BY EventsAssumption DEF EventsAssumption
  <1>2. Len(CellsOf(e)) = ArgCount[e] + 1
    BY <1>1 DEF CellsOf
  <1>. QED
    BY <1>1, <1>2

\* StoreKVMEvent() stores an event where it fits, or not at all.
LEMMA StoredInBounds ==
    ASSUME NEW b, InBounds(b), NEW e \in Event
    PROVE  InBounds(Stored(b, e))
  <1>1. CASE b.count # 0 /\ b.inP > MAXPARMLENGTH - 1 - ArgCount[e]
    BY <1>1 DEF Stored
  <1>2. CASE ~(b.count # 0 /\ b.inP > MAXPARMLENGTH - 1 - ArgCount[e])
    <2>. DEFINE at == IF b.count = 0 THEN 0 ELSE b.inP
                n  == Len(CellsOf(e))
    <2>1. Stored(b, e).inP = at + n /\ Stored(b, e).count = b.count + n
      BY <1>2 DEF Stored
    <2>2. n \in Nat /\ at \in Nat /\ at + n <= MAXPARMLENGTH /\ b.count <= at
      BY <1>2, CellsFit DEF InBounds
    <2>. HIDE DEF at, n
    <2>. QED
      BY <2>1, <2>2 DEF InBounds
  <1>. QED
    BY <1>1, <1>2

LEMMA FoundInBounds ==
    ASSUME BufferInv, NEW b \in Found
    PROVE  InBounds(b) /\ (b.count > 0 => InBounds(Taken(b)))
  <1>1. InBounds(b)
    <2>1. CASE b = Buffer
      BY <2>1 DEF BufferInv
    <2>2. ASSUME NEW e \in Event, b = Stored(Buffer, e)
          PROVE  InBounds(b)
      BY <2>2, StoredInBounds DEF BufferInv
    <2>3. ASSUME NEW e \in Event, NEW f \in Event, b = Stored(Stored(Buffer, e), f)
          PROVE  InBounds(b)
      <3>1. InBounds(Stored(Buffer, e))
        BY StoredInBounds DEF BufferInv
      <3>. QED
        BY <2>3, <3>1, StoredInBounds
    <2>. QED
      BY <2>1, <2>2, <2>3 DEF Found, Polled
  <1>2. ASSUME b.count > 0 PROVE InBounds(Taken(b))
    <2>1. Taken(b).inP = b.inP /\ Taken(b).count = b.count - 1
      BY DEF Taken
    <2>. QED
      BY <1>1, <1>2, <2>1 DEF InBounds
  <1>. QED
    BY <1>1, <1>2

LEMMA SetInBounds ==
    ASSUME NEW b, InBounds(b), SetBuffer(b)
    PROVE  BufferInv'
  BY DEF SetBuffer, BufferInv, Buffer, InBounds

LEMMA BufferStep ==
    ASSUME BufferInv, [Next]_vars
    PROVE  BufferInv'
  <1>1. ASSUME NEW t \in Thread, ReadOneEvent(t) PROVE BufferInv'
    <2>1. PICK b \in Found : \/ b.count > 0 /\ SetBuffer(Taken(b))
                             \/ SetBuffer(b)
      BY <1>1 DEF ReadOneEvent
    <2>. QED
      BY <2>1, FoundInBounds, SetInBounds
  <1>2. ASSUME InterpreterHandleEvent PROVE BufferInv'
    <2>1. CASE AnswerReader
      <3>1. PICK b \in Found : b.count > 0 /\ SetBuffer(Taken(b))
        BY <2>1 DEF AnswerReader
      <3>. QED
        BY <3>1, FoundInBounds, SetInBounds
    <2>2. CASE HandleNoReader \/ HandleNoEvent
      BY <2>2 DEF HandleNoReader, HandleNoEvent, bufferVars, BufferInv, Buffer, InBounds
    <2>. QED
      BY <1>2, <2>1, <2>2 DEF InterpreterHandleEvent
  <1>3. ASSUME NEW e \in Event, StoreKVMEvent(e) PROVE BufferInv'
    BY <1>3, StoredInBounds, SetInBounds DEF StoreKVMEvent, BufferInv
  <1>4. ASSUME UNCHANGED bufferVars PROVE BufferInv'
    BY <1>4 DEF bufferVars, BufferInv, Buffer, InBounds
  <1>5. ASSUME NEW t \in Thread, Yield(t) \/ \E delta \in 1..MaxDelta : Sleep(t, delta)
        PROVE  UNCHANGED bufferVars
    BY <1>5 DEF Yield, Sleep, bufferVars
  <1>6. CheckTimerQueue \/ SwitchThread \/ Tick \/ UNCHANGED vars => UNCHANGED bufferVars
    BY DEF CheckTimerQueue, SwitchThread, Tick, vars, bufferVars
  <1>. QED
    BY <1>1, <1>2, <1>3, <1>4, <1>5, <1>6 DEF Next

\* StoreKVMEvent() never writes behind eventBuffer, and getKVMEvent() never
\* reads before it, whatever the size of the buffer.
THEOREM BufferNeverOverrun == Spec => []BufferInBounds
  <1>1. Init => BufferInv
    BY EventsAssumption DEF EventsAssumption, Init, BufferInv, Buffer, InBounds
  <1>2. BufferInv /\ [Next]_vars => BufferInv'
    BY BufferStep
  <1>3. BufferInv => BufferInBounds
    BY DEF BufferInv, Buffer, InBounds, BufferInBounds
  <1>. QED
    BY <1>1, <1>2, <1>3, PTL DEF Spec

-----------------------------------------------------------------------------
(***************************************************************************)
(* The buffer is a sequence of cells: StoreKVMEvent() adds an event's at   *)
(* the end, getKVMEvent() takes the first.                                 *)
(***************************************************************************)
Cell == (Event \X Nat) \cup {NIL}

Good(b) == InBounds(b) /\ b.cell \in [0..(MAXPARMLENGTH - 1) -> Cell]

Cells(b) == [i \in 1..b.count |-> b.cell[b.inP - b.count + i - 1]]

\* The type of what is behind the refinement mapping.
EventInv == Good(Buffer) /\ waitingThread \in Thread \cup {NIL}

LEMMA CellsAre ==
    ASSUME NEW b, Good(b)
    PROVE  /\ Cells(b) \in Seq(Cell) /\ Len(Cells(b)) = b.count /\ b.count \in Nat
           /\ \A i \in 1..b.count : Cells(b)[i] = b.cell[b.inP - b.count + i - 1]
  <1>1. MAXPARMLENGTH \in Nat
    BY EventsAssumption DEF EventsAssumption
  <1>2. \A i \in 1..b.count : b.inP - b.count + i - 1 \in 0..(MAXPARMLENGTH - 1)
    BY <1>1 DEF Good, InBounds
  <1>3. \A i \in 1..b.count : b.cell[b.inP - b.count + i - 1] \in Cell
    BY <1>2 DEF Good
  <1>4. b.count \in Nat
    BY DEF Good, InBounds
  <1>. QED
    BY <1>3, <1>4 DEF Cells

LEMMA CellsOfEvent ==
    ASSUME NEW e \in Event
    PROVE  /\ CellsOf(e) \in Seq(Cell) /\ Len(CellsOf(e)) = ArgCount[e] + 1
           /\ \A i \in 1..(ArgCount[e] + 1) : CellsOf(e)[i] \in Cell
  <1>1. ArgCount[e] \in Nat
    BY CellsFit
  <1>2. \A i \in 1..(ArgCount[e] + 1) : <<e, i - 1>> \in Cell
    BY <1>1 DEF Cell
  <1>. QED
    BY <1>1, <1>2 DEF CellsOf

LEMMA StoredAtEnd ==
    ASSUME NEW b, Good(b), NEW e \in Event
    PROVE  /\ Good(Stored(b, e))
           /\ Stored(b, e) = b \/ Cells(Stored(b, e)) = Cells(b) \o CellsOf(e)
  <1>1. CASE b.count # 0 /\ b.inP > MAXPARMLENGTH - 1 - ArgCount[e]
    BY <1>1 DEF Stored
  <1>2. CASE ~(b.count # 0 /\ b.inP > MAXPARMLENGTH - 1 - ArgCount[e])
    <2>. DEFINE at == IF b.count = 0 THEN 0 ELSE b.inP
                n  == ArgCount[e]
                s  == Stored(b, e)
    <2>1. /\ n \in Nat /\ n <= MAXPARMLENGTH - 1 /\ MAXPARMLENGTH \in Nat
          /\ b.inP \in Nat /\ b.count \in Nat /\ b.count <= b.inP /\ b.inP <= MAXPARMLENGTH
          /\ b.cell \in [0..(MAXPARMLENGTH - 1) -> Cell]
      BY CellsFit DEF Good, InBounds
    <2>2. at \in Nat /\ at + n <= MAXPARMLENGTH - 1 /\ b.count <= at
      BY <1>2, <2>1
    <2>a. /\ CellsOf(e) \in Seq(Cell) /\ Len(CellsOf(e)) = n + 1
          /\ \A i \in 1..(n + 1) : CellsOf(e)[i] \in Cell
      BY CellsOfEvent
    <2>b. s = [cell |-> [i \in DOMAIN b.cell |->
                          IF i \in at..(at + n) THEN CellsOf(e)[i - at + 1] ELSE b.cell[i]],
               inP |-> at + Len(CellsOf(e)), count |-> b.count + Len(CellsOf(e))]
      BY <1>2 DEF Stored
    <2>. HIDE DEF at, n, s
    <2>3. /\ s.inP = at + n + 1 /\ s.count = b.count + n + 1
          /\ s.cell = [i \in DOMAIN b.cell |->
                         IF i \in at..(at + n) THEN CellsOf(e)[i - at + 1] ELSE b.cell[i]]
      <3>1. at + Len(CellsOf(e)) = at + n + 1 /\ b.count + Len(CellsOf(e)) = b.count + n + 1
        BY <2>1, <2>2, <2>a
      <3>. QED
        BY <2>b, <3>1
    <2>4. s.cell \in [0..(MAXPARMLENGTH - 1) -> Cell]
      <3>1. \A i \in at..(at + n) : i - at + 1 \in 1..(n + 1)
        BY <2>1, <2>2
      <3>2. \A i \in at..(at + n) : CellsOf(e)[i - at + 1] \in Cell
        BY <3>1, <2>a
      <3>. QED
        BY <2>1, <2>3, <3>2
    <2>5. Good(s)
      <3>1. /\ at + n + 1 \in Nat /\ b.count + n + 1 \in Nat
            /\ b.count + n + 1 <= at + n + 1 /\ at + n + 1 <= MAXPARMLENGTH
        BY <2>1, <2>2
      <3>2. InBounds(s)
        BY <2>3, <3>1 DEF InBounds
      <3>. QED
        BY <2>4, <3>2 DEF Good
    <2>6. \A i \in 1..b.count : s.cell[s.inP - s.count + i - 1] = b.cell[b.inP - b.count + i - 1]
      <3>. SUFFICES ASSUME NEW i \in 1..b.count
                    PROVE  s.cell[s.inP - s.count + i - 1] = b.cell[b.inP - b.count + i - 1]
        OBVIOUS
      <3>1. /\ s.inP - s.count + i - 1 = at - b.count + i - 1 /\ at = b.inP
            /\ at - b.count + i - 1 \in 0..(MAXPARMLENGTH - 1)
            /\ at - b.count + i - 1 \notin at..(at + n)
        BY <2>1, <2>2, <2>3 DEF at
      <3>. QED
        BY <2>1, <2>3, <3>1
    <2>7. \A i \in 1..(n + 1) : s.cell[s.inP - s.count + (b.count + i) - 1] = CellsOf(e)[i]
      <3>. SUFFICES ASSUME NEW i \in 1..(n + 1)
                    PROVE  s.cell[s.inP - s.count + (b.count + i) - 1] = CellsOf(e)[i]
        OBVIOUS
      <3>1. PICK k \in Int : k = at + i - 1
        BY <2>1, <2>2
      <3>a. s.inP - s.count + (b.count + i) - 1 = (at + n + 1) - (b.count + n + 1) + (b.count + i) - 1
        BY <2>3
      <3>b. s.inP - s.count + (b.count + i) - 1 = k
        BY <2>1, <2>2, <3>1, <3>a
      <3>c. k \in 0..(MAXPARMLENGTH - 1) /\ k \in at..(at + n) /\ k - at + 1 = i
        BY <2>1, <2>2, <3>1
      <3>2. /\ s.inP - s.count + (b.count + i) - 1 = k
            /\ k \in 0..(MAXPARMLENGTH - 1) /\ k \in at..(at + n) /\ k - at + 1 = i
        BY <3>b, <3>c
      <3>3. s.cell[k] = CellsOf(e)[k - at + 1]
        BY <2>1, <2>3, <3>2
      <3>. QED
        BY <3>2, <3>3
    <2>8. Cells(s) = Cells(b) \o CellsOf(e)
      <3>. DEFINE c == Cells(b) \o CellsOf(e)
      <3>1. /\ c \in Seq(Cell) /\ Len(c) = b.count + (n + 1)
            /\ \A i \in 1..(b.count + (n + 1)) :
                 c[i] = IF i <= b.count THEN Cells(b)[i] ELSE CellsOf(e)[i - b.count]
        <4>1. /\ Cells(b) \in Seq(Cell) /\ Len(Cells(b)) = b.count
              /\ CellsOf(e) \in Seq(Cell) /\ Len(CellsOf(e)) = n + 1
          BY <2>a, CellsAre
        <4>2. PICK p \in Seq(Cell) : p = Cells(b)
          BY <4>1
        <4>3. PICK q \in Seq(Cell) : q = CellsOf(e)
          BY <4>1
        <4>4. /\ p \o q \in Seq(Cell) /\ Len(p \o q) = Len(p) + Len(q)
              /\ \A i \in 1..(Len(p) + Len(q)) :
                   (p \o q)[i] = IF i <= Len(p) THEN p[i] ELSE q[i - Len(p)]
          BY ConcatProperties
        <4>5. c = p \o q /\ Len(p) = b.count /\ Len(q) = n + 1
          BY <4>1, <4>2, <4>3
        <4>. HIDE DEF c
        <4>. QED
          BY <4>2, <4>3, <4>4, <4>5
      <3>. HIDE DEF c
      <3>2. /\ Cells(s) \in Seq(Cell) /\ Len(Cells(s)) = s.count
            /\ \A i \in 1..s.count : Cells(s)[i] = s.cell[s.inP - s.count + i - 1]
        BY <2>5, CellsAre
      <3>3. ASSUME NEW i \in 1..s.count
            PROVE  Cells(s)[i] = c[i]
        <4>1. i \in 1..(b.count + (n + 1)) /\ s.count \in Nat
          BY <2>1, <2>3
        <4>2. CASE i <= b.count
          <5>1. i \in 1..b.count
            BY <4>1, <4>2, <2>1
          <5>. QED
            BY <5>1, <4>1, <4>2, <2>6, <3>1, <3>2, CellsAre
        <4>3. CASE ~(i <= b.count)
          <5>1. i - b.count \in 1..(n + 1) /\ b.count + (i - b.count) = i
            BY <4>1, <4>3, <2>1
          <5>2. s.cell[s.inP - s.count + (b.count + (i - b.count)) - 1] = CellsOf(e)[i - b.count]
            BY <5>1, <2>7
          <5>. QED
            BY <5>1, <5>2, <4>1, <4>3, <3>1, <3>2
        <4>. QED
          BY <4>2, <4>3
      <3>4. Len(Cells(s)) = Len(c)
        BY <2>1, <2>3, <3>1, <3>2
      <3>5. Cells(s) = c
        BY <3>1, <3>2, <3>3, <3>4, SeqEqual
      <3>. QED
        BY <3>5 DEF c
    <2>. QED
      BY <2>5, <2>8 DEF s
  <1>. QED
    BY <1>1, <1>2

LEMMA TakenFirst ==
    ASSUME NEW b, Good(b), b.count > 0
    PROVE  /\ Good(Taken(b)) /\ Cells(b) # << >>
           /\ Head(Cells(b)) = NextCell(b) /\ Tail(Cells(b)) = Cells(Taken(b))
  <1>1. /\ b.inP \in Nat /\ b.count \in Nat \ {0} /\ b.count <= b.inP
        /\ b.inP <= MAXPARMLENGTH
    BY DEF Good, InBounds
  <1>2. Taken(b).inP = b.inP /\ Taken(b).count = b.count - 1 /\ Taken(b).cell = b.cell
    BY DEF Taken
  <1>3. Good(Taken(b))
    BY <1>1, <1>2 DEF Good, InBounds
  <1>4. /\ Cells(b) \in Seq(Cell) /\ Len(Cells(b)) = b.count
        /\ \A i \in 1..b.count : Cells(b)[i] = b.cell[b.inP - b.count + i - 1]
    BY CellsAre
  <1>5. Cells(b) # << >> /\ Head(Cells(b)) = NextCell(b)
    <2>1. Head(Cells(b)) = Cells(b)[1] /\ Cells(b) # << >>
      BY <1>1, <1>4
    <2>2. 1 \in 1..b.count /\ b.inP - b.count + 1 - 1 = b.inP - b.count
      BY <1>1
    <2>. QED
      BY <2>1, <2>2, <1>4 DEF NextCell
  <1>6. /\ Tail(Cells(b)) \in Seq(Cell) /\ Len(Tail(Cells(b))) = b.count - 1
        /\ \A i \in 1..(b.count - 1) : Tail(Cells(b))[i] = Cells(b)[i + 1]
    BY <1>4, <1>5, HeadTailProperties
  <1>7. /\ Cells(Taken(b)) \in Seq(Cell) /\ Len(Cells(Taken(b))) = b.count - 1
        /\ \A i \in 1..(b.count - 1) :
             Cells(Taken(b))[i] = b.cell[b.inP - (b.count - 1) + i - 1]
    BY <1>2, <1>3, CellsAre
  <1>8. ASSUME NEW i \in 1..(b.count - 1)
        PROVE  Tail(Cells(b))[i] = Cells(Taken(b))[i]
    <2>1. /\ i + 1 \in 1..b.count
          /\ b.inP - b.count + (i + 1) - 1 = b.inP - (b.count - 1) + i - 1
      BY <1>1
    <2>. QED
      BY <2>1, <1>4, <1>6, <1>7
  <1>. QED
    BY <1>3, <1>5, <1>6, <1>7, <1>8, SeqEqual

LEMMA StoredIsOneMore ==
    ASSUME NEW b, Good(b), NEW e \in Event
    PROVE  /\ Cells(Stored(b, e)) \in {Cells(b)} \cup Stream!OneMore(Cells(b))
           /\ Stored(b, e) = b \/ Stored(b, e).count > 0
  <1>1. CASE Stored(b, e) = b
    BY <1>1
  <1>2. CASE Stored(b, e) # b
    <2>1. Cells(Stored(b, e)) = Cells(b) \o CellsOf(e)
      BY <1>2, StoredAtEnd
    <2>2. Stored(b, e).count = b.count + Len(CellsOf(e))
      BY <1>2 DEF Stored
    <2>3. b.count \in Nat /\ Len(CellsOf(e)) \in Nat \ {0}
      BY CellsFit DEF Good, InBounds
    <2>4. Stored(b, e).count > 0
      BY <2>2, <2>3
    <2>. QED
      BY <2>1, <2>4 DEF Stream!OneMore
  <1>. QED
    BY <1>1, <1>2

\* What the port stores when it is asked are whole events.
LEMMA PolledEvents ==
    ASSUME Good(Buffer), NEW b \in Found
    PROVE  /\ Good(b) /\ Cells(b) \in Stream!UpToTwoMore(Cells(Buffer))
           /\ (b.count = 0 => b = Buffer)
  <1>1. CASE b = Buffer
    BY <1>1 DEF Stream!UpToTwoMore
  <1>2. ASSUME NEW e \in Event, b = Stored(Buffer, e)
        PROVE  /\ Good(b) /\ Cells(b) \in Stream!UpToTwoMore(Cells(Buffer))
               /\ (b.count = 0 => b = Buffer)
    <2>1. Good(b)
      BY <1>2, StoredAtEnd
    <2>2. /\ Cells(b) \in {Cells(Buffer)} \cup Stream!OneMore(Cells(Buffer))
          /\ (b = Buffer \/ b.count > 0)
      BY <1>2, StoredIsOneMore
    <2>. QED
      BY <2>1, <2>2 DEF Stream!UpToTwoMore
  <1>3. ASSUME NEW e \in Event, NEW f \in Event, b = Stored(Stored(Buffer, e), f)
        PROVE  /\ Good(b) /\ Cells(b) \in Stream!UpToTwoMore(Cells(Buffer))
               /\ (b.count = 0 => b = Buffer)
    <2>. DEFINE s == Stored(Buffer, e)
    <2>1. Good(s)
      BY StoredAtEnd
    <2>2. /\ Cells(s) \in {Cells(Buffer)} \cup Stream!OneMore(Cells(Buffer))
          /\ (s = Buffer \/ s.count > 0)
      BY StoredIsOneMore
    <2>3. b = Stored(s, f)
      BY <1>3
    <2>. HIDE DEF s
    <2>4. Good(b)
      BY <2>1, <2>3, StoredAtEnd
    <2>5. /\ Cells(b) \in {Cells(s)} \cup Stream!OneMore(Cells(s))
          /\ (b = s \/ b.count > 0)
      BY <2>1, <2>3, StoredIsOneMore
    <2>6. Cells(s) = Cells(Buffer) => Cells(b) \in Stream!UpToTwoMore(Cells(Buffer))
      BY <2>5 DEF Stream!UpToTwoMore
    <2>7. Cells(s) \in Stream!OneMore(Cells(Buffer)) => Cells(b) \in Stream!UpToTwoMore(Cells(Buffer))
      BY <2>5 DEF Stream!UpToTwoMore
    <2>8. Cells(b) \in Stream!UpToTwoMore(Cells(Buffer))
      BY <2>2, <2>6, <2>7
    <2>9. b.count \in Nat /\ s.count \in Nat
      BY <2>1, <2>4 DEF Good, InBounds
    <2>10. b.count = 0 => b = Buffer
      BY <2>2, <2>5, <2>9
    <2>. QED
      BY <2>4, <2>8, <2>10
  <1>4. \/ b = Buffer
        \/ \E e \in Event : b = Stored(Buffer, e)
        \/ \E e, f \in Event : b = Stored(Stored(Buffer, e), f)
    BY DEF Found, Polled
  <1>. QED
    BY <1>1, <1>2, <1>3, <1>4

-----------------------------------------------------------------------------
(***************************************************************************)
(* Every step of the VM is a step of the stream or a stutter.              *)
(***************************************************************************)
LEMMA BufferBecomes ==
    ASSUME NEW b, Good(b), SetBuffer(b)
    PROVE  Good(Buffer)' /\ Cells(Buffer)' = Cells(b)
  <1>1. /\ Buffer'.cell = b.cell /\ Buffer'.inP = b.inP /\ Buffer'.count = b.count
    BY DEF SetBuffer, Buffer
  <1>2. Good(Buffer') /\ Cells(Buffer') = Cells(b)
    BY <1>1 DEF Good, InBounds, Cells
  <1>. QED
    BY <1>2 DEF Good, InBounds, Cells

LEMMA BufferStays ==
    ASSUME Good(Buffer), UNCHANGED bufferVars
    PROVE  Good(Buffer)' /\ Cells(Buffer)' = Cells(Buffer)
  BY DEF bufferVars, Good, InBounds, Cells, Buffer

LEMMA StreamReads ==
    ASSUME NEW t \in Thread, NEW q, q \in Stream!UpToTwoMore(Cells(Buffer)), q # << >>,
           topStack' = [topStack EXCEPT ![t] = Head(q)], Cells(Buffer)' = Tail(q)
    PROVE  Stream!Read(t)
  <1>1. q \in Stream!UpToTwoMore([i \in 1..eventCount |-> eventBuffer[eventInP - eventCount + i - 1]])
    BY DEF Cells, Buffer
  <1>2. [i \in 1..eventCount' |-> eventBuffer'[eventInP' - eventCount' + i - 1]] = Tail(q)
    BY DEF Cells, Buffer
  <1>. QED
    BY <1>1, <1>2 DEF Stream!Read

LEMMA StreamStores ==
    ASSUME Cells(Buffer)' \in Stream!OneMore(Cells(Buffer)), UNCHANGED topStack
    PROVE  Stream!Store
  BY DEF Stream!Store, Cells, Buffer

LEMMA StreamStutters ==
    ASSUME Cells(Buffer)' = Cells(Buffer), UNCHANGED topStack
    PROVE  UNCHANGED Stream!vars
  BY DEF Stream!vars, Cells, Buffer

\* A reader is given the cell in front.
LEMMA GivenTheFirst ==
    ASSUME Good(Buffer), NEW t \in Thread, NEW b \in Found, b.count > 0,
           topStack' = [topStack EXCEPT ![t] = NextCell(b)], SetBuffer(Taken(b))
    PROVE  Good(Buffer)' /\ Stream!Read(t)
  <1>1. Good(b) /\ Cells(b) \in Stream!UpToTwoMore(Cells(Buffer))
    BY PolledEvents
  <1>2. /\ Good(Taken(b)) /\ Cells(b) # << >>
        /\ Head(Cells(b)) = NextCell(b) /\ Tail(Cells(b)) = Cells(Taken(b))
    BY <1>1, TakenFirst
  <1>3. Good(Buffer)' /\ Cells(Buffer)' = Cells(Taken(b))
    BY <1>2, BufferBecomes
  <1>4. PICK q : q = Cells(b)
    OBVIOUS
  <1>5. /\ q \in Stream!UpToTwoMore(Cells(Buffer)) /\ q # << >>
        /\ topStack' = [topStack EXCEPT ![t] = Head(q)] /\ Cells(Buffer)' = Tail(q)
    BY <1>1, <1>2, <1>3, <1>4
  <1>. QED
    BY <1>3, <1>5, StreamReads

\* A reader that finds nothing: no cell is there, and none is lost.
LEMMA AwaitsFirst ==
    ASSUME Good(Buffer), NEW t \in Thread, NEW b \in Found, ~(b.count > 0),
           topStack' = [topStack EXCEPT ![t] = NIL], SetBuffer(b)
    PROVE  Good(Buffer)' /\ Stream!Await(t)
  <1>1. Good(b) /\ (b.count = 0 => b = Buffer)
    BY PolledEvents
  <1>2. b.count = 0 /\ b = Buffer
    BY <1>1 DEF Good, InBounds
  <1>3. Good(Buffer)' /\ Cells(Buffer)' = Cells(Buffer)
    BY <1>1, <1>2, BufferBecomes
  <1>4. eventCount = 0
    BY <1>2 DEF Buffer
  <1>5. Cells(Buffer) = << >>
    BY <1>4 DEF Cells, Buffer
  <1>. QED
    BY <1>3, <1>5 DEF Stream!Await, Cells, Buffer

LEMMA StreamStep ==
    ASSUME EventInv, [Next]_vars
    PROVE  EventInv' /\ [Stream!Next]_Stream!vars
  <1>. USE DEF EventInv
  <1>1. ASSUME NEW t \in Thread, ReadOneEvent(t)
        PROVE  EventInv' /\ [Stream!Next]_Stream!vars
    <2>1. PICK b \in Found :
            \/ /\ b.count > 0 /\ topStack' = [topStack EXCEPT ![t] = NextCell(b)]
               /\ SetBuffer(Taken(b)) /\ UNCHANGED waitingThread
            \/ /\ ~(b.count > 0) /\ topStack' = [topStack EXCEPT ![t] = NIL]
               /\ SetBuffer(b) /\ waitingThread' = t
      BY <1>1 DEF ReadOneEvent
    <2>2. Good(Buffer)' /\ (Stream!Read(t) \/ Stream!Await(t))
      BY <2>1, GivenTheFirst, AwaitsFirst
    <2>. QED
      BY <2>1, <2>2 DEF Stream!Next
  <1>2. ASSUME InterpreterHandleEvent
        PROVE  EventInv' /\ [Stream!Next]_Stream!vars
    <2>1. CASE AnswerReader
      <3>1. PICK b \in Found :
              /\ waitingThread # NIL /\ b.count > 0
              /\ topStack' = [topStack EXCEPT ![waitingThread] = NextCell(b)]
              /\ waitingThread' = NIL /\ SetBuffer(Taken(b))
        BY <2>1 DEF AnswerReader
      <3>2. PICK t \in Thread : t = waitingThread
        BY <3>1
      <3>3. topStack' = [topStack EXCEPT ![t] = NextCell(b)]
        BY <3>1, <3>2
      <3>4. Good(Buffer)' /\ Stream!Read(t)
        BY <3>1, <3>3, GivenTheFirst
      <3>. QED
        BY <3>1, <3>4 DEF Stream!Next
    <2>2. CASE HandleNoReader \/ HandleNoEvent
      <3>1. UNCHANGED <<bufferVars, topStack, waitingThread>>
        BY <2>2 DEF HandleNoReader, HandleNoEvent
      <3>. QED
        BY <3>1, BufferStays, StreamStutters
    <2>. QED
      BY <1>2, <2>1, <2>2 DEF InterpreterHandleEvent
  <1>3. ASSUME NEW e \in Event, StoreKVMEvent(e)
        PROVE  EventInv' /\ [Stream!Next]_Stream!vars
    <2>1. SetBuffer(Stored(Buffer, e)) /\ UNCHANGED <<topStack, waitingThread>>
      BY <1>3 DEF StoreKVMEvent
    <2>2. PICK b : b = Stored(Buffer, e)
      OBVIOUS
    <2>3. Good(b) /\ Cells(b) \in {Cells(Buffer)} \cup Stream!OneMore(Cells(Buffer))
      BY <2>2, StoredAtEnd, StoredIsOneMore
    <2>4. Good(Buffer)' /\ Cells(Buffer)' = Cells(b)
      BY <2>1, <2>2, <2>3, BufferBecomes
    <2>5. Stream!Store \/ UNCHANGED Stream!vars
      BY <2>1, <2>3, <2>4, StreamStores, StreamStutters
    <2>. QED
      BY <2>1, <2>4, <2>5 DEF Stream!Next
  <1>4. ASSUME UNCHANGED <<bufferVars, topStack, waitingThread>>
        PROVE  EventInv' /\ [Stream!Next]_Stream!vars
    BY <1>4, BufferStays, StreamStutters
  <1>5. ASSUME NEW t \in Thread, Yield(t) \/ \E delta \in 1..MaxDelta : Sleep(t, delta)
        PROVE  UNCHANGED <<bufferVars, topStack, waitingThread>>
    BY <1>5 DEF Yield, Sleep
  <1>6. CheckTimerQueue \/ SwitchThread \/ Tick \/ UNCHANGED vars
          => UNCHANGED <<bufferVars, topStack, waitingThread>>
    BY DEF CheckTimerQueue, SwitchThread, Tick, vars
  <1>. QED
    BY <1>1, <1>2, <1>3, <1>4, <1>5, <1>6 DEF Next

LEMMA StreamInit ==
    ASSUME Init
    PROVE  EventInv /\ Stream!Init
  <1>1. eventCount = 0 /\ eventInP = 0 /\ MAXPARMLENGTH \in Nat
    BY EventsAssumption DEF EventsAssumption, Init
  <1>2. eventBuffer \in [0..(MAXPARMLENGTH - 1) -> Cell]
    BY DEF Init, Cell
  <1>3. EventInv
    BY <1>1, <1>2 DEF Init, EventInv, Good, InBounds, Buffer
  <1>4. [i \in 1..eventCount |-> eventBuffer[eventInP - eventCount + i - 1]] = << >>
    BY <1>1
  <1>. QED
    BY <1>3, <1>4 DEF Init, Stream!Init

\* Every cell of every event that was accepted reaches one reader, whole
\* events in order, whoever asks the port and whenever the device calls back.
THEOREM EventsReachReaders == Spec => ImplementsEventStream
  <1>1. Init => EventInv /\ Stream!Init
    BY StreamInit
  <1>2. EventInv /\ [Next]_vars => EventInv' /\ [Stream!Next]_Stream!vars
    BY StreamStep
  <1>. QED
    BY <1>1, <1>2, PTL DEF Spec, ImplementsEventStream, Stream!Spec

=============================================================================
