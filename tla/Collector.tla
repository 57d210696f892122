------------------------------ MODULE Collector ------------------------------
(***************************************************************************)
(* A collection, and the allocations after it, on the cells of the heap:   *)
(* garbageCollectForReal(), sweepTheHeap(), compactTheHeap(),              *)
(* slideObject(), sortBreakTable(), updatePointer(), allocateFreeChunk()   *)
(* and callocPermanentObject() of VmCommon/src/collector.c.                *)
(*                                                                         *)
(* The compactor slides groups of live objects down and keeps a break      *)
(* table, an entry (address, offset) per group moved, in the cells that    *)
(* are free at the moment, moving it out of the way of the next group.     *)
(* Everything, the headers of free chunks and the break table too, is in   *)
(* mem and read from there.  Addresses and sizes are in cells.             *)
(***************************************************************************)
EXTENDS Marking, Integers

CONSTANT
    PermanentUnit       \* permanent space grows by multiples of it (0x800)

\* More about a heap: size, of objects with their headers; requests, the sizes
\* for which the collection may be asked; allocates, what is allocated then.
ASSUME CollectorAssumption ==
    /\ PermanentUnit \in Nat \ {0}
    /\ \A h \in Heaps :
         /\ h.size \in [1..h.n -> Nat \ {0, 1}]
         /\ h.requests \in SUBSET Nat
         /\ h.allocates \in SUBSET (Nat \ {0, 1})

VARIABLES
    mem,                \* the cells of the heap
    heapEnd,            \* CurrentHeapEnd
    step,               \* where garbageCollectForReal() is after marking
    freeChunk,          \* the free chunk met next, and FirstFreeChunk
    scan, copyTarget, count, table, lastRoll,   \* of compactTheHeap()
    job,                \* the arguments of slideObject(), as it changes them
    sortEnd,            \* currentEnd of sortBreakTable()
    pointer             \* pointer[o]: what the pointers to o now hold

compactVars == <<scan, copyTarget, count, table, lastRoll, job, sortEnd>>
cellVars == <<mem, heapEnd, step, freeChunk, compactVars, pointer>>
collectorVars == <<markVars, cellVars>>

NULL == 1000000         \* no cell of a heap in these instances

Start(o) ==
    LET f[i \in 0..heap.n] == IF i = 0 THEN 0 ELSE f[i-1] + heap.size[i]
    IN  f[o - 1]
HeapSize == Start(heap.n + 1)

\* The contents of cells.  The header of an object is its cell 0.
Cell(tag, a, b) == <<tag, a, b>>
ObjectCell(o, k) == Cell("object", o, k)

ObjectCells(o) == [k \in 1..heap.size[o] |-> ObjectCell(o, k - 1)]
AllCells ==
    LET f[i \in 0..heap.n] == IF i = 0 THEN << >> ELSE f[i-1] \o ObjectCells(i)
    IN  f[heap.n]

Memory == [DOMAIN mem ->
    {"object", "size", "next", "addr", "offset", "new"} \X Nat \X Nat]

NoJob == [target |-> 0, object |-> 0, size |-> 0, extra |-> 0, live |-> 0, moved |-> 0]

CollectorInit ==
    /\ MarkInit
    /\ mem = [c \in 0..(HeapSize - 1) |-> AllCells[c + 1]]
    /\ heapEnd = HeapSize
    /\ step = "mark"
    /\ freeChunk = NULL
    /\ scan = 0 /\ copyTarget = 0 /\ count = -1 /\ table = 0 /\ lastRoll = 0
    /\ job = NoJob /\ sortEnd = 0
    /\ pointer = [o \in Object |-> Start(o) + 1]

-----------------------------------------------------------------------------
(***************************************************************************)
(* sweepTheHeap(): groups of dead objects become free chunks, linked in    *)
(* the order of their addresses.  A free chunk holds its size without the  *)
(* header, and the next one.                                               *)
(***************************************************************************)
Groups ==       \* the groups of adjacent dead objects, as <<first, last>>
    {g \in Object \X Object :
        /\ g[1] <= g[2] /\ \A o \in g[1]..g[2] : o \notin marked
        /\ g[1] = 1 \/ g[1] - 1 \in marked
        /\ g[2] = heap.n \/ g[2] + 1 \in marked}

ChunkAt(g) == Start(g[1])
ChunkCells(g) == Start(g[2]) + heap.size[g[2]] - Start(g[1])

Least(S) == CHOOSE x \in S : \A y \in S : x <= y
NextOf(S) == IF S = {} THEN NULL ELSE Least(S)

SweepTheHeap ==
    LET groups == Groups
        starts == {ChunkAt(g) : g \in groups}
    IN
    /\ phase = "sweep" /\ step = "mark"
    /\ mem' = [c \in DOMAIN mem |->
         IF c \in starts
         THEN Cell("size", ChunkCells(CHOOSE g \in groups : ChunkAt(g) = c) - 1, 0)
         ELSE IF c - 1 \in starts
         THEN Cell("next", NextOf({s \in starts : s >= c}), 0)
         ELSE mem[c]]
    /\ freeChunk' = NextOf(starts)
    /\ \E realSize \in heap.requests :
         step' = IF \A g \in groups : realSize > ChunkCells(g) - 1
                 THEN "compact" ELSE "done"
    /\ UNCHANGED <<markVars, heapEnd, compactVars, pointer>>

-----------------------------------------------------------------------------
(***************************************************************************)
(* Compaction.                                                             *)
(***************************************************************************)
\* memmove()
Moved(m, to, from, n) ==
    [c \in DOMAIN m |-> IF c \in to..(to + n - 1) THEN m[from + (c - to)] ELSE m[c]]

tableSize == 2 * count
fullTableSize == tableSize + 2

\* The group at live was moved to copyTarget; m is the memory since.  Its
\* entry is added to the break table, now at tb.
Finished(m, tb, live, n) ==
    /\ mem' = [m EXCEPT ![tb + 2 * count] = Cell("addr", live, 0),
                        ![tb + 2 * count + 1] = Cell("offset", live - copyTarget, 0)]
    /\ table' = tb
    /\ copyTarget' = copyTarget + n
    /\ step' = IF scan' >= heapEnd THEN "sort" ELSE "compact"
    /\ count' = IF scan' >= heapEnd THEN count ELSE count + 1
    /\ job' = NoJob

\* One round of the loop of compactTheHeap().
LiveEnd == IF freeChunk = NULL THEN heapEnd ELSE freeChunk

NextGroup ==
    IF freeChunk = NULL THEN scan' = heapEnd /\ UNCHANGED freeChunk
    ELSE /\ scan' = freeChunk + mem[freeChunk][2] + 1
         /\ freeChunk' = mem[freeChunk + 1][2]

SkipFirst ==
    /\ step = "compact" /\ count = -1
    /\ NextGroup
    /\ copyTarget' = LiveEnd
    /\ step' = IF scan' >= heapEnd THEN "sort" ELSE "compact"
    /\ count' = IF scan' >= heapEnd THEN count ELSE 0
    /\ UNCHANGED <<markVars, mem, heapEnd, table, lastRoll, job, sortEnd, pointer>>

MoveFirst ==
    /\ step = "compact" /\ count = 0
    /\ NextGroup
    /\ Finished(Moved(mem, copyTarget, scan, LiveEnd - scan), scan' - 2,
                scan, LiveEnd - scan)
    /\ UNCHANGED <<markVars, heapEnd, lastRoll, sortEnd, pointer>>

MoveNext ==
    /\ step = "compact" /\ count > 0
    /\ NextGroup
    /\ step' = "slide"
    /\ job' = [target |-> copyTarget, object |-> scan, size |-> LiveEnd - scan,
               extra |-> scan' - LiveEnd, live |-> scan, moved |-> LiveEnd - scan]
    /\ UNCHANGED <<markVars, mem, heapEnd, copyTarget, count, table, lastRoll,
                   sortEnd, pointer>>

slideUnchanged == UNCHANGED <<markVars, heapEnd, scan, freeChunk, sortEnd, pointer>>

\* slideObject(): the object fits below the table
SlideBelow ==
    /\ step = "slide" /\ job.size <= table - job.target
    /\ slideUnchanged /\ UNCHANGED lastRoll
    /\ Finished(Moved(mem, job.target, job.object, job.size), table,
                job.live, job.moved)

\* Bug: no room is kept for the new entry.
PlaceWithoutEntry == job.object + job.size + job.extra - tableSize

PlaceBehind == job.object + job.size + job.extra - fullTableSize

\* the table fits behind the object
SlideTableAway ==
    LET newTable == PlaceBehind IN
    /\ step = "slide" /\ job.size > table - job.target
    /\ job.extra >= fullTableSize
    /\ slideUnchanged /\ UNCHANGED lastRoll
    /\ Finished(Moved(Moved(mem, newTable, table, tableSize),
                      job.target, job.object, job.size),
                newTable, job.live, job.moved)

\* Otherwise as much of the object as there is room for goes below the table.
freeBefore == table - job.target
Partly == Moved(mem, job.target, job.object, freeBefore)
object == job.object + freeBefore
objectSize == job.size - freeBefore
freeBehind == object - table - tableSize

Stuck == step = "slide" /\ job.size > freeBefore /\ job.extra < fullTableSize

\* the loop that exchanges the table with the beginning of the object
Swapped(memory) ==
    LET f[i \in Nat, m \in Memory] ==
          IF i = tableSize THEN m
          ELSE f[i + 1, [m EXCEPT ![table + i] = m[object + i],
                                  ![object + i] = m[table + i]]]
    IN  f[0, memory]

SlideSwap ==
    /\ Stuck /\ fullTableSize <= objectSize
    /\ mem' = Swapped(Partly)
    /\ table' = object
    /\ job' = [job EXCEPT !.target = table + tableSize,
                          !.object = object + tableSize,
                          !.size = objectSize - tableSize]
    /\ UNCHANGED <<step, copyTarget, count, lastRoll>>
    /\ slideUnchanged

\* the loops that move table and object at the same time
Shifted(memory, newTable) ==
    LET Copied(m, i) == [m EXCEPT ![newTable + i] = m[table + i]]
        f[i \in Nat, m \in Memory] ==
          IF i < objectSize
          THEN f[i + 1, [Copied(m, i) EXCEPT ![table + i] = Copied(m, i)[object + i]]]
          ELSE IF i < tableSize THEN f[i + 1, Copied(m, i)] ELSE m
    IN  f[0, memory]

SlideShift ==
    LET newTable == object + objectSize - fullTableSize IN
    /\ Stuck /\ fullTableSize > objectSize
    /\ fullTableSize <= objectSize + freeBehind
    /\ slideUnchanged /\ UNCHANGED lastRoll
    /\ Finished(Shifted(Partly, newTable), newTable, job.live, job.moved)

\* the loop that rolls the table over the object
Rolled(memory) ==
    LET f[i \in Nat, m \in Memory] ==
          IF i = objectSize THEN m
          ELSE f[i + 1, [m EXCEPT ![table + i] = m[object + i],
                                  ![table + tableSize + i] = m[table + i]]]
    IN  f[0, memory]

\* An odd number of rolls cuts an entry in two: its second half comes first.
\* It is rolled once more, or the first cell goes to the end.
MustRollAgain == objectSize % 2 = 1
RoomToRollAgain == freeBehind + job.extra > 2

RolledTable(m) ==
    LET tb == table + objectSize IN
    IF ~MustRollAgain THEN [mem |-> m, table |-> tb]
    ELSE IF RoomToRollAgain
    THEN [mem |-> [m EXCEPT ![tb + tableSize] = m[tb]], table |-> tb + 1]
    ELSE [mem |-> [Moved(m, tb, tb + 1, tableSize - 1)
                     EXCEPT ![tb + tableSize - 1] = m[tb]], table |-> tb]

SlideRoll ==
    /\ Stuck /\ fullTableSize > objectSize + freeBehind
    /\ lastRoll' = count
    /\ slideUnchanged
    /\ LET r == RolledTable(Rolled(Partly))
       IN  Finished(r.mem, r.table, job.live, job.moved)

-----------------------------------------------------------------------------
(***************************************************************************)
(* sortBreakTable(), on the first lastRoll entries; a step is a round of   *)
(* its outer loop.                                                         *)
(***************************************************************************)
Address(i) == mem[table + 2 * i][2]
Offset(i)  == mem[table + 2 * i + 1][2]
length == count + 1

BeginSort ==
    /\ step = "sort" /\ sortEnd = 0 /\ lastRoll > 1
    /\ sortEnd' = lastRoll - 1
    /\ UNCHANGED <<markVars, mem, heapEnd, step, freeChunk, scan, copyTarget,
                   count, table, lastRoll, job, pointer>>

SortStep ==
    LET max == CHOOSE i \in 0..sortEnd : \A j \in 0..sortEnd : Address(i) >= Address(j)
        a == table + 2 * max
        b == table + 2 * sortEnd
    IN
    /\ step = "sort" /\ sortEnd > 0
    /\ mem' = [mem EXCEPT ![a] = mem[b], ![a+1] = mem[b+1],
                          ![b] = mem[a], ![b+1] = mem[a+1]]
    /\ sortEnd' = sortEnd - 1
    /\ lastRoll' = IF sortEnd = 1 THEN 0 ELSE lastRoll
    /\ UNCHANGED <<markVars, heapEnd, step, freeChunk, scan, copyTarget, count,
                   table, job, pointer>>

EndSort ==
    /\ step = "sort" /\ sortEnd = 0 /\ lastRoll <= 1
    /\ step' = "update"
    /\ UNCHANGED <<markVars, mem, heapEnd, freeChunk, compactVars, pointer>>

(***************************************************************************)
(* updatePointer(), for every pointer to a live object; then the rest of   *)
(* the heap is one free chunk.                                             *)
(***************************************************************************)
\* The binary search for the last entry whose address is not above value.
Searched(value) ==
    LET f[low \in -1..length, high \in -1..length] ==
          IF low >= high THEN low
          ELSE LET middle == (low + high + 1) \div 2
               IN  IF value >= Address(middle) THEN f[middle, high]
                                               ELSE f[low, middle - 1]
    IN  f[-1, length - 1]

Updated(value) ==
    LET i == Searched(value) IN IF i < 0 THEN value ELSE value - Offset(i)

FreeRest == IF copyTarget < heapEnd - 1 THEN copyTarget ELSE NULL

UpdatePointers ==
    /\ step = "update"
    /\ pointer' = [o \in Object |-> IF o \in marked THEN Updated(pointer[o])
                                                    ELSE pointer[o]]
    /\ freeChunk' = FreeRest
    /\ mem' = IF FreeRest = NULL THEN mem
              ELSE [mem EXCEPT
                     ![copyTarget] = Cell("size", heapEnd - copyTarget - 1, 0),
                     ![copyTarget + 1] = Cell("next", NULL, 0)]
    /\ step' = "done"
    /\ UNCHANGED <<markVars, heapEnd, compactVars>>

-----------------------------------------------------------------------------
(***************************************************************************)
(* Allocation, after the collection.                                       *)
(***************************************************************************)
SizeAt(a) == mem[a][2]
NextAt(a) == mem[a + 1][2]

FreeChunks ==   \* FirstFreeChunk and what it leads to, in order
    LET f[s \in Seq(Nat)] == IF NextAt(s[Len(s)]) = NULL THEN s
                             ELSE f[Append(s, NextAt(s[Len(s)]))]
    IN  IF freeChunk = NULL THEN << >> ELSE f[<<freeChunk>>]

\* allocateFreeChunk(): first fit.  A larger chunk gives its end; the rest of
\* one that is hardly larger is wasted.
Fits(i, size) ==
    LET c == FreeChunks IN
    /\ i \in DOMAIN c /\ SizeAt(c[i]) + 1 >= size
    /\ \A j \in 1..(i - 1) : SizeAt(c[j]) + 1 < size

\* Bug: the wasted cell belongs to nobody.
SizeAsked(size, overhead) == size - 1
SizeTaken(size, overhead) == size + overhead - 1

Splits(a, size) == SizeAt(a) + 1 - size > 1

AllocateFreeChunk(i, size) ==
    LET c == FreeChunks
        a == c[i]
        overhead == SizeAt(a) + 1 - size
    IN
    /\ step = "done" /\ Fits(i, size)
    /\ IF Splits(a, size)
       THEN /\ mem' = [mem EXCEPT ![a] = Cell("size", overhead - 1, 0),
                                  ![a + overhead] = Cell("new", size - 1, 0)]
            /\ UNCHANGED freeChunk
       ELSE /\ mem' = [x \in DOMAIN mem |->
                 IF x = a THEN Cell("new", SizeTaken(size, overhead), 0)
                 ELSE IF i > 1 /\ x = c[i-1] + 1 THEN mem[a + 1] ELSE mem[x]]
            /\ freeChunk' = IF i = 1 THEN NextAt(a) ELSE freeChunk
    /\ UNCHANGED <<markVars, heapEnd, step, compactVars, pointer>>

\* callocPermanentObject() after the compaction it asks for, when permanent
\* space must grow by n units: it takes the end of the one free chunk, or
\* fails.  The code does not expect a heap that is completely full
\* (FirstFreeChunk NULL): bound, that case is left out.
ExpandPermanent(n) ==
    LET newPermanentSpace == heapEnd - n * PermanentUnit IN
    /\ step = "done" /\ freeChunk # NULL
    /\ freeChunk = copyTarget /\ freeChunk + SizeAt(freeChunk) + 1 = heapEnd
    /\ newPermanentSpace >= freeChunk + 2
    /\ heapEnd' = newPermanentSpace
    /\ mem' = [mem EXCEPT ![freeChunk] =
                 Cell("size", newPermanentSpace - freeChunk - 1, 0)]
    /\ UNCHANGED <<markVars, step, freeChunk, compactVars, pointer>>

-----------------------------------------------------------------------------
CollectorNext ==
    \/ MarkNext /\ UNCHANGED cellVars
    \/ SweepTheHeap
    \/ SkipFirst \/ MoveFirst \/ MoveNext
    \/ SlideBelow \/ SlideTableAway \/ SlideSwap \/ SlideShift \/ SlideRoll
    \/ BeginSort \/ SortStep \/ EndSort \/ UpdatePointers
    \/ \E i \in 1..heap.n, size \in heap.allocates : AllocateFreeChunk(i, size)
    \/ \E n \in 1..2 : ExpandPermanent(n)

CollectorSpec == CollectorInit /\ [][CollectorNext]_collectorVars

\* The collector runs to its end; nobody need allocate.
CollectorFairSpec == CollectorSpec /\ WF_collectorVars(CollectorNext)

-----------------------------------------------------------------------------
(***************************************************************************)
(* Properties.                                                             *)
(***************************************************************************)
\* Where a live object belongs after compaction: right behind the live ones
\* below it.
NewStart(o) ==
    LET f[i \in 0..heap.n] ==
          IF i = 0 THEN 0 ELSE f[i-1] + (IF i \in marked THEN heap.size[i] ELSE 0)
    IN  f[o - 1]

At(o, a) == \A k \in 0..(heap.size[o] - 1) : mem[a + k] = ObjectCell(o, k)

Compacted == step = "done" /\ freeChunk = FreeRest

\* The cells up to heapEnd are a sequence of objects and
\* chunks, each as long as its header says, and the free chunks found on the
\* way are those on the list: what the scans of the heap and allocation need.
Length(a) ==
    IF mem[a][1] \in {"size", "new"} THEN mem[a][2] + 1
    ELSE IF mem[a][1] = "object" /\ mem[a][3] = 0 THEN heap.size[mem[a][2]] ELSE 0

Walk ==         \* the headers from the start of the heap, and what follows
    LET f[s \in Seq(Nat), a \in Nat] ==
          IF a >= heapEnd \/ Length(a) = 0 THEN Append(s, a)
          ELSE f[Append(s, a), a + Length(a)]
    IN  f[<< >>, 0]

HeapParses ==
    LET w == Walk IN
    /\ w[Len(w)] = heapEnd
    /\ FreeChunks = SelectSeq(SubSeq(w, 1, Len(w) - 1), LAMBDA x : mem[x][1] = "size")

\* A live object is never written over: between two groups it is whole at its
\* old place or at its new one, and so is everything in the end, when every
\* pointer leads to its object, wherever that is, and the heap can be scanned and
\* allocated from.
ObjectsIntact ==
    /\ step = "compact" =>
         \A o \in marked : At(o, IF Start(o) >= scan THEN Start(o) ELSE NewStart(o))
    /\ step \in {"sort", "update"} => \A o \in marked : At(o, NewStart(o))
    /\ step = "done" => \A o \in marked : At(o, pointer[o] - 1)
    /\ step = "done" => HeapParses

\* Marking, however many passes it takes, and compaction end.
CollectionEnds == <>(step = "done")
=============================================================================
