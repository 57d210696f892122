------------------------- MODULE ClassLoading_proofs -------------------------
(***************************************************************************)
(* A linked class stands on linked classes, and stays linked, for every    *)
(* set of class files.                                                     *)
(*                                                                         *)
(* The activations of loadClassfile() do not meet: the classes each has    *)
(* loaded form a chain of superclasses that ends at a linked class, so     *)
(* that the search for the next class to link does not reach a class of    *)
(* an activation below, and none of these is linked behind its back.       *)
(***************************************************************************)
EXTENDS ClassFiles, SequenceTheorems, TLAPS

\* What has been settled when the interfaces of c are looked at, up to the one
\* in front of number i.
HalfLinked(c, i) ==
    LET s == superClass[c] IN
    /\ IF s = NULL THEN c = JavaLangObject /\ instSize[c] = 0
       ELSE loadStatus[s] = "LINKED" /\ ~Loads!IsInterface(s) /\ instSize[c] = instSize[s]
    /\ \A k \in DOMAIN classPath[c].interfaces :
         k < i => /\ Loads!WasLinked(classPath[c].interfaces[k])
                  /\ Loads!IsInterface(classPath[c].interfaces[k])

\* A class with an activation is loaded; its superclass is linked, belongs to
\* the same activation, or is the next to be loaded.
OwnedAreLoaded ==
    \A c \in ClassName : loadedBy[c] # 0 =>
        /\ loadedBy[c] \in 1 .. Len(frames)
        /\ loadStatus[c] = "LOADED"
        /\ superClass[c] = classPath[c].superClass

ChainsEndLinked ==
    \A c \in ClassName : (loadedBy[c] # 0 /\ superClass[c] # NULL) =>
        LET s == superClass[c] IN
        \/ loadStatus[s] = "LINKED"
        \/ loadedBy[s] = loadedBy[c]
        \/ /\ loadedBy[c] = Len(frames)
           /\ \/ exception # NULL
              \/ loadFatal
              \/ s = Loads!Top.clazz /\ loadStatus[s] = "RAW" /\ Loads!Top.ifIndex = 0

InterfaceLoops ==
    \A k \in 1 .. Len(frames) : frames[k].ifIndex > 0 =>
        /\ frames[k].clazz \in ClassName
        /\ loadedBy[frames[k].clazz] = k
        /\ HalfLinked(frames[k].clazz, frames[k].ifIndex)

LowerFrames ==
    \A k \in 1 .. Len(frames) : k < Len(frames) =>
        loadedBy[frames[k].initiating] = k /\ frames[k].ifIndex > 0

\* The class of the top activation is loaded, is the next to be loaded or
\* could not be, or has just been linked.
TopFrame ==
    frames # << >> =>
        LET c == Loads!Top.initiating IN
        \/ loadedBy[c] = Len(frames)
        \/ /\ loadStatus[c] \in {"RAW", "LOADING"}
           /\ (exception = NULL /\ ~loadFatal) =>
                loadStatus[c] = "RAW" /\ Loads!Top.clazz = c /\ Loads!Top.ifIndex = 0
        \/ /\ loadStatus[c] = "LINKED" /\ exception = NULL /\ Loads!Top.ifIndex = 0
           /\ Loads!Top.clazz \in ClassName /\ loadStatus[Loads!Top.clazz] = "LINKED"

\* Types, and what is taken for granted of the class files.
Typed == Loads!ClassPathsAssumption /\ Loads!TypeOK

IInv ==
    /\ Typed
    /\ OwnedAreLoaded /\ ChainsEndLinked /\ InterfaceLoops /\ LowerFrames
    /\ TopFrame /\ Loads!LinkedIsClosed

-----------------------------------------------------------------------------
(***************************************************************************)
(* Types, and what the operations on frames do.                            *)
(***************************************************************************)
LEMMA FilesAssumed ==
    ASSUME IInv
    PROVE  /\ NULL \notin ClassName \cup Loads!Exception
           /\ JavaLangObject \in ClassName
           /\ ClassPaths \subseteq [ClassName -> Loads!ClassFile]
BY DEF IInv, Typed, Loads!ClassPathsAssumption

LEMMA FilesTyped ==
    ASSUME Typed, NEW c \in ClassName
    PROVE  /\ classPath[c] \in Loads!ClassFile
           /\ classPath[c].superClass \in ClassName \cup {NULL}
           /\ classPath[c].interfaces \in Seq(ClassName)
           /\ classPath[c].fields \in Nat
           /\ classPath[c].flags \in Loads!Flags
BY DEF Typed, Loads!TypeOK, Loads!ClassFile, Loads!ClassPathsAssumption

LEMMA FrameTyped ==
    ASSUME Typed, NEW k \in 1 .. Len(frames)
    PROVE  /\ frames[k].initiating \in ClassName
           /\ frames[k].clazz \in ClassName \cup {NULL}
           /\ frames[k].ifIndex \in Nat
<1>1. frames[k] \in Loads!Frame
  BY DEF Typed, Loads!TypeOK
<1>. QED
  BY <1>1 DEF Loads!Frame

LEMMA TopTyped ==
    ASSUME Typed, frames # << >>
    PROVE  /\ Len(frames) \in Nat /\ Len(frames) >= 1
           /\ Loads!Top = frames[Len(frames)]
           /\ Loads!Top \in Loads!Frame
           /\ Loads!Top.initiating \in ClassName
           /\ Loads!Top.clazz \in ClassName \cup {NULL}
           /\ Loads!Top.ifIndex \in Nat
<1>1. Len(frames) \in Nat /\ Len(frames) >= 1
  BY DEF Typed, Loads!TypeOK
<1>2. frames[Len(frames)] \in Loads!Frame
  BY <1>1 DEF Typed, Loads!TypeOK
<1>. QED
  BY <1>1, <1>2 DEF Loads!Top, Loads!Frame

LEMMA SetTopFrames ==
    ASSUME Typed, frames # << >>, NEW c \in ClassName \cup {NULL}, NEW i \in Nat,
           Loads!SetTop(c, i)
    PROVE  /\ frames' \in Seq(Loads!Frame)
           /\ frames' # << >>
           /\ Len(frames') = Len(frames)
           /\ \A k \in 1 .. Len(frames) : k < Len(frames) => frames'[k] = frames[k]
           /\ Loads!Top' = [initiating |-> Loads!Top.initiating, clazz |-> c, ifIndex |-> i]
           /\ Loads!Top' = frames'[Len(frames)]
<1>. DEFINE new == [initiating |-> Loads!Top.initiating, clazz |-> c, ifIndex |-> i]
<1>1. new = [initiating |-> Loads!Top.initiating, clazz |-> c, ifIndex |-> i]
  OBVIOUS
<1>2. new \in Loads!Frame
  BY <1>1, TopTyped DEF Loads!Frame
<1>. HIDE DEF new
<1>3. frames' = [frames EXCEPT ![Len(frames)] = new]
  BY DEF Loads!SetTop, Loads!Top, new
<1>4. /\ frames' \in Seq(Loads!Frame) /\ Len(frames') = Len(frames)
      /\ \A k \in 1 .. Len(frames) : k < Len(frames) => frames'[k] = frames[k]
      /\ frames'[Len(frames)] = new
  BY <1>2, <1>3, TopTyped DEF Typed, Loads!TypeOK
<1>. QED
  BY <1>1, <1>4, TopTyped DEF Loads!Top

LEMMA CallFrames ==
    ASSUME Typed, NEW c \in ClassName, Loads!Call(c)
    PROVE  /\ frames' \in Seq(Loads!Frame)
           /\ frames' # << >>
           /\ Len(frames') = Len(frames) + 1
           /\ \A k \in 1 .. Len(frames) : frames'[k] = frames[k]
           /\ Loads!Top' = [initiating |-> c, clazz |-> c, ifIndex |-> 0]
           /\ Loads!Top' = frames'[Len(frames) + 1]
<1>1. [initiating |-> c, clazz |-> c, ifIndex |-> 0] \in Loads!Frame /\ frames \in Seq(Loads!Frame)
  BY DEF Loads!Frame, Typed, Loads!TypeOK
<1>. QED
  BY <1>1 DEF Loads!Call, Loads!Top

LEMMA PopFrames ==
    ASSUME Typed, frames # << >>, Loads!Pop
    PROVE  /\ frames' \in Seq(Loads!Frame)
           /\ Len(frames') = Len(frames) - 1
           /\ \A k \in 1 .. Len(frames') : frames'[k] = frames[k]
           /\ frames' # << >> => Len(frames') >= 1 /\ Loads!Top' = frames[Len(frames')]
           /\ loadedBy' \in [ClassName -> Nat]
           /\ \A c \in ClassName :
                /\ loadedBy[c] = Len(frames) => loadedBy'[c] = 0
                /\ loadedBy[c] # Len(frames) => loadedBy'[c] = loadedBy[c]
<1>1. /\ frames' \in Seq(Loads!Frame) /\ Len(frames') = Len(frames) - 1
      /\ \A k \in 1 .. Len(frames') : frames'[k] = frames[k]
  <2>. DEFINE n == Len(frames) - 1
  <2>1. n \in Nat /\ 1 \in Int /\ n \in Int /\ frames' = SubSeq(frames, 1, n)
    BY TopTyped DEF Loads!Pop
  <2>2. \A k \in 1 .. n : frames[k] \in Loads!Frame
    BY TopTyped DEF Typed, Loads!TypeOK
  <2>. HIDE DEF n
  <2>3. /\ SubSeq(frames, 1, n) \in Seq(Loads!Frame)
        /\ Len(SubSeq(frames, 1, n)) = IF 1 <= n THEN n - 1 + 1 ELSE 0
        /\ \A k \in 1 .. n - 1 + 1 : SubSeq(frames, 1, n)[k] = frames[1 + k - 1]
    BY <2>1, <2>2, SubSeqProperties
  <2>4. Len(frames') = n
    BY <2>1, <2>3
  <2>5. \A k \in 1 .. n : frames'[k] = frames[k]
    BY <2>1, <2>3
  <2>. QED
    BY <2>1, <2>3, <2>4, <2>5 DEF n
<1>2. frames' # << >> => Len(frames') >= 1 /\ Loads!Top' = frames[Len(frames')]
  BY <1>1 DEF Loads!Top
<1>3. loadedBy' = [c \in ClassName |-> IF loadedBy[c] = Len(frames) THEN 0 ELSE loadedBy[c]]
  BY DEF Loads!Pop
<1>. QED
  BY <1>1, <1>2, <1>3 DEF Typed, Loads!TypeOK

\* An action that leaves classes and frames alone, apart from what is thrown.
LEMMA OnlyRaised ==
    ASSUME IInv, frames # << >>, exception = NULL, ~loadFatal,
           loadedBy[Loads!Top.initiating] = Len(frames) \/ loadStatus[Loads!Top.initiating] = "RAW",
           UNCHANGED <<classPath, Loads!classVars, frames>>,
           loadedReflectively' \in BOOLEAN,
           \/ exception' \in Loads!Exception /\ loadFatal' = FALSE
           \/ exception' = NULL /\ loadFatal' = TRUE,
           UNCHANGED usedUnlinked
    PROVE  IInv'
<1>1. Typed'
  BY DEF IInv, Typed, Loads!TypeOK, Loads!classVars
<1>2. OwnedAreLoaded' /\ InterfaceLoops' /\ LowerFrames' /\ Loads!LinkedIsClosed'
  BY DEF IInv, OwnedAreLoaded, InterfaceLoops, LowerFrames, Loads!LinkedIsClosed, Loads!Stands,
         Loads!WasLinked, Loads!IsInterface, HalfLinked, Loads!classVars
<1>3. exception' # NULL \/ loadFatal'
  BY FilesAssumed
<1>4. ChainsEndLinked'
  BY <1>3 DEF IInv, ChainsEndLinked, Loads!Top, Loads!classVars
<1>5. TopFrame'
  BY <1>3 DEF IInv, TopFrame, Loads!Top, Loads!classVars
<1>. QED
  BY <1>1, <1>2, <1>4, <1>5 DEF IInv

-----------------------------------------------------------------------------
(***************************************************************************)
(* The search for the next class to link stays with the top activation.    *)
(***************************************************************************)
LEMMA LinkedByTop ==
    ASSUME IInv, Loads!Runs, Loads!InLinkLoop, NEW c \in Loads!SuperMostUnlinked(Loads!Top.initiating)
    PROVE  /\ c \in ClassName
           /\ loadedBy[c] = Len(frames)
           /\ loadedBy[Loads!Top.initiating] = Len(frames)
           /\ superClass[c] # NULL => loadStatus[superClass[c]] = "LINKED"
<1>. DEFINE i == Loads!Top.initiating
            S == {x \in ClassName : loadedBy[x] = Len(frames) \/ loadStatus[x] = "LINKED"}
<1>1. /\ Typed /\ frames # << >> /\ exception = NULL /\ ~loadFatal
      /\ ~Loads!InLoadLoop /\ Loads!Top.ifIndex = 0 /\ i \in ClassName
  BY TopTyped DEF IInv, Loads!Runs, Loads!InLinkLoop
<1>2. c \in ClassName /\ c \in Loads!Upwards(i) /\ loadStatus[c] # "LINKED"
      /\ (superClass[c] # NULL => loadStatus[superClass[c]] = "LINKED")
  BY DEF Loads!SuperMostUnlinked, Loads!Upwards, Loads!Unlinked
<1>3. i \in S
  <2>1. ~(loadStatus[i] = "RAW" /\ Loads!Top.clazz = i)
    BY <1>1, FilesAssumed DEF Loads!InLoadLoop
  <2>. QED
    BY <2>1, <1>1 DEF IInv, TopFrame
<1>4. \A x \in S : Loads!Unlinked(x) /\ superClass[x] # NULL => superClass[x] \in S
  <2>. SUFFICES ASSUME NEW x \in S, Loads!Unlinked(x), superClass[x] # NULL
                PROVE  superClass[x] \in S
    OBVIOUS
  <2>1. loadedBy[x] = Len(frames) /\ x \in ClassName
    BY DEF Loads!Unlinked
  <2>2. loadedBy[x] # 0
    BY <2>1, <1>1, TopTyped
  <2>3. superClass[x] \in ClassName
    BY <2>1, <1>1 DEF Typed, Loads!TypeOK
  <2>4. ~(superClass[x] = Loads!Top.clazz /\ loadStatus[superClass[x]] = "RAW")
    BY <1>1, <2>3, FilesAssumed DEF Loads!InLoadLoop
  <2>. QED
    BY <2>1, <2>2, <2>3, <2>4, <1>1 DEF IInv, ChainsEndLinked
<1>5. c \in S
  <2>1. S \in SUBSET ClassName
    OBVIOUS
  <2>. QED
    BY <1>2, <1>3, <1>4, <2>1 DEF Loads!Upwards
<1>6. loadedBy[i] = Len(frames)
  <2>. SUFFICES ASSUME loadStatus[i] = "LINKED", loadedBy[i] # Len(frames) PROVE FALSE
    BY <1>3
  <2>1. {i} \in SUBSET ClassName /\ i \in {i}
    BY <1>1
  <2>2. \A x \in {i} : Loads!Unlinked(x) /\ superClass[x] # NULL => superClass[x] \in {i}
    BY DEF Loads!Unlinked
  <2>3. c \in {i}
    BY <1>2, <2>1, <2>2 DEF Loads!Upwards
  <2>. QED
    BY <2>3, <1>2
<1>. QED
  BY <1>2, <1>5, <1>6

-----------------------------------------------------------------------------
(***************************************************************************)
(* The invariant holds initially, and one lemma for each action shows that *)
(* it is preserved.                                                        *)
(***************************************************************************)
LEMMA InitInvariant == Loads!ClassPathsAssumption /\ Loads!Init => IInv
<1>. SUFFICES ASSUME Loads!ClassPathsAssumption, Loads!Init PROVE IInv
  OBVIOUS
<1>1. Typed
  <2>1. /\ frames \in Seq(Loads!Frame) /\ loadStatus \in [ClassName -> Loads!Status]
        /\ accessFlags \in [ClassName -> Loads!Flags]
    BY DEF Loads!Init, Loads!Status, Loads!Flags
  <2>. QED
    BY <2>1 DEF Loads!Init, Typed, Loads!TypeOK
<1>. QED
  BY <1>1 DEF Loads!Init, IInv, OwnedAreLoaded, ChainsEndLinked, InterfaceLoops,
              LowerFrames, TopFrame, Loads!LinkedIsClosed, Loads!WasLinked

LEMMA CallFromOutside ==
    ASSUME IInv, NEW c \in ClassName, Loads!Idle, loadStatus[c] = "RAW", Loads!Call(c),
           loadedReflectively' \in BOOLEAN,
           UNCHANGED <<classPath, Loads!classVars, exception, loadFatal>>,
           UNCHANGED usedUnlinked
    PROVE  IInv'
<1>1. Typed /\ frames = << >> /\ Len(frames) = 0
  BY DEF IInv, Loads!Idle
<1>2. Typed'
  BY <1>1, CallFrames DEF Typed, Loads!TypeOK, Loads!classVars
<1>3. \A d \in ClassName : loadedBy[d] = 0
  BY <1>1 DEF IInv, OwnedAreLoaded
<1>4. Loads!LinkedIsClosed'
  BY DEF IInv, Loads!LinkedIsClosed, Loads!Stands, Loads!WasLinked, Loads!IsInterface, Loads!classVars
<1>5. TopFrame'
  BY <1>1, CallFrames DEF TopFrame, Loads!classVars
<1>6. InterfaceLoops' /\ LowerFrames'
  <2>1. Len(frames') = 1 /\ frames'[1].ifIndex = 0
    BY <1>1, CallFrames
  <2>. QED
    BY <2>1 DEF InterfaceLoops, LowerFrames
<1>. QED
  BY <1>2, <1>3, <1>4, <1>5, <1>6
     DEF IInv, OwnedAreLoaded, ChainsEndLinked, Loads!classVars

LEMMA GetClassInvariant ==
    ASSUME IInv, NEW c \in ClassName, Loads!GetClass(c) \/ Loads!ForName(c)
    PROVE  IInv'
BY CallFromOutside DEF Loads!GetClass, Loads!ForName, IInv, Typed, Loads!TypeOK

LEMMA InitializeClassInvariant ==
    ASSUME IInv, NEW c \in ClassName, Loads!InitializeClass(c)
    PROVE  IInv'
<1>. USE DEF Loads!InitializeClass, Loads!Idle
<1>1. Typed /\ frames = << >> /\ Len(frames) = 0
  BY DEF IInv
<1>2. Typed'
  BY <1>1 DEF Typed, Loads!TypeOK, Loads!Status
<1>3. \A d \in ClassName : loadedBy[d] = 0
  BY <1>1 DEF IInv, OwnedAreLoaded
<1>4. /\ \A d \in ClassName : Loads!WasLinked(d) => Loads!WasLinked(d)'
      /\ \A d \in ClassName \ usedUnlinked' : Loads!WasLinked(d)' => Loads!WasLinked(d)
  BY <1>1 DEF Typed, Loads!TypeOK, Loads!WasLinked
<1>5. Loads!LinkedIsClosed'
  <2>. SUFFICES ASSUME NEW d \in ClassName \ usedUnlinked, Loads!WasLinked(d) PROVE Loads!Stands(d)'
    BY <1>4 DEF Loads!LinkedIsClosed
  <2>1. Loads!Stands(d)
    BY DEF IInv, Loads!LinkedIsClosed
  <2>2. superClass[d] \in ClassName \cup {NULL} /\ classPath[d].interfaces \in Seq(ClassName)
    BY <1>1, FilesTyped DEF Typed, Loads!TypeOK
  <2>. QED
    BY <2>1, <2>2, <1>4 DEF Loads!Stands, Loads!IsInterface
<1>. QED
  BY <1>1, <1>2, <1>3, <1>5
     DEF IInv, OwnedAreLoaded, ChainsEndLinked, InterfaceLoops, LowerFrames, TopFrame

-----------------------------------------------------------------------------
\* Classes whose status or superclass an action changes: neither linked nor
\* loaded by an activation.
LEMMA InterfaceLoopsKept ==
    ASSUME Typed, InterfaceLoops, UNCHANGED classPath, Len(frames') \in Nat,
           \A d \in ClassName : loadStatus[d] = "LINKED" =>
                loadStatus'[d] = "LINKED" /\ instSize'[d] = instSize[d],
           \A d \in ClassName : Loads!WasLinked(d) =>
                Loads!WasLinked(d)' /\ accessFlags'[d] = accessFlags[d],
           \A k \in 1 .. Len(frames') : frames'[k].ifIndex > 0 =>
                /\ k \in 1 .. Len(frames) /\ frames'[k] = frames[k]
                /\ LET x == frames[k].clazz IN
                   x \in ClassName /\ loadedBy[x] = k =>
                     /\ loadedBy'[x] = k
                     /\ superClass'[x] = superClass[x] /\ instSize'[x] = instSize[x]
    PROVE  InterfaceLoops'
<1>. SUFFICES ASSUME NEW k \in 1 .. Len(frames'), frames'[k].ifIndex > 0
              PROVE  (/\ frames[k].clazz \in ClassName
                      /\ loadedBy[frames[k].clazz] = k
                      /\ HalfLinked(frames[k].clazz, frames[k].ifIndex))'
  BY DEF InterfaceLoops
<1>. DEFINE x == frames[k].clazz
            i == frames[k].ifIndex
            s == superClass[x]
<1>1. k \in 1 .. Len(frames) /\ frames'[k] = frames[k] /\ i > 0 /\ i \in Nat
  BY FrameTyped
<1>2. x \in ClassName /\ loadedBy[x] = k /\ HalfLinked(x, i)
  BY <1>1 DEF InterfaceLoops
<1>3. superClass'[x] = s /\ instSize'[x] = instSize[x] /\ loadedBy'[x] = k
  BY <1>1, <1>2
<1>4. s \in ClassName \cup {NULL} /\ classPath[x].interfaces \in Seq(ClassName)
  BY <1>2, FilesTyped DEF Typed, Loads!TypeOK
<1>5. IF s = NULL THEN x = JavaLangObject /\ instSize'[x] = 0
      ELSE /\ loadStatus'[s] = "LINKED" /\ "INTERFACE" \notin accessFlags'[s]
           /\ instSize'[x] = instSize'[s]
  BY <1>2, <1>3, <1>4 DEF HalfLinked, Loads!WasLinked, Loads!IsInterface
<1>6. \A j \in DOMAIN classPath[x].interfaces : j < i =>
         /\ loadStatus'[classPath[x].interfaces[j]] \in {"LINKED", "ERROR"}
         /\ "INTERFACE" \in accessFlags'[classPath[x].interfaces[j]]
  BY <1>2, <1>4 DEF HalfLinked, Loads!WasLinked, Loads!IsInterface
<1>. QED
  BY <1>1, <1>2, <1>3, <1>5, <1>6 DEF HalfLinked, Loads!WasLinked, Loads!IsInterface

LEMMA StandsKept ==
    ASSUME Typed, NEW c \in ClassName, Loads!WasLinked(c), Loads!Stands(c),
           UNCHANGED classPath,
           \A d \in ClassName : Loads!WasLinked(d) =>
                /\ Loads!WasLinked(d)'
                /\ instSize'[d] = instSize[d] /\ superClass'[d] = superClass[d]
                /\ accessFlags'[d] = accessFlags[d]
    PROVE  Loads!Stands(c)'
<1>1. superClass[c] \in ClassName \cup {NULL} /\ classPath[c].interfaces \in Seq(ClassName)
  BY FilesTyped DEF Typed, Loads!TypeOK
<1>. QED
  BY <1>1 DEF Loads!Stands, Loads!IsInterface

-----------------------------------------------------------------------------
(***************************************************************************)
(* The loop that loads.                                                    *)
(***************************************************************************)
LEMMA LoadFailedInvariant ==
    ASSUME IInv, Loads!Runs, Loads!InLoadLoop, UNCHANGED classPath,
           Loads!NotFound(Loads!Top.clazz) \/ Loads!RestrictedPackage(Loads!Top.clazz)
             \/ Loads!Unreadable(Loads!Top.clazz),
           UNCHANGED usedUnlinked
    PROVE  IInv'
<1>. DEFINE c == Loads!Top.clazz
            i == Loads!Top.initiating
<1>1. /\ Typed /\ frames # << >> /\ exception = NULL /\ ~loadFatal
      /\ c \in ClassName /\ loadStatus[c] = "RAW" /\ i \in ClassName
  BY TopTyped DEF IInv, Loads!Runs, Loads!InLoadLoop
<1>2. loadedBy[c] = 0
  BY <1>1 DEF IInv, OwnedAreLoaded
<1>3. /\ UNCHANGED <<frames, instSize, loadedBy, loadFatal>>
      /\ exception' \in Loads!Exception /\ exception' # NULL
      /\ loadedReflectively' \in BOOLEAN
      /\ loadStatus' \in [ClassName -> Loads!Status] /\ superClass' \in [ClassName -> ClassName \cup {NULL}]
      /\ accessFlags' \in [ClassName -> Loads!Flags]
      /\ loadStatus'[c] \in {"RAW", "LOADING"}
      /\ \A d \in ClassName : d # c => /\ loadStatus'[d] = loadStatus[d]
                                   /\ superClass'[d] = superClass[d]
                                   /\ accessFlags'[d] = accessFlags[d]
  <2>1. CASE Loads!NotFound(c)
    BY <2>1, <1>1, FilesAssumed
       DEF Loads!NotFound, Loads!Raise, Loads!classVars, Typed, Loads!TypeOK, Loads!Exception
  <2>2. CASE Loads!RestrictedPackage(c)
    BY <2>2, <1>1, FilesAssumed
       DEF Loads!RestrictedPackage, Loads!Raise, Typed, Loads!TypeOK, Loads!Exception, Loads!Status
  <2>3. CASE Loads!Unreadable(c)
    <3>1. classPath[c].superClass \in ClassName \cup {NULL} /\ classPath[c].flags \in Loads!Flags
      BY <1>1, FilesTyped
    <3>2. Loads!TypeOK
      BY <1>1 DEF Typed
    <3>3. /\ UNCHANGED <<frames, instSize, loadedBy, loadFatal>>
          /\ exception' \in Loads!Exception /\ exception' # NULL /\ loadedReflectively' \in BOOLEAN
      BY <2>3, <1>1, FilesAssumed DEF Loads!Unreadable, Loads!Raise, Loads!Exception
    <3>4. loadStatus' = [loadStatus EXCEPT ![c] = "LOADING"]
      BY <2>3 DEF Loads!Unreadable
    <3>5. CASE UNCHANGED <<superClass, accessFlags>>
      BY <1>1, <3>2, <3>3, <3>4, <3>5 DEF Loads!TypeOK, Loads!Status
    <3>6. CASE Loads!LoadClassInfo(c)
      BY <1>1, <3>1, <3>2, <3>3, <3>4, <3>6 DEF Loads!LoadClassInfo, Loads!TypeOK, Loads!Status
    <3>. QED
      BY <2>3, <3>5, <3>6 DEF Loads!Unreadable
  <2>. QED
    BY <2>1, <2>2, <2>3
<1>4. Typed'
  BY <1>1, <1>3 DEF Typed, Loads!TypeOK
<1>5. \A d \in ClassName : Loads!WasLinked(d) \/ loadStatus[d] = "LINKED" => d # c
  BY <1>1 DEF Loads!WasLinked
<1>6. \A d \in ClassName : Loads!WasLinked(d) <=> Loads!WasLinked(d)'
  BY <1>1, <1>3 DEF Loads!WasLinked
<1>7. OwnedAreLoaded'
  BY <1>2, <1>3 DEF IInv, OwnedAreLoaded
<1>8. ChainsEndLinked'
  <2>. SUFFICES ASSUME NEW d \in ClassName, loadedBy[d] # 0, superClass[d] # NULL,
                       loadStatus'[superClass[d]] # "LINKED",
                       loadedBy[superClass[d]] # loadedBy[d]
                PROVE  loadedBy[d] = Len(frames)
    BY <1>2, <1>3 DEF ChainsEndLinked
  <2>1. superClass[d] \in ClassName
    BY <1>1 DEF Typed, Loads!TypeOK
  <2>2. loadStatus[superClass[d]] # "LINKED"
    BY <2>1, <1>3, <1>5
  <2>. QED
    BY <2>2 DEF IInv, ChainsEndLinked
<1>9. InterfaceLoops'
  <2>1. \A k \in 1 .. Len(frames) :
          loadedBy[frames[k].clazz] = k => frames[k].clazz # c
    BY <1>1, <1>2
  <2>. QED
    BY <2>1, <1>1, <1>3, <1>5, <1>6, InterfaceLoopsKept DEF IInv
<1>10. LowerFrames'
  BY <1>3 DEF IInv, LowerFrames
<1>11. TopFrame'
  BY <1>1, <1>3 DEF IInv, TopFrame, Loads!Top
<1>12. Loads!LinkedIsClosed'
  BY <1>1, <1>3, <1>5, <1>6, StandsKept DEF IInv, Loads!LinkedIsClosed
<1>. QED
  BY <1>4, <1>7, <1>8, <1>9, <1>10, <1>11, <1>12 DEF IInv

LEMMA ReadInvariant ==
    ASSUME IInv, Loads!Runs, Loads!InLoadLoop, UNCHANGED classPath, Loads!Read(Loads!Top.clazz),
           UNCHANGED usedUnlinked
    PROVE  IInv'
<1>. DEFINE c == Loads!Top.clazz
            i == Loads!Top.initiating
            s == classPath[c].superClass
<1>1. /\ Typed /\ frames # << >> /\ exception = NULL /\ ~loadFatal
      /\ c \in ClassName /\ loadStatus[c] = "RAW" /\ i \in ClassName
      /\ Len(frames) \in Nat /\ Len(frames) >= 1
  BY TopTyped DEF IInv, Loads!Runs, Loads!InLoadLoop
<1>2. loadedBy[c] = 0 /\ s \in ClassName \cup {NULL}
  BY <1>1, FilesTyped DEF IInv, OwnedAreLoaded
<1>3. /\ UNCHANGED instSize
      /\ loadStatus' = [loadStatus EXCEPT ![c] = "LOADED"]
      /\ superClass' = [superClass EXCEPT ![c] = s]
      /\ accessFlags' = [accessFlags EXCEPT ![c] = classPath[c].flags]
      /\ loadedBy' = [loadedBy EXCEPT ![c] = Len(frames)]
      /\ loadedReflectively' = FALSE
      /\ Loads!SetTop(s, 0)
      /\ loadFatal' = (s # NULL /\ loadStatus'[s] = "LOADING")
      /\ exception' = IF Loads!SuperRejected(s)
                      THEN IF loadStatus'[s] = "ERROR" THEN "NoClassDefFoundError"
                                                   ELSE "LinkageError"
                      ELSE NULL
  BY DEF Loads!Read, Loads!LoadClassInfo
<1>4. /\ frames' \in Seq(Loads!Frame) /\ frames' # << >> /\ Len(frames') = Len(frames)
      /\ \A k \in 1 .. Len(frames) : k < Len(frames) => frames'[k] = frames[k]
      /\ Loads!Top' = [initiating |-> i, clazz |-> s, ifIndex |-> 0]
      /\ Loads!Top' = frames'[Len(frames)]
  <2>1. Typed /\ frames # << >> /\ s \in ClassName \cup {NULL} /\ 0 \in Nat /\ Loads!SetTop(s, 0)
    BY <1>1, <1>2, <1>3
  <2>. HIDE DEF s
  <2>. QED
    BY <2>1, SetTopFrames
<1>5. /\ loadStatus' \in [ClassName -> Loads!Status] /\ superClass' \in [ClassName -> ClassName \cup {NULL}]
      /\ loadedBy' \in [ClassName -> Nat] /\ accessFlags' \in [ClassName -> Loads!Flags]
      /\ loadStatus'[c] = "LOADED" /\ superClass'[c] = s /\ loadedBy'[c] = Len(frames)
      /\ \A d \in ClassName : d # c => /\ loadStatus'[d] = loadStatus[d]
                                   /\ superClass'[d] = superClass[d]
                                   /\ accessFlags'[d] = accessFlags[d]
                                   /\ loadedBy'[d] = loadedBy[d]
  <2>1. classPath[c].flags \in Loads!Flags
    BY <1>1, FilesTyped
  <2>. QED
    BY <2>1, <1>1, <1>2, <1>3 DEF Typed, Loads!TypeOK, Loads!Status
<1>6. exception' \in Loads!Exception \cup {NULL} /\ loadFatal' \in BOOLEAN
  BY <1>3 DEF Loads!Exception
<1>7. Typed'
  BY <1>1, <1>3, <1>4, <1>5, <1>6 DEF Typed, Loads!TypeOK
<1>8. \A d \in ClassName : Loads!WasLinked(d) \/ loadStatus[d] = "LINKED" => d # c
  BY <1>1 DEF Loads!WasLinked
<1>9. \A d \in ClassName : Loads!WasLinked(d) <=> Loads!WasLinked(d)'
  BY <1>1, <1>5 DEF Loads!WasLinked
<1>10. OwnedAreLoaded'
  <2>1. \A d \in ClassName : d # c /\ loadedBy[d] # 0 =>
          loadedBy'[d] \in 1 .. Len(frames') /\ loadStatus'[d] = "LOADED"
            /\ superClass'[d] = classPath'[d].superClass
    BY <1>4, <1>5 DEF IInv, OwnedAreLoaded
  <2>2. loadedBy'[c] \in 1 .. Len(frames') /\ superClass'[c] = classPath'[c].superClass
    BY <1>1, <1>4, <1>5
  <2>. QED
    BY <2>1, <2>2, <1>5 DEF OwnedAreLoaded
<1>11. ChainsEndLinked'
  <2>1. ASSUME s # NULL, loadStatus'[s] # "LINKED"
        PROVE  \/ exception' # NULL
               \/ loadFatal'
               \/ s = (Loads!Top.clazz)' /\ loadStatus'[s] = "RAW"
    <3>1. loadStatus'[s] \in Loads!Status
      BY <2>1, <1>2, <1>5
    <3>2. CASE loadStatus'[s] \in {"ERROR", "LOADED"}
      BY <3>2, <2>1, <1>3, FilesAssumed DEF Loads!SuperRejected, Loads!Exception
    <3>3. CASE loadStatus'[s] = "LOADING"
      BY <3>3, <2>1, <1>3
    <3>4. CASE loadStatus'[s] = "RAW"
      BY <3>4, <1>3, <1>4
    <3>. QED
      BY <3>1, <3>2, <3>3, <3>4, <2>1 DEF Loads!Status
  <2>2. ASSUME NEW d \in ClassName, d # c, loadedBy[d] # 0, superClass[d] # NULL
        PROVE  \/ loadStatus'[superClass[d]] = "LINKED"
               \/ loadedBy'[superClass[d]] = loadedBy[d]
    <3>1. superClass[d] \in ClassName
      BY <1>1, <2>2 DEF Typed, Loads!TypeOK
    <3>2. \/ loadStatus[superClass[d]] = "LINKED"
          \/ loadedBy[superClass[d]] = loadedBy[d]
          \/ superClass[d] = c /\ loadedBy[d] = Len(frames)
      BY <1>1, <2>2 DEF IInv, ChainsEndLinked
    <3>3. CASE superClass[d] = c
      BY <3>2, <3>3, <2>2, <1>1, <1>2, <1>5
    <3>4. CASE superClass[d] # c
      BY <3>1, <3>2, <3>4, <1>5
    <3>. QED
      BY <3>3, <3>4
  <2>3. SUFFICES ASSUME NEW d \in ClassName, loadedBy'[d] # 0, superClass'[d] # NULL,
                        loadStatus'[superClass'[d]] # "LINKED",
                        loadedBy'[superClass'[d]] # loadedBy'[d]
                 PROVE  /\ loadedBy'[d] = Len(frames')
                        /\ \/ exception' # NULL
                           \/ loadFatal'
                           \/ /\ superClass'[d] = (Loads!Top.clazz)'
                              /\ loadStatus'[superClass'[d]] = "RAW" /\ (Loads!Top.ifIndex)' = 0
    BY DEF ChainsEndLinked
  <2>4. d = c
    BY <2>2, <2>3, <1>5
  <2>. QED
    BY <2>1, <2>3, <2>4, <1>4, <1>5
<1>12. InterfaceLoops'
  <2>1. \A k \in 1 .. Len(frames) :
          loadedBy[frames[k].clazz] = k => frames[k].clazz # c
    BY <1>1, <1>2
  <2>2. \A k \in 1 .. Len(frames') : frames'[k].ifIndex > 0 =>
          k \in 1 .. Len(frames) /\ frames'[k] = frames[k]
    BY <1>1, <1>4
  <2>. QED
    BY <2>1, <2>2, <1>1, <1>3, <1>4, <1>5, <1>8, <1>9, InterfaceLoopsKept DEF IInv
<1>13. LowerFrames'
  <2>. SUFFICES ASSUME NEW k \in 1 .. Len(frames), k < Len(frames)
                PROVE  loadedBy'[frames[k].initiating] = k /\ frames[k].ifIndex > 0
    BY <1>4 DEF LowerFrames
  <2>1. loadedBy[frames[k].initiating] = k /\ frames[k].ifIndex > 0
    BY DEF IInv, LowerFrames
  <2>2. frames[k].initiating \in ClassName
    BY <1>1, FrameTyped
  <2>. QED
    BY <2>1, <2>2, <1>2, <1>5
<1>14. TopFrame'
  <2>1. loadedBy'[i] = Len(frames)
    BY <1>1, <1>4, <1>5 DEF IInv, TopFrame
  <2>. QED
    BY <2>1, <1>4 DEF TopFrame
<1>15. Loads!LinkedIsClosed'
  BY <1>1, <1>3, <1>5, <1>8, <1>9, StandsKept DEF IInv, Loads!LinkedIsClosed
<1>. QED
  BY <1>7, <1>10, <1>11, <1>12, <1>13, <1>14, <1>15 DEF IInv

-----------------------------------------------------------------------------
(***************************************************************************)
(* The loop that links.                                                    *)
(***************************************************************************)
LEMMA LinkSuperClassInvariant ==
    ASSUME IInv, Loads!LinkSuperClass,
           UNCHANGED usedUnlinked
    PROVE  IInv'
<1>. DEFINE i == Loads!Top.initiating
<1>1. /\ Typed /\ frames # << >> /\ exception = NULL /\ ~loadFatal
      /\ Loads!Runs /\ Loads!InLinkLoop /\ i \in ClassName
      /\ Len(frames) \in Nat /\ Len(frames) >= 1
      /\ UNCHANGED <<classPath, loadStatus, superClass, accessFlags, loadedBy,
                     loadedReflectively>>
  BY TopTyped DEF IInv, Loads!LinkSuperClass, Loads!Runs
<1>2. PICK c \in Loads!SuperMostUnlinked(i) :
        IF Loads!BadSuperClass(c)
        THEN Loads!SetTop(c, 0) /\ Loads!Raise("LinkageError") /\ UNCHANGED instSize
        ELSE /\ Loads!SetTop(c, 1)
             /\ instSize' = [instSize EXCEPT
                  ![c] = IF superClass[c] = NULL THEN 0 ELSE instSize[superClass[c]]]
             /\ UNCHANGED <<exception, loadFatal>>
  BY DEF Loads!LinkSuperClass
<1>3. /\ c \in ClassName /\ loadedBy[c] = Len(frames) /\ loadedBy[i] = Len(frames)
      /\ superClass[c] # NULL => loadStatus[superClass[c]] = "LINKED"
  BY <1>1, <1>2, LinkedByTop
<1>4. /\ loadStatus[c] = "LOADED" /\ superClass[c] = classPath[c].superClass
      /\ superClass[c] \in ClassName \cup {NULL} /\ superClass[c] # c
      /\ classPath[c].interfaces \in Seq(ClassName)
  BY <1>1, <1>3, FilesTyped, FilesAssumed DEF IInv, OwnedAreLoaded
<1>5. PICK n \in {0, 1} : Loads!SetTop(c, n) /\ n = (IF Loads!BadSuperClass(c) THEN 0 ELSE 1)
  BY <1>2
<1>6. /\ frames' \in Seq(Loads!Frame) /\ frames' # << >> /\ Len(frames') = Len(frames)
      /\ \A k \in 1 .. Len(frames) : k < Len(frames) => frames'[k] = frames[k]
      /\ Loads!Top' = [initiating |-> i, clazz |-> c, ifIndex |-> n]
      /\ Loads!Top' = frames'[Len(frames)]
  BY <1>1, <1>3, <1>5, SetTopFrames
<1>7. /\ instSize' \in [ClassName -> Nat]
      /\ \A d \in ClassName : d # c => instSize'[d] = instSize[d]
      /\ ~Loads!BadSuperClass(c) =>
           instSize'[c] = IF superClass[c] = NULL THEN 0 ELSE instSize[superClass[c]]
  <2>. DEFINE size == IF superClass[c] = NULL THEN 0 ELSE instSize[superClass[c]]
  <2>1. instSize \in [ClassName -> Nat] /\ size \in Nat
    BY <1>1, <1>4 DEF Typed, Loads!TypeOK
  <2>2. instSize' = IF Loads!BadSuperClass(c) THEN instSize ELSE [instSize EXCEPT ![c] = size]
    BY <1>2
  <2>. HIDE DEF size
  <2>3. /\ instSize' \in [ClassName -> Nat]
        /\ \A d \in ClassName : d # c => instSize'[d] = instSize[d]
        /\ ~Loads!BadSuperClass(c) => instSize'[c] = size
    BY <1>3, <2>1, <2>2
  <2>. QED
    BY <2>3 DEF size
<1>8. /\ Loads!BadSuperClass(c) => exception' \in Loads!Exception /\ exception' # NULL /\ loadFatal' = loadFatal
      /\ ~Loads!BadSuperClass(c) => exception' = NULL /\ loadFatal' = loadFatal
  BY <1>1, <1>2, FilesAssumed DEF Loads!Raise, Loads!Exception
<1>9. Typed'
  BY <1>1, <1>6, <1>7, <1>8 DEF Typed, Loads!TypeOK
<1>10. \A d \in ClassName : Loads!WasLinked(d) \/ loadStatus[d] = "LINKED" => d # c
  BY <1>4 DEF Loads!WasLinked
<1>11. OwnedAreLoaded'
  BY <1>1, <1>6 DEF IInv, OwnedAreLoaded
<1>12. ChainsEndLinked'
  <2>. SUFFICES ASSUME NEW d \in ClassName, loadedBy[d] # 0, superClass[d] # NULL
                PROVE  \/ loadStatus[superClass[d]] = "LINKED"
                       \/ loadedBy[superClass[d]] = loadedBy[d]
    BY <1>1 DEF ChainsEndLinked
  <2>1. superClass[d] \in ClassName
    BY <1>1 DEF Typed, Loads!TypeOK
  <2>2. ~(superClass[d] = Loads!Top.clazz /\ loadStatus[superClass[d]] = "RAW")
    BY <1>1, <2>1, FilesAssumed DEF Loads!InLinkLoop, Loads!InLoadLoop
  <2>. QED
    BY <2>2, <1>1 DEF IInv, ChainsEndLinked
<1>13. InterfaceLoops'
  <2>. SUFFICES ASSUME NEW k \in 1 .. Len(frames), frames'[k].ifIndex > 0
                PROVE  (/\ frames[k].clazz \in ClassName
                        /\ loadedBy[frames[k].clazz] = k
                        /\ HalfLinked(frames[k].clazz, frames[k].ifIndex))'
    BY <1>6 DEF InterfaceLoops
  <2>1. CASE k = Len(frames)
    <3>1. frames'[k].clazz = c /\ frames'[k].ifIndex = 1 /\ ~Loads!BadSuperClass(c)
      BY <2>1, <1>5, <1>6
    <3>2. IF superClass[c] = NULL THEN c = JavaLangObject /\ instSize'[c] = 0
          ELSE /\ loadStatus[superClass[c]] = "LINKED" /\ ~Loads!IsInterface(superClass[c])
               /\ instSize'[c] = instSize'[superClass[c]]
      BY <3>1, <1>3, <1>4, <1>7 DEF Loads!BadSuperClass, Loads!IsInterface
    <3>3. HalfLinked(c, 1)'
      BY <3>2, <1>1, <1>4 DEF HalfLinked, Loads!IsInterface
    <3>. QED
      BY <2>1, <3>1, <3>3, <1>1, <1>3
  <2>2. CASE k # Len(frames)
    <3>1. frames'[k] = frames[k] /\ frames[k].ifIndex > 0
      BY <2>2, <1>1, <1>6
    <3>. DEFINE x == frames[k].clazz
                j == frames[k].ifIndex
    <3>2. x \in ClassName /\ loadedBy[x] = k /\ HalfLinked(x, j)
      BY <3>1, <1>1 DEF IInv, InterfaceLoops
    <3>3. x # c /\ superClass[x] \in ClassName \cup {NULL}
      BY <3>2, <2>2, <1>1, <1>3 DEF Typed, Loads!TypeOK
    <3>4. instSize'[x] = instSize[x]
          /\ (superClass[x] # NULL => instSize'[superClass[x]] = instSize[superClass[x]])
      <4>1. superClass[x] # NULL => loadStatus[superClass[x]] = "LINKED" /\ superClass[x] # c
        BY <3>2, <1>4 DEF HalfLinked
      <4>. QED
        BY <4>1, <3>2, <3>3, <1>7
    <3>5. IF superClass[x] = NULL THEN x = JavaLangObject /\ instSize'[x] = 0
          ELSE /\ loadStatus[superClass[x]] = "LINKED" /\ ~Loads!IsInterface(superClass[x])
               /\ instSize'[x] = instSize'[superClass[x]]
      BY <3>2, <3>4 DEF HalfLinked
    <3>6. \A h \in DOMAIN classPath[x].interfaces : h < j =>
            /\ loadStatus[classPath[x].interfaces[h]] \in {"LINKED", "ERROR"}
            /\ Loads!IsInterface(classPath[x].interfaces[h])
      BY <3>2 DEF HalfLinked, Loads!WasLinked
    <3>. QED
      BY <3>1, <3>2, <3>5, <3>6, <1>1 DEF HalfLinked, Loads!WasLinked, Loads!IsInterface
  <2>. QED
    BY <2>1, <2>2
<1>14. LowerFrames'
  BY <1>1, <1>6 DEF IInv, LowerFrames
<1>15. TopFrame'
  BY <1>1, <1>3, <1>6 DEF TopFrame
<1>16. Loads!LinkedIsClosed'
  <2>1. \A d \in ClassName : Loads!WasLinked(d)' <=> Loads!WasLinked(d)
    BY <1>1 DEF Loads!WasLinked
  <2>. QED
    BY <2>1, <1>1, <1>7, <1>10, StandsKept DEF IInv, Loads!LinkedIsClosed
<1>. QED
  BY <1>9, <1>11, <1>12, <1>13, <1>14, <1>15, <1>16 DEF IInv

LEMMA LoopTyped ==
    ASSUME IInv, Loads!Runs, Loads!Top.ifIndex > 0
    PROVE  /\ Typed /\ frames # << >> /\ exception = NULL /\ ~loadFatal
           /\ Len(frames) \in Nat /\ Len(frames) >= 1
           /\ Loads!Top.initiating \in ClassName /\ loadedBy[Loads!Top.initiating] = Len(frames)
           /\ Loads!Top.clazz \in ClassName /\ loadedBy[Loads!Top.clazz] = Len(frames)
           /\ Loads!Top.ifIndex \in Nat
           /\ HalfLinked(Loads!Top.clazz, Loads!Top.ifIndex)
           /\ classPath[Loads!Top.clazz].interfaces \in Seq(ClassName)
<1>1. /\ Typed /\ frames # << >> /\ exception = NULL /\ ~loadFatal
      /\ Len(frames) \in Nat /\ Len(frames) >= 1
      /\ Loads!Top.initiating \in ClassName /\ Loads!Top.ifIndex \in Nat
      /\ Loads!Top = frames[Len(frames)]
  BY TopTyped DEF IInv, Loads!Runs
<1>2. Len(frames) \in 1 .. Len(frames)
  BY <1>1
<1>3. /\ Loads!Top.clazz \in ClassName /\ loadedBy[Loads!Top.clazz] = Len(frames)
      /\ HalfLinked(Loads!Top.clazz, Loads!Top.ifIndex)
  BY <1>1, <1>2 DEF IInv, InterfaceLoops
<1>4. loadedBy[Loads!Top.initiating] = Len(frames)
  BY <1>1 DEF IInv, TopFrame
<1>. QED
  BY <1>1, <1>3, <1>4, FilesTyped

LEMMA CallInterfaceInvariant ==
    ASSUME IInv, Loads!Runs, Loads!Top.ifIndex > 0, NEW f \in ClassName, loadStatus[f] = "RAW", Loads!Call(f),
           UNCHANGED <<classPath, Loads!classVars, loadedReflectively, exception, loadFatal>>,
           UNCHANGED usedUnlinked
    PROVE  IInv'
<1>1. /\ Typed /\ exception = NULL /\ Len(frames) \in Nat /\ Len(frames) >= 1
      /\ loadedBy[Loads!Top.initiating] = Len(frames) /\ Loads!Top = frames[Len(frames)]
  BY LoopTyped, TopTyped
<1>2. /\ frames' \in Seq(Loads!Frame) /\ frames' # << >>
      /\ Len(frames') = Len(frames) + 1
      /\ \A k \in 1 .. Len(frames) : frames'[k] = frames[k]
      /\ Loads!Top' = [initiating |-> f, clazz |-> f, ifIndex |-> 0]
      /\ Loads!Top' = frames'[Len(frames) + 1]
  BY <1>1, CallFrames
<1>3. Typed'
  BY <1>1, <1>2 DEF Typed, Loads!TypeOK, Loads!classVars
<1>4. OwnedAreLoaded'
  BY <1>1, <1>2 DEF IInv, OwnedAreLoaded, Loads!classVars
<1>5. ChainsEndLinked'
  <2>. SUFFICES ASSUME NEW d \in ClassName, loadedBy[d] # 0, superClass[d] # NULL
                PROVE  \/ loadStatus[superClass[d]] = "LINKED"
                       \/ loadedBy[superClass[d]] = loadedBy[d]
    BY DEF ChainsEndLinked, Loads!classVars
  <2>. QED
    BY <1>1 DEF IInv, ChainsEndLinked, Loads!Runs
<1>6. InterfaceLoops'
  <2>. HIDE DEF InterfaceLoops
  <2>1. \A k \in 1 .. Len(frames') : frames'[k].ifIndex > 0 =>
          k \in 1 .. Len(frames) /\ frames'[k] = frames[k]
    BY <1>1, <1>2
  <2>. QED
    BY <2>1, <1>1, <1>2, InterfaceLoopsKept DEF IInv, Loads!classVars, Loads!WasLinked
<1>7. LowerFrames'
  BY <1>1, <1>2 DEF IInv, LowerFrames, Loads!classVars
<1>8. TopFrame'
  BY <1>2 DEF TopFrame, Loads!classVars
<1>9. Loads!LinkedIsClosed'
  BY DEF IInv, Loads!LinkedIsClosed, Loads!Stands, Loads!WasLinked, Loads!IsInterface, Loads!classVars
<1>. QED
  BY <1>3, <1>4, <1>5, <1>6, <1>7, <1>8, <1>9 DEF IInv

LEMMA InterfaceLinkedInvariant ==
    ASSUME IInv, Loads!Runs, Loads!Top.ifIndex > 0,
           Loads!Top.ifIndex <= Len(classPath[Loads!Top.clazz].interfaces),
           Loads!WasLinked(classPath[Loads!Top.clazz].interfaces[Loads!Top.ifIndex]),
           Loads!IsInterface(classPath[Loads!Top.clazz].interfaces[Loads!Top.ifIndex]),
           Loads!SetTop(Loads!Top.clazz, Loads!Top.ifIndex + 1),
           UNCHANGED <<classPath, Loads!classVars, loadedReflectively, exception, loadFatal>>,
           UNCHANGED usedUnlinked
    PROVE  IInv'
<1>. DEFINE x == Loads!Top.clazz
            i == Loads!Top.initiating
            j == Loads!Top.ifIndex
<1>1. /\ Typed /\ frames # << >> /\ exception = NULL
      /\ Len(frames) \in Nat /\ Len(frames) >= 1
      /\ i \in ClassName /\ loadedBy[i] = Len(frames)
      /\ x \in ClassName /\ loadedBy[x] = Len(frames)
      /\ j \in Nat /\ HalfLinked(x, j) /\ classPath[x].interfaces \in Seq(ClassName)
  BY LoopTyped
<1>2. /\ frames' \in Seq(Loads!Frame) /\ frames' # << >> /\ Len(frames') = Len(frames)
      /\ \A k \in 1 .. Len(frames) : k < Len(frames) => frames'[k] = frames[k]
      /\ Loads!Top' = [initiating |-> i, clazz |-> x, ifIndex |-> j + 1]
      /\ Loads!Top' = frames'[Len(frames)]
  <2>1. j + 1 \in Nat /\ Loads!SetTop(x, j + 1)
    BY <1>1
  <2>. HIDE DEF x, j
  <2>. QED
    BY <1>1, <2>1, SetTopFrames
<1>3. Typed'
  BY <1>1, <1>2 DEF Typed, Loads!TypeOK, Loads!classVars
<1>4. OwnedAreLoaded' /\ LowerFrames'
  BY <1>1, <1>2 DEF IInv, OwnedAreLoaded, LowerFrames, Loads!classVars
<1>5. ChainsEndLinked'
  <2>. SUFFICES ASSUME NEW d \in ClassName, loadedBy[d] # 0, superClass[d] # NULL
                PROVE  \/ loadStatus[superClass[d]] = "LINKED"
                       \/ loadedBy[superClass[d]] = loadedBy[d]
    BY DEF ChainsEndLinked, Loads!classVars
  <2>. QED
    BY <1>1 DEF IInv, ChainsEndLinked, Loads!Runs
<1>6. InterfaceLoops'
  <2>. SUFFICES ASSUME NEW k \in 1 .. Len(frames), frames'[k].ifIndex > 0
                PROVE  (/\ frames[k].clazz \in ClassName
                        /\ loadedBy[frames[k].clazz] = k
                        /\ HalfLinked(frames[k].clazz, frames[k].ifIndex))'
    BY <1>2 DEF InterfaceLoops
  <2>1. CASE k = Len(frames)
    <3>1. HalfLinked(x, j + 1)
      <4>1. \A h \in DOMAIN classPath[x].interfaces : h < j + 1 => h < j \/ h = j
        BY <1>1
      <4>. QED
        BY <4>1, <1>1 DEF HalfLinked
    <3>2. frames'[k].clazz = x /\ frames'[k].ifIndex = j + 1
      BY <2>1, <1>2
    <3>. HIDE DEF x, j
    <3>. QED
      BY <2>1, <3>1, <3>2, <1>1 DEF HalfLinked, Loads!WasLinked, Loads!IsInterface, Loads!classVars
  <2>2. CASE k # Len(frames)
    <3>1. frames'[k] = frames[k]
      BY <2>2, <1>1, <1>2
    <3>. QED
      BY <3>1 DEF IInv, InterfaceLoops, HalfLinked, Loads!WasLinked, Loads!IsInterface, Loads!classVars
  <2>. QED
    BY <2>1, <2>2
<1>7. TopFrame'
  BY <1>1, <1>2 DEF TopFrame, Loads!classVars
<1>8. Loads!LinkedIsClosed'
  BY DEF IInv, Loads!LinkedIsClosed, Loads!Stands, Loads!WasLinked, Loads!IsInterface, Loads!classVars
<1>. QED
  BY <1>3, <1>4, <1>5, <1>6, <1>7, <1>8 DEF IInv

LEMMA LinkInterfaceInvariant ==
    ASSUME IInv, Loads!LinkInterface,
           UNCHANGED usedUnlinked
    PROVE  IInv'
<1>. DEFINE f == classPath[Loads!Top.clazz].interfaces[Loads!Top.ifIndex]
<1>1. /\ Loads!Runs /\ Loads!Top.ifIndex > 0
      /\ Loads!Top.ifIndex <= Len(classPath[Loads!Top.clazz].interfaces)
      /\ Loads!LinkInterfaceTo(f)
      /\ UNCHANGED <<classPath, Loads!classVars, loadedReflectively>>
  BY DEF Loads!LinkInterface
<1>2. /\ Typed /\ frames # << >> /\ exception = NULL /\ ~loadFatal
      /\ loadedBy[Loads!Top.initiating] = Len(frames)
      /\ f \in ClassName
  BY <1>1, LoopTyped
<1>3. loadStatus[f] \in Loads!Status /\ loadedReflectively' \in BOOLEAN /\ loadFatal = FALSE
  BY <1>1, <1>2 DEF Typed, Loads!TypeOK
<1>. HIDE DEF f
<1>4. CASE \/ exception' \in Loads!Exception /\ loadFatal' = FALSE /\ frames' = frames
           \/ exception' = NULL /\ loadFatal' = TRUE /\ frames' = frames
  BY <1>1, <1>2, <1>3, <1>4, OnlyRaised
<1>5. CASE Loads!Call(f) /\ loadStatus[f] = "RAW" /\ UNCHANGED <<exception, loadFatal>>
  BY <1>1, <1>2, <1>5, CallInterfaceInvariant
<1>6. CASE /\ loadStatus[f] = "LINKED" /\ Loads!IsInterface(f)
           /\ Loads!SetTop(Loads!Top.clazz, Loads!Top.ifIndex + 1) /\ UNCHANGED <<exception, loadFatal>>
  BY <1>1, <1>6, InterfaceLinkedInvariant DEF Loads!WasLinked, f
<1>7. CASE loadStatus[f] = "RAW"
  BY <1>1, <1>5, <1>7 DEF Loads!LinkInterfaceTo
<1>8. CASE loadStatus[f] = "LINKED"
  BY <1>1, <1>2, <1>3, <1>4, <1>6, <1>8 DEF Loads!LinkInterfaceTo, Loads!NextInterface, Loads!Raise, Loads!Exception
<1>9. CASE loadStatus[f] \in {"ERROR", "LOADED", "LOADING"}
  BY <1>1, <1>2, <1>3, <1>4, <1>9 DEF Loads!LinkInterfaceTo, Loads!Raise, Loads!Exception
<1>. QED
  BY <1>3, <1>7, <1>8, <1>9 DEF Loads!Status

LEMMA SetLinkedInvariant ==
    ASSUME IInv, Loads!SetLinked,
           UNCHANGED usedUnlinked
    PROVE  IInv'
<1>. DEFINE x == Loads!Top.clazz
            i == Loads!Top.initiating
<1>1. /\ Loads!Runs /\ Loads!Top.ifIndex > 0
      /\ Loads!Top.ifIndex > Len(classPath[x].interfaces)
      /\ instSize' = [instSize EXCEPT ![x] = @ + classPath[x].fields]
      /\ loadStatus' = [loadStatus EXCEPT ![x] = "LINKED"]
      /\ loadedBy' = [loadedBy EXCEPT ![x] = 0]
      /\ Loads!SetTop(x, 0)
      /\ UNCHANGED <<classPath, superClass, accessFlags, loadedReflectively,
                     exception, loadFatal>>
  BY DEF Loads!SetLinked
<1>2. /\ Typed /\ frames # << >> /\ exception = NULL /\ ~loadFatal
      /\ Len(frames) \in Nat /\ Len(frames) >= 1
      /\ i \in ClassName /\ loadedBy[i] = Len(frames)
      /\ x \in ClassName /\ loadedBy[x] = Len(frames)
      /\ HalfLinked(x, Loads!Top.ifIndex) /\ classPath[x].interfaces \in Seq(ClassName)
  BY <1>1, LoopTyped
<1>3. /\ frames' \in Seq(Loads!Frame) /\ frames' # << >> /\ Len(frames') = Len(frames)
      /\ \A k \in 1 .. Len(frames) : k < Len(frames) => frames'[k] = frames[k]
      /\ Loads!Top' = [initiating |-> i, clazz |-> x, ifIndex |-> 0]
      /\ Loads!Top' = frames'[Len(frames)]
  <2>1. 0 \in Nat /\ Loads!SetTop(x, 0)
    BY <1>1
  <2>. HIDE DEF x
  <2>. QED
    BY <1>2, <2>1, SetTopFrames
<1>4. loadStatus[x] = "LOADED" /\ superClass[x] = classPath[x].superClass
  BY <1>2 DEF IInv, OwnedAreLoaded
<1>5. /\ loadStatus' \in [ClassName -> Loads!Status] /\ instSize' \in [ClassName -> Nat]
      /\ loadedBy' \in [ClassName -> Nat]
      /\ loadStatus'[x] = "LINKED" /\ loadedBy'[x] = 0
      /\ instSize'[x] = instSize[x] + classPath[x].fields
      /\ \A d \in ClassName : d # x => /\ loadStatus'[d] = loadStatus[d]
                                   /\ instSize'[d] = instSize[d]
                                   /\ loadedBy'[d] = loadedBy[d]
  <2>1. classPath[x].fields \in Nat
    BY <1>2, FilesTyped
  <2>. HIDE DEF x
  <2>. QED
    BY <1>1, <1>2, <2>1 DEF Typed, Loads!TypeOK, Loads!Status
<1>6. Typed'
  BY <1>1, <1>2, <1>3, <1>5 DEF Typed, Loads!TypeOK
<1>. HIDE DEF x
<1>7. \A d \in ClassName : Loads!WasLinked(d) \/ loadStatus[d] = "LINKED" => d # x
  BY <1>4 DEF Loads!WasLinked
<1>8. \A d \in ClassName : Loads!WasLinked(d)' <=> (Loads!WasLinked(d) \/ d = x)
  BY <1>4, <1>5 DEF Loads!WasLinked
<1>9. OwnedAreLoaded'
  BY <1>1, <1>3, <1>5 DEF IInv, OwnedAreLoaded
<1>10. ChainsEndLinked'
  <2>. SUFFICES ASSUME NEW d \in ClassName, loadedBy'[d] # 0, superClass[d] # NULL
                PROVE  \/ loadStatus'[superClass[d]] = "LINKED"
                       \/ loadedBy'[superClass[d]] = loadedBy'[d]
    BY <1>1 DEF ChainsEndLinked
  <2>1. superClass[d] \in ClassName /\ d # x /\ loadedBy[d] = loadedBy'[d]
    BY <1>2, <1>5 DEF Typed, Loads!TypeOK
  <2>2. ~(superClass[d] = Loads!Top.clazz /\ loadStatus[superClass[d]] = "RAW")
    BY <1>4 DEF x
  <2>3. loadStatus[superClass[d]] = "LINKED" \/ loadedBy[superClass[d]] = loadedBy[d]
    BY <2>1, <2>2, <1>2 DEF IInv, ChainsEndLinked
  <2>. QED
    BY <2>1, <2>3, <1>5
<1>11. InterfaceLoops'
  <2>1. \A k \in 1 .. Len(frames') : frames'[k].ifIndex > 0 =>
          k \in 1 .. Len(frames) /\ frames'[k] = frames[k] /\ k # Len(frames)
    BY <1>2, <1>3
  <2>2. \A k \in 1 .. Len(frames) :
          k # Len(frames) /\ loadedBy[frames[k].clazz] = k => frames[k].clazz # x
    BY <1>2
  <2>. QED
    BY <2>1, <2>2, <1>1, <1>2, <1>3, <1>5, <1>7, <1>8, InterfaceLoopsKept DEF IInv
<1>12. LowerFrames'
  <2>. SUFFICES ASSUME NEW k \in 1 .. Len(frames), k < Len(frames)
                PROVE  loadedBy'[frames[k].initiating] = k /\ frames[k].ifIndex > 0
    BY <1>3 DEF LowerFrames
  <2>1. loadedBy[frames[k].initiating] = k /\ frames[k].ifIndex > 0
    BY DEF IInv, LowerFrames
  <2>2. frames[k].initiating \in ClassName /\ k # Len(frames)
    BY <1>2, FrameTyped
  <2>. QED
    BY <2>1, <2>2, <1>2, <1>5
<1>13. TopFrame'
  <2>1. CASE i = x
    BY <2>1, <1>1, <1>2, <1>3, <1>5 DEF TopFrame
  <2>2. CASE i # x
    BY <2>2, <1>2, <1>3, <1>5 DEF TopFrame
  <2>. QED
    BY <2>1, <2>2
<1>14. Loads!LinkedIsClosed'
  <2>. SUFFICES ASSUME NEW d \in ClassName \ usedUnlinked, Loads!WasLinked(d) \/ d = x
                PROVE  Loads!Stands(d)'
    BY <1>8 DEF Loads!LinkedIsClosed
  <2>1. CASE Loads!WasLinked(d)
    BY <2>1, <1>1, <1>2, <1>5, <1>7, <1>8, StandsKept DEF IInv, Loads!LinkedIsClosed
  <2>2. CASE d = x
    <3>. DEFINE s == superClass[x]
    <3>1. /\ s \in ClassName \cup {NULL} /\ s = classPath[x].superClass
          /\ IF s = NULL THEN x = JavaLangObject /\ instSize[x] = 0
             ELSE loadStatus[s] = "LINKED" /\ ~Loads!IsInterface(s) /\ instSize[x] = instSize[s]
      BY <1>2, <1>4 DEF Typed, Loads!TypeOK, HalfLinked, x
    <3>2. IF s = NULL THEN x = JavaLangObject /\ instSize'[x] = classPath[x].fields
          ELSE /\ loadStatus'[s] \in {"LINKED", "ERROR"} /\ ~Loads!IsInterface(s)
               /\ instSize'[x] = instSize'[s] + classPath[x].fields
      <4>1. classPath[x].fields \in Nat
        BY <1>2, FilesTyped DEF x
      <4>2. x \in ClassName
        BY <1>2 DEF x
      <4>3. CASE s = NULL
        BY <3>1, <4>1, <4>2, <4>3, <1>5
      <4>4. CASE s # NULL
        <5>1. s \in ClassName /\ s # x /\ Loads!WasLinked(s)
          BY <3>1, <4>4, <1>4 DEF Loads!WasLinked
        <5>2. loadStatus'[s] = "LINKED" /\ instSize'[s] = instSize[s]
          BY <5>1, <3>1, <4>4, <1>5
        <5>. QED
          BY <5>1, <5>2, <3>1, <4>1, <4>2, <4>4, <1>5
      <4>. QED
        BY <4>3, <4>4
    <3>3. \A k \in DOMAIN classPath[x].interfaces :
            /\ classPath[x].interfaces[k] \in ClassName
            /\ Loads!WasLinked(classPath[x].interfaces[k])
            /\ Loads!IsInterface(classPath[x].interfaces[k])
      <4>1. \A k \in DOMAIN classPath[x].interfaces : k < Loads!Top.ifIndex
        BY <1>1, <1>2, TopTyped DEF x
      <4>. QED
        BY <4>1, <1>2 DEF HalfLinked, x
    <3>4. \A k \in DOMAIN classPath[x].interfaces :
            loadStatus'[classPath[x].interfaces[k]] \in {"LINKED", "ERROR"}
      BY <3>3, <1>5, <1>7 DEF Loads!WasLinked
    <3>. QED
      BY <2>2, <3>1, <3>2, <3>3, <3>4, <1>1 DEF Loads!Stands, Loads!IsInterface, Loads!WasLinked
  <2>. QED
    BY <2>1, <2>2
<1>. QED
  BY <1>6, <1>9, <1>10, <1>11, <1>12, <1>13, <1>14 DEF IInv

-----------------------------------------------------------------------------
(***************************************************************************)
(* The end of an activation: the one below goes on at its interface.       *)
(***************************************************************************)
\* Classes and frames, but not what is thrown, once the activation of i has
\* ended; i has been reverted if it was not linked.
LEMMA PopInvariant ==
    ASSUME IInv, frames # << >>, Loads!Pop, NEW i \in ClassName, i = Loads!Top.initiating,
           UNCHANGED classPath,
           loadStatus' \in [ClassName -> Loads!Status], instSize' \in [ClassName -> Nat],
           superClass' \in [ClassName -> ClassName \cup {NULL}],
           loadedReflectively' \in BOOLEAN,
           exception' \in Loads!Exception \cup {NULL}, loadFatal' \in BOOLEAN,
           \A d \in ClassName : (d # i \/ Loads!WasLinked(d)) =>
              /\ loadStatus'[d] = loadStatus[d]
              /\ superClass'[d] = superClass[d] /\ instSize'[d] = instSize[d],
           Loads!WasLinked(i) \/ loadStatus'[i] = "RAW",
           UNCHANGED <<usedUnlinked, accessFlags>>
    PROVE  IInv'
<1>1. /\ Typed /\ Len(frames) \in Nat /\ Len(frames) >= 1 /\ Loads!Top = frames[Len(frames)]
  BY TopTyped DEF IInv
<1>2. /\ frames' \in Seq(Loads!Frame) /\ Len(frames') = Len(frames) - 1
      /\ \A k \in 1 .. Len(frames') : frames'[k] = frames[k]
      /\ frames' # << >> => Len(frames') >= 1 /\ Loads!Top' = frames[Len(frames')]
      /\ loadedBy' \in [ClassName -> Nat]
      /\ \A d \in ClassName :
           /\ loadedBy[d] = Len(frames) => loadedBy'[d] = 0
           /\ loadedBy[d] # Len(frames) => loadedBy'[d] = loadedBy[d]
  BY <1>1, PopFrames
<1>3. Typed'
  BY <1>1, <1>2 DEF Typed, Loads!TypeOK
\* A class an activation below has loaded is not the one reverted.
<1>4. ASSUME NEW d \in ClassName, loadedBy[d] # 0, loadedBy[d] # Len(frames)
      PROVE  d # i
  BY <1>1, <1>4 DEF IInv, TopFrame, OwnedAreLoaded
<1>5. \A d \in ClassName : loadedBy'[d] # 0 =>
        /\ loadedBy'[d] = loadedBy[d] /\ loadedBy[d] # Len(frames) /\ d # i
        /\ loadStatus'[d] = loadStatus[d]
        /\ superClass'[d] = superClass[d] /\ instSize'[d] = instSize[d]
  <2>. SUFFICES ASSUME NEW d \in ClassName, loadedBy'[d] # 0
                PROVE  loadedBy'[d] = loadedBy[d] /\ loadedBy[d] # Len(frames) /\ d # i
    OBVIOUS
  <2>1. loadedBy[d] # Len(frames) /\ loadedBy'[d] = loadedBy[d]
    BY <1>2
  <2>. QED
    BY <2>1, <1>4
<1>6. \A d \in ClassName : Loads!WasLinked(d) => Loads!WasLinked(d)'
  BY DEF Loads!WasLinked
<1>7. OwnedAreLoaded'
  <2>. SUFFICES ASSUME NEW d \in ClassName, loadedBy'[d] # 0
                PROVE  /\ loadedBy'[d] \in 1 .. Len(frames')
                       /\ loadStatus'[d] = "LOADED"
                       /\ superClass'[d] = classPath[d].superClass
    BY DEF OwnedAreLoaded
  <2>1. /\ loadedBy[d] \in 1 .. Len(frames) /\ loadStatus[d] = "LOADED"
        /\ superClass[d] = classPath[d].superClass
    BY <1>5 DEF IInv, OwnedAreLoaded
  <2>. QED
    BY <2>1, <1>1, <1>2, <1>5
<1>8. ChainsEndLinked'
  <2>. SUFFICES ASSUME NEW d \in ClassName, loadedBy'[d] # 0, superClass[d] # NULL
                PROVE  \/ loadStatus'[superClass[d]] = "LINKED"
                       \/ loadedBy'[superClass[d]] = loadedBy'[d]
    BY <1>5 DEF ChainsEndLinked
  <2>1. superClass[d] \in ClassName
    BY <1>1 DEF Typed, Loads!TypeOK
  <2>2. loadStatus[superClass[d]] = "LINKED" \/ loadedBy[superClass[d]] = loadedBy[d]
    BY <1>5 DEF IInv, ChainsEndLinked
  <2>3. CASE loadStatus[superClass[d]] = "LINKED"
    BY <2>1, <2>3 DEF Loads!WasLinked
  <2>4. CASE loadedBy[superClass[d]] = loadedBy[d]
    BY <2>1, <2>4, <1>2, <1>5
  <2>. QED
    BY <2>2, <2>3, <2>4
<1>9. InterfaceLoops'
  <2>1. \A d \in ClassName : loadStatus[d] = "LINKED" =>
          loadStatus'[d] = "LINKED" /\ instSize'[d] = instSize[d]
    BY DEF Loads!WasLinked
  <2>2. \A k \in 1 .. Len(frames') : k \in 1 .. Len(frames) /\ k # 0 /\ k # Len(frames)
    BY <1>1, <1>2
  <2>3. \A k \in 1 .. Len(frames') :
          LET x == frames[k].clazz IN
          x \in ClassName /\ loadedBy[x] = k =>
            loadedBy'[x] = k /\ superClass'[x] = superClass[x] /\ instSize'[x] = instSize[x]
    BY <2>2, <1>2, <1>5
  <2>4. Len(frames') \in Nat
    BY <1>1, <1>2
  <2>. QED
    BY <2>1, <2>2, <2>3, <2>4, <1>1, <1>2, <1>6, InterfaceLoopsKept DEF IInv
<1>10. \A k \in 1 .. Len(frames') :
         loadedBy'[frames'[k].initiating] = k /\ frames'[k].ifIndex > 0
  <2>. SUFFICES ASSUME NEW k \in 1 .. Len(frames')
                PROVE  loadedBy'[frames[k].initiating] = k /\ frames[k].ifIndex > 0
    BY <1>2
  <2>1. k \in 1 .. Len(frames) /\ k < Len(frames)
    BY <1>1, <1>2
  <2>2. loadedBy[frames[k].initiating] = k /\ frames[k].ifIndex > 0
    BY <2>1 DEF IInv, LowerFrames
  <2>3. frames[k].initiating \in ClassName
    BY <2>1, <1>1, FrameTyped
  <2>. QED
    BY <2>1, <2>2, <2>3, <1>2
<1>11. LowerFrames'
  BY <1>10 DEF LowerFrames
<1>12. TopFrame'
  <2>. SUFFICES ASSUME frames' # << >>
                PROVE  (loadedBy[Loads!Top.initiating] = Len(frames))'
    BY DEF TopFrame
  <2>1. Len(frames') \in 1 .. Len(frames') /\ Loads!Top' = frames'[Len(frames')]
    BY <1>1, <1>2
  <2>. QED
    BY <2>1, <1>10
<1>13. Loads!LinkedIsClosed'
  <2>. SUFFICES ASSUME NEW d \in ClassName \ usedUnlinked, Loads!WasLinked(d)' PROVE Loads!Stands(d)'
    BY DEF Loads!LinkedIsClosed
  <2>1. CASE Loads!WasLinked(d)
    BY <2>1, <1>1, <1>6, StandsKept DEF IInv, Loads!LinkedIsClosed
  <2>2. Loads!WasLinked(d)
    BY DEF Loads!WasLinked
  <2>. QED
    BY <2>1, <2>2
<1>. QED
  BY <1>3, <1>7, <1>8, <1>9, <1>11, <1>12, <1>13 DEF IInv

LEMMA ReturnInvariant ==
    ASSUME IInv, Loads!Return,
           UNCHANGED usedUnlinked
    PROVE  IInv'
<1>1. /\ frames # << >> /\ exception = NULL /\ ~loadFatal /\ Loads!Pop
      /\ UNCHANGED <<classPath, loadStatus, superClass, accessFlags, instSize,
                     loadedReflectively, exception, loadFatal>>
  BY DEF Loads!Return, Loads!Runs
<1>2. Loads!Top.initiating \in ClassName /\ Loads!WasLinked(Loads!Top.initiating)
  BY <1>1, TopTyped DEF IInv, Loads!Return, Loads!Unlinked, Loads!WasLinked
<1>3. Typed
  BY DEF IInv
<1>. QED
  BY <1>1, <1>2, <1>3, PopInvariant DEF Typed, Loads!TypeOK

LEMMA CaughtIsUnlinked ==
    ASSUME IInv, Loads!Catch
    PROVE  Loads!Top.initiating \in ClassName /\ ~Loads!WasLinked(Loads!Top.initiating)
<1>1. frames # << >> /\ exception # NULL /\ Typed
  BY DEF Loads!Catch, IInv
<1>2. Loads!Top.initiating \in ClassName /\ Len(frames) # 0
  BY <1>1, TopTyped
<1>. QED
  BY <1>1, <1>2 DEF IInv, TopFrame, OwnedAreLoaded, Loads!WasLinked

LEMMA CatchInvariant ==
    ASSUME IInv, Loads!Catch,
           UNCHANGED usedUnlinked
    PROVE  IInv'
<1>. DEFINE i == Loads!Top.initiating
<1>1. /\ frames # << >> /\ ~loadFatal /\ Loads!RevertToRawClass(i) /\ Loads!Pop
      /\ exception' = IF Len(frames) = 1 THEN NULL ELSE exception
      /\ UNCHANGED <<classPath, accessFlags, loadedReflectively, loadFatal>>
      /\ Typed /\ i \in ClassName
  BY CaughtIsUnlinked DEF Loads!Catch, IInv
<1>. HIDE DEF i
<1>2. /\ loadStatus' \in [ClassName -> Loads!Status] /\ instSize' \in [ClassName -> Nat]
      /\ superClass' \in [ClassName -> ClassName \cup {NULL}]
      /\ loadStatus'[i] = "RAW"
      /\ \A d \in ClassName : d # i => /\ loadStatus'[d] = loadStatus[d]
                                   /\ superClass'[d] = superClass[d]
                                   /\ instSize'[d] = instSize[d]
  BY <1>1 DEF Loads!RevertToRawClass, Typed, Loads!TypeOK, Loads!Status
<1>3. ~Loads!WasLinked(i)
  BY CaughtIsUnlinked DEF i
<1>4. \A d \in ClassName : (d # i \/ Loads!WasLinked(d)) => d # i
  BY <1>3
<1>5. /\ exception' \in Loads!Exception \cup {NULL} /\ loadFatal' \in BOOLEAN
      /\ loadedReflectively' \in BOOLEAN
  BY <1>1 DEF Typed, Loads!TypeOK
<1>6. i = Loads!Top.initiating
  BY DEF i
<1>. QED
  BY <1>1, <1>2, <1>4, <1>5, <1>6, PopInvariant

-----------------------------------------------------------------------------
LEMMA NextInvariant == IInv /\ [Loads!Next]_(Loads!vars) => IInv'
<1>. SUFFICES ASSUME IInv, [Loads!Next]_(Loads!vars) PROVE IInv'
  OBVIOUS
<1>1. CASE Loads!LoadRawClass /\ UNCHANGED usedUnlinked
  BY <1>1, LoadFailedInvariant, ReadInvariant DEF Loads!LoadRawClass
<1>2. CASE Loads!LinkSuperClass /\ UNCHANGED usedUnlinked
  BY <1>2, LinkSuperClassInvariant
<1>3. CASE Loads!LinkInterface /\ UNCHANGED usedUnlinked
  BY <1>3, LinkInterfaceInvariant
<1>4. CASE Loads!SetLinked /\ UNCHANGED usedUnlinked
  BY <1>4, SetLinkedInvariant
<1>5. CASE Loads!Return /\ UNCHANGED usedUnlinked
  BY <1>5, ReturnInvariant
<1>6. CASE Loads!Catch /\ UNCHANGED usedUnlinked
  BY <1>6, CatchInvariant
<1>7. CASE \E c \in ClassName : Loads!GetClass(c) \/ Loads!ForName(c) \/ Loads!InitializeClass(c)
  BY <1>7, GetClassInvariant, InitializeClassInvariant
<1>8. CASE UNCHANGED Loads!vars
  <2>. USE <1>8 DEF Loads!vars, Loads!classVars
  <2>1. Typed'
    BY DEF IInv, Typed, Loads!TypeOK
  <2>2. OwnedAreLoaded' /\ ChainsEndLinked' /\ LowerFrames' /\ TopFrame'
    BY DEF IInv, OwnedAreLoaded, ChainsEndLinked, LowerFrames, TopFrame, Loads!Top
  <2>3. InterfaceLoops' /\ Loads!LinkedIsClosed'
    BY DEF IInv, InterfaceLoops, Loads!LinkedIsClosed, Loads!Stands, Loads!WasLinked, Loads!IsInterface, HalfLinked
  <2>. QED
    BY <2>1, <2>2, <2>3 DEF IInv
<1>. QED
  BY <1>1, <1>2, <1>3, <1>4, <1>5, <1>6, <1>7, <1>8 DEF Loads!Next, Loads!LoadClassfile

\* A class that is linked has its superclass and interfaces linked, of the
\* right kind, and its fields behind those of the superclass: what the loops of
\* loadClassfile() and its CATCH keep, for every set of class files.
THEOREM LinkedClassesStand == Loads!Spec => []LinkedIsClosed
<1>1. IInv => LinkedIsClosed
  BY DEF IInv, LinkedIsClosed
<1>. QED
  BY LoadsAssumption, InitInvariant, NextInvariant, <1>1, PTL DEF Loads!Spec

\* Neither revertToRawClass() nor a second load takes a class from its objects.
THEOREM LinkedClassesStay == Loads!Spec => Loads!LinkedForever
<1>1. IInv /\ [Loads!Next]_(Loads!vars) =>
        [\A c \in ClassName : Loads!WasLinked(c) => Loads!WasLinked(c)']_(Loads!vars)
  <2>. SUFFICES ASSUME IInv, Loads!Next, NEW c \in ClassName, Loads!WasLinked(c)
                PROVE  Loads!WasLinked(c)'
    OBVIOUS
  <2>. Typed
    BY DEF IInv
  <2>1. CASE Loads!LoadRawClass
    BY <2>1, FilesAssumed
       DEF Loads!LoadRawClass, Loads!InLoadLoop, Loads!NotFound, Loads!RestrictedPackage, Loads!Unreadable, Loads!Read,
           Loads!WasLinked, Typed, Loads!TypeOK, Loads!classVars
  <2>2. CASE Loads!LinkSuperClass \/ Loads!Return
    BY <2>2 DEF Loads!LinkSuperClass, Loads!Return, Loads!WasLinked
  <2>3. CASE Loads!LinkInterface
    BY <2>3 DEF Loads!LinkInterface, Loads!WasLinked, Loads!classVars
  <2>4. CASE Loads!SetLinked
    BY <2>4 DEF Loads!SetLinked, Loads!WasLinked, Typed, Loads!TypeOK
  <2>5. CASE Loads!Catch
    BY <2>5, CaughtIsUnlinked DEF Loads!Catch, Loads!RevertToRawClass, Loads!WasLinked, Typed, Loads!TypeOK
  <2>6. CASE \E d \in ClassName : Loads!GetClass(d) \/ Loads!ForName(d) \/ Loads!InitializeClass(d)
    BY <2>6 DEF Loads!GetClass, Loads!ForName, Loads!InitializeClass, Loads!WasLinked, Typed, Loads!TypeOK, Loads!classVars
  <2>. QED
    BY <2>1, <2>2, <2>3, <2>4, <2>5, <2>6 DEF Loads!Next, Loads!LoadClassfile
<1>. QED
  BY LoadsAssumption, InitInvariant, NextInvariant, <1>1, PTL DEF Loads!Spec, Loads!LinkedForever
=============================================================================
