---------------------------- MODULE ClassLoading ----------------------------
(***************************************************************************)
(* The states of a class while it is loaded and linked: loadClassfile(),   *)
(* loadRawClass() and findSuperMostUnlinked() of VmCommon/src/loader.c,    *)
(* revertToRawClass() of class.c.                                          *)
(*                                                                         *)
(* loadClassfile() walks up the superclasses in a loop and calls itself    *)
(* for interfaces; no Java thread runs meanwhile.  An action is one turn   *)
(* of one of its loops, so that each place where it may throw is seen.     *)
(* What a class file says is chosen in the initial state; whether it can   *)
(* be read may differ from one attempt to the next (a missing file, a      *)
(* wrong format, no memory).                                               *)
(***************************************************************************)
EXTENDS Naturals, Sequences

CONSTANTS
    Class, NIL, JavaLangObject,
    ClassPaths      \* the sets of class files considered

\* What an attempt to read a class file comes to: the file is missing, its
\* package is restricted, it cannot be read up to the name of the superclass,
\* cannot be read to its end, or is read.
Outcome == {"missing", "restricted", "early", "late", "read"}

Flags == SUBSET {"PUBLIC", "INTERFACE", "FINAL"}

ClassFile ==
    [superClass : Class \cup {NIL},
     interfaces : Seq(Class),
     flags : Flags,
     package : STRING,
     fields : Nat,                       \* words of the instance fields
     outcomes : SUBSET Outcome]

Exception == {"ClassNotFoundException", "NoClassDefFoundError", "LinkageError"}

ClassPathsAssumption ==
    /\ NIL \notin Class \cup Exception
    /\ JavaLangObject \in Class
    /\ ClassPaths \subseteq [Class -> ClassFile]

VARIABLES
    classPath,              \* constant: the class files
    status, superClass, accessFlags, instSize,  \* fields of INSTANCE_CLASS
    loadedReflectively,     \* global of loader.c
    frames,                 \* the activations of loadClassfile(), top last
    exception,              \* what is thrown, or NIL
    fatal,                  \* has fatalVMError() been called?
    loadedBy,               \* history: the activation that has loaded a class
                            \* and has still to link it, or 0
    usedUnlinked            \* history: the classes initializeClass() was given
                            \* although they were not linked

classVars == <<status, superClass, accessFlags, instSize, loadedBy>>
vars == <<classPath, classVars, loadedReflectively, frames, exception, fatal,
          usedUnlinked>>

\* LINKED stands for VERIFIED and READY, too.
Status == {"RAW", "LOADING", "LOADED", "LINKED", "ERROR"}
Frame == [initiating : Class, clazz : Class \cup {NIL}, ifIndex : Nat]

Init ==
    /\ classPath \in ClassPaths
    /\ status = [c \in Class |-> "RAW"]
    /\ superClass = [c \in Class |-> NIL]
    /\ accessFlags = [c \in Class |-> {}]
    /\ instSize = [c \in Class |-> 0]
    /\ loadedReflectively = FALSE
    /\ frames = << >>
    /\ exception = NIL
    /\ fatal = FALSE
    /\ loadedBy = [c \in Class |-> 0]
    /\ usedUnlinked = {}

-----------------------------------------------------------------------------
(***************************************************************************)
(* Helpers.                                                                *)
(***************************************************************************)
Unlinked(c) == status[c] # "LINKED"      \* status < CLASS_LINKED

\* c and the classes above it up to the first that is linked.
Upwards(c) ==
    {d \in Class :
        \A S \in SUBSET Class :
            (/\ c \in S
             /\ \A x \in S : Unlinked(x) /\ superClass[x] # NIL => superClass[x] \in S)
            => d \in S}

\* The result of findSuperMostUnlinked(c): at most one.
SuperMostUnlinked(c) ==
    {d \in Upwards(c) :
        Unlinked(d) /\ (superClass[d] = NIL \/ ~Unlinked(superClass[d]))}

\* classHasAccessToClass(c, d)
HasAccess(c, d) ==
    \/ c = d
    \/ "PUBLIC" \in accessFlags[d]
    \/ classPath[c].package = classPath[d].package

IsInterface(c) == "INTERFACE" \in accessFlags[c]

Top == frames[Len(frames)]
SetTop(c, i) ==
    frames' = [frames EXCEPT ![Len(frames)] =
                  [initiating |-> Top.initiating, clazz |-> c, ifIndex |-> i]]

\* loadClassfile(c, TRUE)
Call(c) == frames' = Append(frames, [initiating |-> c, clazz |-> c, ifIndex |-> 0])

Pop ==
    /\ frames' = SubSeq(frames, 1, Len(frames) - 1)
    /\ loadedBy' = [c \in Class |-> IF loadedBy[c] = Len(frames) THEN 0 ELSE loadedBy[c]]

Idle == frames = << >> /\ ~fatal
Runs == frames # << >> /\ exception = NIL /\ ~fatal

\* In the first loop, and between two turns of the second.
InLoadLoop == Top.clazz # NIL /\ status[Top.clazz] = "RAW"
InLinkLoop == ~InLoadLoop /\ Top.ifIndex = 0

Raise(e) == exception' = e /\ UNCHANGED fatal

-----------------------------------------------------------------------------
(***************************************************************************)
(* Who loads classes: getClass() and its like, Class.forName().  They take *)
(* a class that is not RAW for loaded, and initializeClass() verifies it,  *)
(* whether loadClassfile() has ever linked it or not.                      *)
(***************************************************************************)
GetClass(c) ==
    /\ Idle /\ status[c] = "RAW"
    /\ Call(c)
    /\ UNCHANGED <<classPath, classVars, loadedReflectively, exception, fatal,
                   usedUnlinked>>

ForName(c) ==
    /\ Idle /\ status[c] = "RAW"
    /\ loadedReflectively' = TRUE
    /\ Call(c)
    /\ UNCHANGED <<classPath, classVars, exception, fatal, usedUnlinked>>

\* Verification or the initializer may fail.
InitializeClass(c) ==
    /\ Idle /\ status[c] \in {"LOADING", "LOADED", "LINKED"}
    /\ \E s \in {"LINKED", "ERROR"} : status' = [status EXCEPT ![c] = s]
    /\ usedUnlinked' = IF status[c] = "LINKED" THEN usedUnlinked
                                              ELSE usedUnlinked \cup {c}
    /\ UNCHANGED <<classPath, superClass, accessFlags, instSize, loadedBy,
                   loadedReflectively, frames, exception, fatal>>

-----------------------------------------------------------------------------
(***************************************************************************)
(* The loop that loads a class and its raw superclasses.                   *)
(***************************************************************************)
NotFound(c) ==
    /\ "missing" \in classPath[c].outcomes
    /\ Raise(IF loadedReflectively THEN "ClassNotFoundException"
                                   ELSE "NoClassDefFoundError")
    /\ loadedReflectively' = FALSE
    /\ UNCHANGED <<classVars, frames>>

LoadClassInfo(c) ==
    /\ superClass' = [superClass EXCEPT ![c] = classPath[c].superClass]
    /\ accessFlags' = [accessFlags EXCEPT ![c] = classPath[c].flags]

RestrictedPackage(c) ==
    /\ "restricted" \in classPath[c].outcomes
    /\ Raise("NoClassDefFoundError")
    /\ status' = [status EXCEPT ![c] = "LOADING"]
    /\ UNCHANGED <<superClass, accessFlags, instSize, loadedBy,
                   loadedReflectively, frames>>

Unreadable(c) ==
    /\ \/ "early" \in classPath[c].outcomes /\ UNCHANGED <<superClass, accessFlags>>
       \/ "late" \in classPath[c].outcomes /\ LoadClassInfo(c)
    /\ Raise("LinkageError")
    /\ status' = [status EXCEPT ![c] = "LOADING"]
    /\ loadedReflectively' = FALSE
    /\ UNCHANGED <<instSize, loadedBy, frames>>

\* The superclass, once found, failed earlier, or is being loaded (by this
\* activation or one below): ClassCircularityError.
SuperRejected(s) == s # NIL /\ status'[s] \in {"ERROR", "LOADED"}

Read(c) ==
    LET s == classPath[c].superClass IN
    /\ "read" \in classPath[c].outcomes
    /\ status' = [status EXCEPT ![c] = "LOADED"]
    /\ LoadClassInfo(c)
    /\ loadedBy' = [loadedBy EXCEPT ![c] = Len(frames)]
    /\ loadedReflectively' = FALSE
    /\ SetTop(s, 0)
    /\ fatal' = (s # NIL /\ status'[s] = "LOADING")
    /\ exception' = IF SuperRejected(s)
                    THEN IF status'[s] = "ERROR" THEN "NoClassDefFoundError"
                                                 ELSE "LinkageError"
                    ELSE NIL
    /\ UNCHANGED instSize

LoadRawClass ==
    /\ Runs /\ InLoadLoop
    /\ \/ NotFound(Top.clazz) \/ RestrictedPackage(Top.clazz)
       \/ Unreadable(Top.clazz) \/ Read(Top.clazz)
    /\ UNCHANGED classPath

-----------------------------------------------------------------------------
(***************************************************************************)
(* The loop that links the class and its unlinked superclasses.            *)
(***************************************************************************)
\* Four kinds of LinkageError.
BadSuperClass(c) ==
    LET s == superClass[c] IN
    IF s = NIL THEN c # JavaLangObject
    ELSE \/ accessFlags[s] \cap {"INTERFACE", "FINAL"} # {}
         \/ ~HasAccess(c, s)
         \/ s # JavaLangObject /\ IsInterface(c)

LinkSuperClass ==
    /\ Runs /\ InLinkLoop
    /\ \E c \in SuperMostUnlinked(Top.initiating) :
         IF BadSuperClass(c)
         THEN SetTop(c, 0) /\ Raise("LinkageError") /\ UNCHANGED instSize
         ELSE /\ SetTop(c, 1)
              /\ instSize' = [instSize EXCEPT
                   ![c] = IF superClass[c] = NIL THEN 0 ELSE instSize[superClass[c]]]
              /\ UNCHANGED <<exception, fatal>>
    /\ UNCHANGED <<classPath, status, superClass, accessFlags, loadedBy,
                   loadedReflectively>>

\* Bug: the index is not incremented for an interface that is linked.
SameInterface(i) ==
    IF IsInterface(i) /\ HasAccess(Top.clazz, i)
    THEN SetTop(Top.clazz, Top.ifIndex) /\ UNCHANGED <<exception, fatal>>
    ELSE Raise("LinkageError") /\ UNCHANGED frames

NextInterface(i) ==
    IF IsInterface(i) /\ HasAccess(Top.clazz, i)
    THEN SetTop(Top.clazz, Top.ifIndex + 1) /\ UNCHANGED <<exception, fatal>>
    ELSE Raise("LinkageError") /\ UNCHANGED frames

\* Bug: an interface that is being loaded passes for one that is linked.
InterfaceUnchecked(i) ==
    CASE status[i] = "ERROR"   -> Raise("NoClassDefFoundError") /\ UNCHANGED frames
      [] status[i] = "RAW"     -> Call(i) /\ UNCHANGED <<exception, fatal>>
      [] status[i] = "LOADING" -> fatal' = TRUE /\ UNCHANGED <<exception, frames>>
      [] OTHER                 -> NextInterface(i)

\* An interface is linked already, or loaded by a call of loadClassfile(),
\* or cannot be used.
LinkInterfaceTo(i) ==
    CASE status[i] = "ERROR"   -> Raise("NoClassDefFoundError") /\ UNCHANGED frames
      [] status[i] = "LOADED"  -> Raise("LinkageError") /\ UNCHANGED frames
      [] status[i] = "RAW"     -> Call(i) /\ UNCHANGED <<exception, fatal>>
      [] status[i] = "LOADING" -> fatal' = TRUE /\ UNCHANGED <<exception, frames>>
      [] OTHER                 -> NextInterface(i)

LinkInterface ==
    /\ Runs /\ Top.ifIndex > 0
    /\ Top.ifIndex <= Len(classPath[Top.clazz].interfaces)
    /\ LinkInterfaceTo(classPath[Top.clazz].interfaces[Top.ifIndex])
    /\ UNCHANGED <<classPath, classVars, loadedReflectively>>

SetLinked ==
    /\ Runs /\ Top.ifIndex > 0
    /\ Top.ifIndex > Len(classPath[Top.clazz].interfaces)
    /\ instSize' = [instSize EXCEPT ![Top.clazz] = @ + classPath[Top.clazz].fields]
    /\ status' = [status EXCEPT ![Top.clazz] = "LINKED"]
    /\ loadedBy' = [loadedBy EXCEPT ![Top.clazz] = 0]
    /\ SetTop(Top.clazz, 0)
    /\ UNCHANGED <<classPath, superClass, accessFlags, loadedReflectively, exception,
                   fatal>>

\* findSuperMostUnlinked() finds nothing more.
Return ==
    /\ Runs /\ InLinkLoop /\ ~Unlinked(Top.initiating)
    /\ Pop
    /\ UNCHANGED <<classPath, status, superClass, accessFlags, instSize,
                   loadedReflectively, exception, fatal>>

-----------------------------------------------------------------------------
(***************************************************************************)
(* CATCH: the loop over the superclasses of InitiatingClass reverts the    *)
(* first and ends, since revertToRawClass() has set its superClass to NULL.*)
(***************************************************************************)
RevertToRawClass(c) ==
    /\ status' = [status EXCEPT ![c] = "RAW"]
    /\ superClass' = [superClass EXCEPT ![c] = NIL]
    /\ instSize' = [instSize EXCEPT ![c] = 0]

Catch ==
    /\ frames # << >> /\ exception # NIL /\ ~fatal
    /\ RevertToRawClass(Top.initiating)
    /\ Pop
    /\ exception' = IF Len(frames) = 1 THEN NIL ELSE exception
    /\ UNCHANGED <<classPath, accessFlags, loadedReflectively, fatal>>

-----------------------------------------------------------------------------
LoadClassfile ==
    /\ \/ LoadRawClass \/ LinkSuperClass \/ LinkInterface \/ SetLinked \/ Return
       \/ Catch
    /\ UNCHANGED usedUnlinked

Next ==
    \/ LoadClassfile
    \/ \E c \in Class : GetClass(c) \/ ForName(c) \/ InitializeClass(c)

Spec == Init /\ [][Next]_vars

\* loadClassfile() runs to its end before anything else does.
FairSpec == Spec /\ WF_vars(LoadClassfile)

-----------------------------------------------------------------------------
TypeOK ==
    /\ classPath \in ClassPaths
    /\ status \in [Class -> Status]
    /\ superClass \in [Class -> Class \cup {NIL}]
    /\ accessFlags \in [Class -> Flags]
    /\ instSize \in [Class -> Nat]
    /\ loadedReflectively \in BOOLEAN
    /\ frames \in Seq(Frame)
    /\ exception \in Exception \cup {NIL}
    /\ fatal \in BOOLEAN
    /\ loadedBy \in [Class -> Nat]
    /\ usedUnlinked \in SUBSET Class

WasLinked(c) == status[c] \in {"LINKED", "ERROR"}

\* A class that loadClassfile() has linked stands on linked classes: its
\* superclass and interfaces are linked and of the right kind, and its fields
\* begin where those of the superclass end.  Whatever has failed, was circular
\* or was tried again.
Stands(c) ==
    LET s == superClass[c] IN
    /\ s = classPath[c].superClass
    /\ IF s = NIL THEN c = JavaLangObject /\ instSize[c] = classPath[c].fields
       ELSE /\ WasLinked(s) /\ ~IsInterface(s)
            /\ instSize[c] = instSize[s] + classPath[c].fields
    /\ \A k \in DOMAIN classPath[c].interfaces :
         LET i == classPath[c].interfaces[k] IN WasLinked(i) /\ IsInterface(i)

LinkedIsClosed == \A c \in Class \ usedUnlinked : WasLinked(c) => Stands(c)

\* A class that is linked is never loaded anew: objects and frames refer to it.
LinkedForever ==
    [][\A c \in Class : WasLinked(c) => WasLinked(c)']_vars

\* Every load ends, with the class or an exception, however the superclasses
\* and interfaces refer to each other; or fatalVMError() has ended the VM.
LoadsEnd == frames # << >> ~> (frames = << >> \/ fatal)

\* loader.c: "Errors occuring during classfile loading are "transient" errors.
\* That is, their cause is temporal in nature and may not occur if a different
\* classfile is submitted at a later point."  When a load has failed, no class
\* is left half loaded.
NothingLeftBehind ==
    frames = << >> => \A c \in Class : status[c] \notin {"LOADING", "LOADED"}
=============================================================================
