----------------------------- MODULE ClassFiles -----------------------------
(***************************************************************************)
(* ClassLoading beside the modules that have threads and class objects:    *)
(* the classes of the class path by their names, and the fields of         *)
(* INSTANCE_CLASS that loading has to itself.                              *)
(***************************************************************************)
EXTENDS Naturals, Sequences

CONSTANTS ClassName, NULL, JavaLangObject, ClassPaths

VARIABLES
    classPath, loadStatus, superClass, accessFlags, instSize,
    loadedReflectively, frames, exception, loadFatal, loadedBy, usedUnlinked

loadVars == <<classPath, loadStatus, superClass, accessFlags, instSize,
              loadedReflectively, frames, exception, loadFatal, loadedBy, usedUnlinked>>

Loads == INSTANCE ClassLoading WITH
    Class <- ClassName, NIL <- NULL, status <- loadStatus, fatal <- loadFatal

ASSUME LoadsAssumption == Loads!ClassPathsAssumption

\* A class that loadClassfile() has linked stands on linked classes of the right
\* kind, whatever has failed in between.
LinkedIsClosed == Loads!LinkedIsClosed

\* loadClassfile() comes to an end, also where class files name each other in a
\* circle.
LoadsEnd == Loads!LoadsEnd

\* A load that fails leaves no class in an intermediate state.
NothingLeftBehind == Loads!NothingLeftBehind
=============================================================================
