------------------------------ MODULE Toolchain -----------------------------
(***************************************************************************)
(* What happens to a method from javac to its execution: the preverifier   *)
(* computes stack maps (check_code.c), the verifier of the VM checks the   *)
(* code against them (verifier.c), the interpreter runs it (bytecodes.c)   *)
(* and the collector asks where its pointers are (stackmap.c).             *)
(*                                                                         *)
(* A method that skips the preverifier has any stack maps whatsoever: the  *)
(* verifier must not trust the tool.                                       *)
(***************************************************************************)
EXTENDS Preverifier, PointerMaps

vars == <<verifierVars, preverifierVars, runVars>>

Init == VerifierInit /\ PreverifierInit /\ InterpreterInit

Preverify == PreverifierNext /\ UNCHANGED runVars
Verify    == pre \in {"unused", "accepted"} /\ VerifierNext /\ UNCHANGED <<preverifierVars, runVars>>
Run       == InterpreterNext /\ UNCHANGED <<verifierVars, preverifierVars>>

Next == Preverify \/ Verify \/ Run

Spec == Init /\ [][Next]_vars

----------------------------------------------------------------------------
(* Properties *)

\* Three things only the verifier of the VM asks for: no object without a constructor
\* call on a backward branch, no call of this() or super() in a try block, and no
\* path of a constructor that forgets this before such a call.
BranchesBackWithNew ==
  \E f \in CurrentTarget(maps) : ~NoNewObjects(f) /\ \E t \in Targets(code[ip]) : t < ip

ConstructsInTryBlock ==
  /\ CallsConstructor(code[ip]) /\ Covering(ip) # {}
  /\ \E f \in CurrentTarget(maps) :
       f.stack[Len(f.stack) - Len(ArgumentWords(code[ip]))] = InitObject

Forgets(f, at) == f.needsInit /\ HasMap(maps, at) /\ ~TargetNeedsInit(MapAt(maps, at))

ForgetsThis ==
  \/ ~noControlFlow /\ Forgets(frame, ip)
  \/ \E f \in CurrentTarget(maps) : \E t \in Targets(code[ip]) : Forgets(f, t)

\* The verifier of the VM accepts what the preverifier has accepted, with the
\* stack maps it wrote: the two agree on what every bytecode does to locals and
\* stack, and one pass over the code sees no more than the data flow analysis.
MapsAccepted ==
  [][pre = "accepted" /\ status' = "error" =>
       ip < CodeLength /\ (BranchesBackWithNew \/ ConstructsInTryBlock \/ ForgetsThis)]_vars

============================================================================
