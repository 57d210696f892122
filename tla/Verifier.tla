----------------------------- MODULE Verifier ------------------------------
(***************************************************************************)
(* The class file verifier of the runtime (verifier.c, verifierUtil.c). It *)
(* passes once over the code of a method, derives the types of locals and  *)
(* stack in front of every instruction, and compares them with the stack   *)
(* maps of the preverifier wherever control flow joins.                    *)
(*                                                                         *)
(* The method is chosen as the verifier reads it: an instruction when ip   *)
(* reaches it, the types of a stack map when they are first looked up.     *)
(* This gives every method over a set of instructions, and no work for     *)
(* what lies behind a rejected instruction.                                *)
(*                                                                         *)
(* An operator that may call Vfy_throw() returns the set of frames it can  *)
(* lead to: one frame, or none if it throws.                               *)
(***************************************************************************)
EXTENDS VerifierTypes, FiniteSets, SequencesExt

CONSTANT Inputs    \* methods to verify, up to their code and stack maps

VARIABLES input,          \* the member of Inputs being verified
          status,         \* of verifyClass(): "loaded", "verifying", "verified", "error"
          code,           \* [0..CodeLength-1 -> instruction or NoCode]
          maps,           \* verifierMap: a sequence of [ip, frame]
          ip,
          frame,          \* vLocals, vStack and vNeedInitialization
          noControlFlow,
          currentStackMapIndex,
          derived         \* the frame in front of each instruction read so far

verifierVars == <<input, status, code, maps, ip, frame, noControlFlow,
                  currentStackMapIndex, derived>>

NoCode  == [op |-> "none"]       \* not read yet, or inside an instruction
Unknown == [unknown |-> TRUE]    \* the types of a stack map nobody looked up yet
method  == input.method
CodeLength == method.codeLength
FrameSize  == method.frameSize    \* number of locals
MaxStack   == method.maxStack

\* Instructions with operands take more than one byte, as a rule.
Width(i) == IF i.op \in {"if", "goto", "switch", "field", "invoke", "new"} THEN 2 ELSE 1

----------------------------------------------------------------------------
(* Locals and stack *)

Pop(f, ts) ==
  LET n == Len(f.stack) - Len(ts)
  IN  IF n >= 0 /\ \A k \in DOMAIN ts : VIsAssignable(f.stack[n + k], ts[k])
      THEN {[f EXCEPT !.stack = SubSeq(@, 1, n)]} ELSE {}

Push(f, ts) ==
  IF Len(f.stack) + Len(ts) <= MaxStack THEN {[f EXCEPT !.stack = @ \o ts]} ELSE {}

Replace(f, ins, outs) == UNION {Push(g, outs) : g \in Pop(f, ins)}

GetLocal(f, index, t) == index < FrameSize /\ VIsAssignable(f.locals[index + 1], t)

\* Overwriting one half of a long invalidates the other.
SetLocal(f, index, t) ==
  LET old == IF index < FrameSize THEN f.locals[index + 1] ELSE Bogus
      other == IF old = Long2 THEN index ELSE index + 2
  IN  IF \/ index >= FrameSize
         \/ old = Long2 /\ index < 1
         \/ old = Long /\ index >= FrameSize - 1
      THEN {}
      ELSE LET cleared == IF old \in {Long, Long2}
                          THEN [f.locals EXCEPT ![other] = Bogus] ELSE f.locals
           IN  {[f EXCEPT !.locals = [cleared EXCEPT ![index + 1] = t]]}

\* Vfy_popCategory1() accepts one-word types; Vfy_popCategory2_*Word() any two
\* words but the second half of a long with something else above it.
IsCategory1(t) == t \notin {Bogus, Long, Long2}

PopCategories(f, cats) ==
  LET n == Len(f.stack) - FoldLeft(LAMBDA a, b : a + b, 0, cats)
      at[k \in 1..Len(cats)] == IF k = 1 THEN n + 1 ELSE at[k - 1] + cats[k - 1]
  IN  n >= 0 /\ \A k \in DOMAIN cats :
        IF cats[k] = 1 THEN IsCategory1(f.stack[at[k]]) ELSE f.stack[at[k]] # Long2

\* Mutant: only the stack learns that the object is initialized.
ReplaceOnStack(f, from, to) ==
  [f EXCEPT !.stack = [k \in DOMAIN @ |-> IF @[k] = from THEN to ELSE @[k]]]

ReplaceTypeWithType(f, from, to) ==
  LET Changed(t) == IF t = from THEN to ELSE t
  IN  [f EXCEPT !.stack  = [k \in DOMAIN f.stack |-> Changed(f.stack[k])],
                !.locals = [k \in DOMAIN f.locals |-> Changed(f.locals[k])]]

\* this and the arguments, as the caller leaves them in the first locals
ArgumentRegisters(m) ==
  LET this == IF m.static THEN <<>>
              ELSE IF m.init THEN <<InitObject>> ELSE <<Ref(m.class, 0)>>
  IN  this \o FlattenSeq([k \in DOMAIN m.args |-> Words(m.args[k])])

\* Vfy_initializeLocals()
InitialFrame(m) ==
  LET args == ArgumentRegisters(m)
  IN  [locals |-> [k \in 1..FrameSize |-> IF k <= Len(args) THEN args[k] ELSE Bogus],
       stack  |-> <<>>,
       needsInit |-> ~m.static /\ m.init]

----------------------------------------------------------------------------
(* Stack maps *)

HasMap(ms, at) == \E k \in DOMAIN ms : ms[k].ip = at
MapAt(ms, at)  == ms[CHOOSE k \in DOMAIN ms :
                       ms[k].ip = at /\ \A j \in 1..(k - 1) : ms[j].ip # at].frame

TargetNeedsInit(m) == InitObject \in Range(m.locals) \cup Range(m.stack)

\* matchStackMap() with SM_CHECK.
Matches(f, m) ==
  /\ \A k \in DOMAIN m.locals : VIsAssignable(f.locals[k], m.locals[k])
  /\ Len(f.stack) = Len(m.stack)
  /\ \A k \in DOMAIN m.stack : VIsAssignable(f.stack[k], m.stack[k])
  /\ method.init /\ f.needsInit => TargetNeedsInit(m)

\* matchStackMap() with SM_MERGE; the types are compared only with SM_CHECK.
MergedWith(f, m, check) ==
  LET Merge(from, to) == IF check THEN Merged(from, to) ELSE to
  IN  [locals |-> [k \in 1..FrameSize |->
                     IF k <= Len(m.locals) THEN Merge(f.locals[k], m.locals[k]) ELSE Bogus],
       stack  |-> [k \in DOMAIN m.stack |-> IF check THEN Merge(f.stack[k], m.stack[k])
                                                     ELSE m.stack[k]],
       needsInit |-> IF method.init THEN TargetNeedsInit(m) ELSE f.needsInit]

\* Vfy_checkCurrentTarget()
CurrentTarget(ms) ==
  IF ~HasMap(ms, ip) THEN IF noControlFlow THEN {} ELSE {frame}
  ELSE IF noControlFlow \/ Matches(frame, MapAt(ms, ip))
       THEN {MergedWith(frame, MapAt(ms, ip), ~noControlFlow)} ELSE {}

\* checkNewObject(): no uninitialized objects on backward branches.
NoNewObjects(f) == \A t \in Range(f.locals) \cup Range(f.stack) : ~IsNew(t)

\* Vfy_checkJumpTarget()
JumpMatches(ms, f, target) ==
  /\ HasMap(ms, target) /\ Matches(f, MapAt(ms, target))
  /\ target < ip => NoNewObjects(f)

Covering(at) == {k \in DOMAIN input.handlers :
                   input.handlers[k].start <= at /\ at < input.handlers[k].end}

\* Vfy_checkHandlerTarget(): the locals as they are, the exception on the stack.
HandlersMatch(ms, f) ==
  \A k \in Covering(ip) :
    LET h == input.handlers[k]
    IN  /\ HasMap(ms, h.pc)
        /\ \E g \in Push([f EXCEPT !.stack = <<>>], <<h.type>>) : Matches(g, MapAt(ms, h.pc))

\* No handler may start or end inside an instruction.
HandlersSplit(next) ==
  \A k \in DOMAIN input.handlers :
    LET h == input.handlers[k]
    IN  ~(h.start > ip /\ h.start < next) /\ ~(h.end > ip /\ h.end < next)

----------------------------------------------------------------------------
(***************************************************************************)
(* One operator for each family of instructions.  float and double behave  *)
(* as int and long do here.                                                *)
(***************************************************************************)
CheckConstant(f, i) == Push(f, Words(i.type))

CheckLoad(f, i) ==
  LET ws == Words(i.type)
  IN  IF \A k \in DOMAIN ws : GetLocal(f, i.index + k - 1, ws[k])
      THEN Push(f, IF i.type = Reference THEN <<f.locals[i.index + 1]>> ELSE ws)
      ELSE {}

CheckStore(f, i) ==
  LET ws == Words(i.type)
  IN  UNION {IF i.type = Long
             THEN UNION {SetLocal(h, i.index, Long) : h \in SetLocal(g, i.index + 1, Long2)}
             ELSE SetLocal(g, i.index, IF i.type = Reference THEN Last(f.stack) ELSE i.type)
             : g \in Pop(f, ws)}

CheckArrayLoad(f, i) ==
  IF i.type \in {Integer, Long}
  THEN Replace(f, <<IF i.type = Long THEN LongArray ELSE IntArray, Integer>>, Words(i.type))
  ELSE UNION {LET a == f.stack[Len(f.stack) - 1]
              IN  IF VIsAssignable(a, ArrayOf(ObjectType)) THEN Push(g, <<ElementType(a)>>) ELSE {}
              : g \in Pop(f, <<ObjectType, Integer>>)}

\* AASTORE leaves a store of a non-array into an array of non-arrays to the interpreter.
CheckArrayStore(f, i) ==
  IF i.type \in {Integer, Long}
  THEN Pop(f, <<IF i.type = Long THEN LongArray ELSE IntArray, Integer>> \o Words(i.type))
  ELSE {g \in Pop(f, <<ArrayOf(ObjectType), Integer, ObjectType>>) :
          LET value   == Last(f.stack)
              element == ElementType(f.stack[Len(f.stack) - 2])
          IN  \/ ~IsArray(element) /\ ~IsArray(value)
              \/ VIsAssignable(value, element)}

\* POP, DUP and the like: what they take, and in which order they put it back.
Shuffles ==
  [pop     |-> [cats |-> <<1>>,    out |-> <<>>],
   pop2    |-> [cats |-> <<2>>,    out |-> <<>>],
   dup     |-> [cats |-> <<1>>,    out |-> <<1, 1>>],
   dup_x1  |-> [cats |-> <<1, 1>>, out |-> <<2, 1, 2>>],
   dup_x2  |-> [cats |-> <<2, 1>>, out |-> <<3, 1, 2, 3>>],
   dup2    |-> [cats |-> <<2>>,    out |-> <<1, 2, 1, 2>>],
   dup2_x1 |-> [cats |-> <<1, 2>>, out |-> <<2, 3, 1, 2, 3>>],
   dup2_x2 |-> [cats |-> <<2, 2>>, out |-> <<3, 4, 1, 2, 3, 4>>],
   swap    |-> [cats |-> <<1, 1>>, out |-> <<2, 1>>]]

CheckShuffle(f, i) ==
  LET s == Shuffles[i.name]
      taken == FoldLeft(LAMBDA a, b : a + b, 0, s.cats)
      n == Len(f.stack) - taken
  IN  IF PopCategories(f, s.cats)
      THEN Push([f EXCEPT !.stack = SubSeq(@, 1, n)],
                [k \in DOMAIN s.out |-> f.stack[n + s.out[k]]])
      ELSE {}

\* Arithmetic, shifts, conversions and comparisons differ in what they pop and push.
CheckArithmetic(f, i) == Replace(f, i.ins, i.outs)

CheckIncrement(f, i) ==
  IF GetLocal(f, i.index, Integer) THEN SetLocal(f, i.index, Integer) ELSE {}

\* IF*, GOTO and the switches; their targets are checked by VerifyInstruction.
CheckBranch(f, i) == Pop(f, i.ins)

\* Mutant: a constructor may return before it called another one.
CheckReturnUninitialized(f, i) ==
  IF i.type = Void THEN IF method.ret = Void THEN {f} ELSE {}
  ELSE {g \in Pop(f, IF IsRef(i.type) THEN <<ObjectType>> ELSE Words(i.type)) :
          method.ret # Void /\ VIsAssignable(f.stack[Len(g.stack) + 1], Words(method.ret)[1])}

CheckReturn(f, i) ==
  IF i.type = Void
  THEN IF method.ret = Void /\ ~(method.init /\ f.needsInit) THEN {f} ELSE {}
  ELSE {g \in Pop(f, IF IsRef(i.type) THEN <<ObjectType>> ELSE Words(i.type)) :
          method.ret # Void /\ VIsAssignable(f.stack[Len(g.stack) + 1], Words(method.ret)[1])}

\* vIsProtectedAccess(): a protected member inherited from another package.
IsProtectedAccess(i) == i.protected /\ i.class \in SuperClasses[method.class]

AccessedThrough(i) == Ref(IF IsProtectedAccess(i) THEN method.class ELSE i.class, 0)

\* The second edition of the JVM allows a constructor to set fields of its own first.
CheckField(f, i) ==
  LET ws == Words(i.type)
  IN  CASE i.kind = "getstatic" -> Push(f, ws)
        [] i.kind = "putstatic" -> Pop(f, ws)
        [] i.kind = "getfield"  -> Replace(f, <<AccessedThrough(i)>>, ws)
        [] i.kind = "putfield"  ->
             UNION {LET object == IF g.stack = <<>> THEN Bogus ELSE Last(g.stack)
                    IN  IF object = InitObject
                        THEN IF i.declared THEN {[g EXCEPT !.stack = Front(@)]} ELSE {}
                        ELSE IF IsCategory1(object) THEN Pop(g, <<AccessedThrough(i)>>) ELSE {}
                    : g \in Pop(f, ws)}

\* INVOKESPECIAL of a constructor, on what NEW left or on this.
CheckConstructorCall(g, i) ==
  LET receiver == IF g.stack = <<>> THEN Bogus ELSE Last(g.stack)
      popped   == [g EXCEPT !.stack = IF @ = <<>> THEN @ ELSE Front(@)]
  IN  CASE IsNew(receiver) ->
             IF /\ receiver[2] < CodeLength /\ code[receiver[2]].op = "new"
                /\ code[receiver[2]].class = i.class
             THEN {ReplaceTypeWithType(popped, receiver, Ref(i.class, 0))} ELSE {}
        [] receiver = InitObject ->
             IF /\ i.class \in {method.class, SuperClass[method.class]}
                /\ g.needsInit
                /\ Covering(ip) = {}
             THEN {[ReplaceTypeWithType(popped, InitObject, Ref(method.class, 0))
                      EXCEPT !.needsInit = FALSE]} ELSE {}
        [] OTHER -> {}

ArgumentWords(i) == FlattenSeq([k \in DOMAIN i.args |-> Words(i.args[k])])
ResultWords(i)   == IF i.ret = Void THEN <<>> ELSE Words(i.ret)

CheckInvoke(f, i) ==
  LET Receiver(g) ==
        IF i.kind = "static" THEN {g}
        ELSE IF i.name = "init" THEN CheckConstructorCall(g, i)
        ELSE IF i.kind = "special" /\ i.class \notin SuperClasses[method.class] THEN {}
        ELSE Pop(g, <<IF i.kind = "interface" THEN Ref(i.class, 0) ELSE AccessedThrough(i)>>)
  IN  IF \/ i.name = "init" /\ i.kind # "special"
         \/ i.kind = "interface" /\ i.count # Len(ArgumentWords(i)) + 1
      THEN {}
      ELSE UNION {UNION {Push(h, ResultWords(i)) : h \in Receiver(g)}
                  : g \in Pop(f, ArgumentWords(i))}

CheckNew(f, i) == Push(f, <<NewAt(ip)>>)

\* NEWARRAY, ANEWARRAY and MULTIANEWARRAY make an array type from i.dims lengths.
CheckNewArray(f, i) ==
  IF i.dims = 0 \/ i.type[3] < i.dims THEN {}
  ELSE Replace(f, [k \in 1..i.dims |-> Integer], <<i.type>>)

\* Mutant: any object will do.
CheckArrayLengthOfObject(f, i) == Replace(f, <<ObjectType>>, <<Integer>>)

CheckArrayLength(f, i) ==
  UNION {IF IsArray(Last(f.stack)) \/ Last(f.stack) = Null THEN Push(g, <<Integer>>) ELSE {}
         : g \in Pop(f, <<ObjectType>>)}

\* CHECKCAST and INSTANCEOF
CheckCast(f, i) == Replace(f, <<ObjectType>>, IF i.op = "cast" THEN <<i.type>> ELSE <<Integer>>)

\* MONITORENTER and MONITOREXIT
CheckMonitor(f, i) == Pop(f, <<ObjectType>>)

CheckThrow(f, i) == Pop(f, <<ThrowableType>>)

\* The switch of the main loop.
Effect(f, i) ==
  CASE i.op = "const"      -> CheckConstant(f, i)
    [] i.op = "load"       -> CheckLoad(f, i)
    [] i.op = "store"      -> CheckStore(f, i)
    [] i.op = "arrayload"  -> CheckArrayLoad(f, i)
    [] i.op = "arraystore" -> CheckArrayStore(f, i)
    [] i.op = "shuffle"    -> CheckShuffle(f, i)
    [] i.op = "arith"      -> CheckArithmetic(f, i)
    [] i.op = "iinc"       -> CheckIncrement(f, i)
    [] i.op \in {"if", "goto", "switch"} -> CheckBranch(f, i)
    [] i.op = "return"     -> CheckReturn(f, i)
    [] i.op = "field"      -> CheckField(f, i)
    [] i.op = "invoke"     -> CheckInvoke(f, i)
    [] i.op = "new"        -> CheckNew(f, i)
    [] i.op = "newarray"   -> CheckNewArray(f, i)
    [] i.op = "arraylength" -> CheckArrayLength(f, i)
    [] i.op \in {"cast", "instanceof"} -> CheckCast(f, i)
    [] i.op = "monitor"    -> CheckMonitor(f, i)
    [] i.op = "throw"      -> CheckThrow(f, i)

Targets(i) == IF i.op \in {"if", "goto", "switch"} THEN i.targets ELSE {}

EndsFlow(i) == i.op \in {"goto", "switch", "return", "throw"}

----------------------------------------------------------------------------
(* The steps of verifyClass() and Vfy_verifyMethodOrAbort() *)

VerifierInit ==
  /\ input \in Inputs
  /\ status = "loaded"
  /\ code = [at \in 0..(CodeLength - 1) |-> NoCode]
  /\ maps = [k \in DOMAIN input.offsets |-> [ip |-> input.offsets[k], frame |-> Unknown]]
  /\ ip = 0
  /\ frame = InitialFrame(input.method)
  /\ noControlFlow = FALSE
  /\ currentStackMapIndex = 1
  /\ derived = <<>>

\* Vfy_throw(): the class gets status CLASS_ERROR.  What was read is of no more use.
Reject ==
  /\ status' = "error"
  /\ code' = [at \in 0..(CodeLength - 1) |-> NoCode]
  /\ maps' = <<>> /\ ip' = 0 /\ frame' = InitialFrame(method)
  /\ noControlFlow' = FALSE /\ currentStackMapIndex' = 1 /\ derived' = <<>>
  /\ UNCHANGED input

\* What is checked before the first instruction.
StartVerify ==
  /\ status = "loaded"
  /\ IF /\ ~method.overridesFinal
        /\ \A k \in DOMAIN input.handlers : VIsAssignable(input.handlers[k].type, ThrowableType)
     THEN /\ status' = "verifying"
          /\ UNCHANGED <<input, code, maps, ip, frame, noControlFlow, currentStackMapIndex,
                         derived>>
     ELSE Reject

\* The next offset of a stack map that has not been passed.
NextMapIP == IF currentStackMapIndex <= Len(maps) THEN maps[currentStackMapIndex].ip
             ELSE CodeLength + 2

\* Chooses the types of the maps at the given offsets, if they are still unknown.
Completions(offsets) ==
  LET open == {k \in DOMAIN maps : maps[k].ip \in offsets /\ maps[k].frame = Unknown}
  IN  {[k \in DOMAIN maps |-> IF k \in open THEN [maps[k] EXCEPT !.frame = c[k]] ELSE maps[k]]
       : c \in [open -> input.frames]}

\* The instruction at an offset; if nobody has read it, any of the input.
Candidates(at) == IF code[at] = NoCode THEN input.instructions ELSE {code[at]}

\* One iteration of the main loop.
VerifyInstruction ==
  /\ status = "verifying" /\ ip < CodeLength
  /\ \E i \in Candidates(ip) :
     \E ms \in Completions({ip} \cup Targets(i) \cup
                           {input.handlers[k].pc : k \in Covering(ip)}) :
       LET here  == {f \in CurrentTarget(ms) : NextMapIP >= ip /\ HandlersMatch(ms, f)}
           after == {g \in UNION {Effect(f, i) : f \in here} :
                       /\ \A t \in Targets(i) : JumpMatches(ms, g, t)
                       /\ HandlersSplit(ip + Width(i))}
       IN  IF after = {} THEN Reject
           ELSE /\ maps' = ms
                /\ code' = [code EXCEPT ![ip] = i]
                /\ frame' \in after
                /\ derived' = derived @@ [at \in {ip} |-> CHOOSE f \in here : TRUE]
                /\ ip' = ip + Width(i)
                /\ noControlFlow' = EndsFlow(i)
                /\ currentStackMapIndex' = currentStackMapIndex
                                           + (IF NextMapIP = ip THEN 1 ELSE 0)
                /\ UNCHANGED <<input, status>>

\* Vfy_checkNewInstructions(): types of maps name offsets of NEW instructions.
NewInstructionsExist ==
  \A k \in DOMAIN maps : maps[k].frame = Unknown \/
    \A t \in Range(maps[k].frame.locals) \cup Range(maps[k].frame.stack) :
      IsNew(t) => t[2] < CodeLength /\ code[t[2]].op = "new"

\* The checks after the last instruction.
EndVerify ==
  /\ status = "verifying" /\ ip >= CodeLength
  /\ IF /\ currentStackMapIndex = Len(maps) + 1
        /\ ip = CodeLength
        /\ noControlFlow
        /\ NewInstructionsExist
     THEN /\ status' = "verified"
          /\ UNCHANGED <<input, code, maps, ip, frame, noControlFlow, currentStackMapIndex,
                         derived>>
     ELSE Reject

VerifierNext == StartVerify \/ VerifyInstruction \/ EndVerify

============================================================================
