----------------------------- MODULE Interpreter ----------------------------
(***************************************************************************)
(* The interpreter (bytecodes.c, execute.c) running one method that        *)
(* Verifier has accepted, and the exceptions it throws (frame.c).          *)
(*                                                                         *)
(* The C code handles untyped cells and checks only null pointers, array   *)
(* bounds, casts and array stores; everything else it takes from the       *)
(* verifier.  Here each cell remembers what was put into it, and Requires  *)
(* states what the code of an instruction takes for granted.  Values are   *)
(* chosen: a field, an argument or a result is any value of its type.      *)
(***************************************************************************)
EXTENDS Verifier

CONSTANT Objects     \* classes and array types objects are instances of

VARIABLES mode,          \* "idle", "run", "call" (suspended in INVOKE*),
                         \* "returned", "threw", "fatal"
          pc,
          locals, stack, \* cells of the frame
          receiver,      \* in mode "call": this of the callee
          constructed,   \* has the constructor of the superclass returned?
          resolved       \* offsets whose constant pool entries are resolved

runVars == <<mode, pc, locals, stack, receiver, constructed, resolved>>

\* A cell holds half of a value of a primitive type, a reference, or garbage.
\* A reference is null, an object of class or array type <<"Ref", c, d>>, or
\* the n-th object whose constructor has not been called yet (0: this).
Uninit(n, c)  == <<"Uninit", n, c, 0>>
IsUninit(x)   == Len(x) = 4
IsObject(x)   == IsRef(x)
IsPointer(x)  == x = Null \/ IsObject(x) \/ IsUninit(x)
IsChecked(x)  == x = Null \/ IsObject(x)      \* may be dereferenced after a null check

\* Interfaces are java.lang.Object to the verifier: such a variable holds anything.
InstanceOfKey(x, t) == IsInterfaceKey(t) \/ KeyAssignable(x, t)

\* What a cell of a verifier type holds.
CellHas(x, t) ==
  CASE t = Bogus      -> TRUE
    [] t = InitObject -> x = Uninit(0, method.class)
    [] t = Reference  -> IsPointer(x)
    [] IsNew(t)       -> IsUninit(x) /\ x[2] > 0 /\ x[3] = code[t[2]].class
    [] IsRef(t)       -> x = Null \/ (IsObject(x) /\ InstanceOfKey(x, t))
    [] OTHER          -> x = t

\* The values of a field type, as cells.
Values(t) ==
  IF IsRef(t) THEN {<<x>> : x \in {Null} \cup {o \in Objects : InstanceOfKey(o, t)}}
  ELSE {Words(t)}

HasCells(s, ts) ==
  LET n == Len(s) - Len(ts)
  IN  n >= 0 /\ \A k \in DOMAIN ts : CellHas(s[n + k], ts[k])

Room(s, n)   == Len(s) + n <= MaxStack
Under(s, n)  == SubSeq(s, 1, Len(s) - n)
Top(s, n)    == s[Len(s) - n]          \* topStack, secondStack, thirdStack: n = 0, 1, 2
InFrame(index, ws) == index + Len(ws) <= FrameSize

InstructionStart(at) == at \in 0..(CodeLength - 1) /\ code[at] # NoCode
NextIP == pc + Width(code[pc])

----------------------------------------------------------------------------
(***************************************************************************)
(* What the code of an instruction takes for granted of locals and stack.  *)
(***************************************************************************)
RequiresLoad(i) ==
  /\ InFrame(i.index, Words(i.type)) /\ Room(stack, Len(Words(i.type)))
  /\ \A k \in DOMAIN Words(i.type) : CellHas(locals[i.index + k], Words(i.type)[k])

RequiresArray(x, t) ==
  x = Null \/ IF t = Reference THEN IsArray(x) /\ (x[2] \in Classes \/ x[3] > 1)
              ELSE x = IF t = Long THEN LongArray ELSE IntArray

RequiresArrayLoad(i) ==
  HasCells(stack, <<Integer>>) /\ Len(stack) > 1 /\ RequiresArray(Top(stack, 1), i.type)

RequiresArrayStore(i) ==
  LET ws == Words(i.type)
  IN  /\ HasCells(stack, <<Integer>> \o ws) /\ Len(stack) > Len(ws) + 1
      /\ RequiresArray(Top(stack, Len(ws) + 1), i.type)
      /\ i.type = Reference => IsChecked(Top(stack, 0))

\* POP, DUP and the like: how many words they take, and which they put back.
StackWords ==
  [pop     |-> [take |-> 1, put |-> <<>>],
   pop2    |-> [take |-> 2, put |-> <<>>],
   dup     |-> [take |-> 1, put |-> <<1, 1>>],
   dup_x1  |-> [take |-> 2, put |-> <<2, 1, 2>>],
   dup_x2  |-> [take |-> 3, put |-> <<3, 1, 2, 3>>],
   dup2    |-> [take |-> 2, put |-> <<1, 2, 1, 2>>],
   dup2_x1 |-> [take |-> 3, put |-> <<2, 3, 1, 2, 3>>],
   dup2_x2 |-> [take |-> 4, put |-> <<3, 4, 1, 2, 3, 4>>],
   swap    |-> [take |-> 2, put |-> <<2, 1>>]]

Shuffled(s, i) ==
  LET w == StackWords[i.name]
      n == Len(s) - w.take
  IN  SubSeq(s, 1, n) \o [k \in DOMAIN w.put |-> s[n + w.put[k]]]

\* No long is torn apart.
WholeLongs(s) ==
  /\ s # <<>> => s[1] # Long2
  /\ \A k \in DOMAIN s : s[k] = Long <=> (k < Len(s) /\ s[k + 1] = Long2)

RequiresShuffle(i) ==
  LET w == StackWords[i.name]
  IN  Len(stack) >= w.take /\ Room(stack, Len(w.put) - w.take) /\ WholeLongs(Shuffled(stack, i))

RequiresReturn(i) ==
  IF i.type = Void THEN method.ret = Void
  ELSE method.ret # Void /\ HasCells(stack, Words(method.ret))

\* PUTFIELD with the uninitialized this as its object: of its class nothing is known
\* to the interpreter.
AssignsEarly(i) ==
  /\ i.op = "field" /\ i.kind = "putfield"
  /\ Len(stack) > Len(Words(i.type)) /\ Top(stack, Len(Words(i.type))) = Uninit(0, method.class)

\* A field of an object is at an offset that only its class and subclasses have.
RequiresField(i) ==
  LET ws  == Words(i.type)
      put == i.kind \in {"putfield", "putstatic"}
      n   == IF put THEN Len(ws) ELSE 0
  IN  /\ put => HasCells(stack, ws)
      /\ i.kind = "getstatic" => Room(stack, Len(ws))
      /\ i.kind \in {"getfield", "putfield"} =>
           /\ Len(stack) > n
           /\ \/ Top(stack, n) = Null
              \/ (IsObject(Top(stack, n)) /\ KeyAssignable(Top(stack, n), AccessedThrough(i)))
              \/ (AssignsEarly(i) /\ i.class \in SuperClasses[method.class])

RequiresInvoke(i) ==
  LET n == Len(ArgumentWords(i))
  IN  /\ HasCells(stack, ArgumentWords(i))
      /\ i.kind # "static" =>
           /\ Len(stack) > n
           /\ LET this == Top(stack, n)
              IN  IF i.name = "init"
                  THEN /\ IsUninit(this)
                       /\ IF this[2] = 0 THEN i.class \in {method.class, SuperClass[method.class]}
                          ELSE this[3] = i.class
                  ELSE this = Null \/ (IsObject(this) /\ InstanceOfKey(this, AccessedThrough(i)))

RequiresArithmetic(i) == HasCells(stack, i.ins) /\ Room(stack, Len(i.outs) - Len(i.ins))

RequiresBranch(i) == HasCells(stack, i.ins) /\ \A t \in i.targets : InstructionStart(t)

\* The lengths; MULTIANEWARRAY takes as many as the class file says.
RequiresNewArray(i) == HasCells(stack, [k \in 1..i.dims |-> Integer])

RequiresReference == stack # <<>> /\ IsChecked(Top(stack, 0))

Requires(i) ==
  CASE i.op = "const"      -> Room(stack, Len(Words(i.type)))
    [] i.op = "load"       -> RequiresLoad(i)
    [] i.op = "store"      -> HasCells(stack, Words(i.type)) /\ InFrame(i.index, Words(i.type))
    [] i.op = "arrayload"  -> RequiresArrayLoad(i)
    [] i.op = "arraystore" -> RequiresArrayStore(i)
    [] i.op = "shuffle"    -> RequiresShuffle(i)
    [] i.op = "arith"      -> RequiresArithmetic(i)
    [] i.op = "iinc"       -> InFrame(i.index, <<Integer>>) /\ locals[i.index + 1] = Integer
    [] i.op \in {"if", "goto", "switch"} -> RequiresBranch(i)
    [] i.op = "return"     -> RequiresReturn(i)
    [] i.op = "field"      -> RequiresField(i)
    [] i.op = "invoke"     -> RequiresInvoke(i)
    [] i.op = "new"        -> Room(stack, 1)
    [] i.op = "newarray"   -> RequiresNewArray(i)
    [] i.op = "arraylength" -> stack # <<>> /\ (Top(stack, 0) = Null \/ IsArray(Top(stack, 0)))
    [] i.op \in {"cast", "instanceof", "monitor"} -> RequiresReference
    [] i.op = "throw"      -> HasCells(stack, <<ThrowableType>>)

----------------------------------------------------------------------------
(***************************************************************************)
(* What an instruction leaves on the stack when it ends normally: the set  *)
(* of its possible results, empty if it can only throw an exception.       *)
(***************************************************************************)
\* An object never loses its identity: the numbers in use are in the frame.
NewNumber ==
  CHOOSE n \in 1..(FrameSize + MaxStack + 1) :
    \A x \in Range(locals) \cup Range(stack) : IsUninit(x) => x[2] # n

\* Elements of an array: null, or objects its element type allows.  AASTORE checks.
Elements(array, t) ==
  IF array = Null THEN {}
  ELSE IF t # Reference THEN {Words(t)}
  ELSE {<<x>> : x \in {Null} \cup {o \in Objects : KeyAssignable(o, ElementType(array))}}

After(s, n, results) == {Under(s, n) \o r : r \in results}

FieldStacks(s, i) ==
  LET n == Len(Words(i.type))
  IN  CASE i.kind = "getstatic" -> After(s, 0, Values(i.type))
        [] i.kind = "putstatic" -> After(s, n, {<<>>})
        [] i.kind = "getfield"  -> IF Top(s, 0) = Null THEN {} ELSE After(s, 1, Values(i.type))
        [] i.kind = "putfield"  -> IF Top(s, n) = Null THEN {} ELSE After(s, n + 1, {<<>>})

\* LDC of a String pushes the object.
ConstantStacks(s, i) == After(s, 0, IF IsRef(i.type) THEN {<<i.type>>} ELSE {Words(i.type)})

LoadStacks(s, i) ==
  After(s, 0, {SubSeq(locals, i.index + 1, i.index + Len(Words(i.type)))})

\* AASTORE is the only one that looks at the value.
ArrayStoreStacks(s, i) ==
  LET n     == Len(Words(i.type)) + 2
      array == Top(s, n - 1)
      fits  == i.type = Reference /\ Top(s, 0) # Null =>
                 KeyAssignable(Top(s, 0), ElementType(array))
  IN  IF array = Null THEN {} ELSE IF fits THEN After(s, n, {<<>>}) ELSE {}

CastStacks(s, i) ==
  IF i.op = "instanceof" THEN After(s, 1, {<<Integer>>})
  ELSE IF Top(s, 0) # Null /\ ~KeyAssignable(Top(s, 0), i.type) THEN {} ELSE {s}

MonitorStacks(s) == IF Top(s, 0) = Null THEN {} ELSE After(s, 1, {<<>>})

Stacks(i) ==
  LET s == stack
  IN CASE i.op = "const"  -> ConstantStacks(s, i)
       [] i.op = "load"   -> LoadStacks(s, i)
       [] i.op = "store"  -> After(s, Len(Words(i.type)), {<<>>})
       [] i.op = "arrayload"  -> After(s, 2, Elements(Top(s, 1), i.type))
       [] i.op = "arraystore" -> ArrayStoreStacks(s, i)
       [] i.op = "shuffle" -> {Shuffled(s, i)}
       [] i.op = "arith"  -> After(s, Len(i.ins), {i.outs})
       [] i.op = "iinc"   -> {s}
       [] i.op \in {"if", "goto", "switch"} -> After(s, Len(i.ins), {<<>>})
       [] i.op = "field"  -> FieldStacks(s, i)
       [] i.op = "new"      -> After(s, 0, {<<Uninit(NewNumber, i.class)>>})
       [] i.op = "newarray" -> After(s, i.dims, {<<i.type>>})
       [] i.op = "arraylength" -> IF Top(s, 0) = Null THEN {} ELSE After(s, 1, {<<Integer>>})
       [] i.op \in {"cast", "instanceof"} -> CastStacks(s, i)
       [] i.op = "monitor"  -> MonitorStacks(s)
       [] OTHER -> {}

Locals(i) ==
  IF i.op # "store" THEN locals
  ELSE LET n == Len(Words(i.type))
       IN  [k \in DOMAIN locals |->
              IF k \in (i.index + 1)..(i.index + n) THEN stack[Len(stack) - n + k - i.index]
              ELSE locals[k]]

NextIPs(i) ==
  CASE i.op \in {"goto", "switch"} -> i.targets
    [] i.op = "if" -> i.targets \cup {NextIP}
    [] OTHER -> {NextIP}

\* Instructions that may throw; of the arithmetic, integer division.  Errors of the VM itself, such as lack of memory
\* or of a class, are thrown by whatever allocates or resolves.
MayThrow(i) ==
  \/ i.op \in {"field", "new", "newarray", "arraylength", "arrayload", "arraystore", "throw",
               "monitor", "cast", "instanceof", "invoke", "arith"}
  \/ i.op = "const" /\ IsRef(i.type)

Resolves(i) == i.op \in {"field", "invoke"}

----------------------------------------------------------------------------
(* Steps *)

InterpreterInit ==
  /\ mode = "idle" /\ pc = 0
  /\ locals = <<>> /\ stack = <<>>
  /\ receiver = Null /\ constructed = FALSE /\ resolved = {}

\* pushFrame() with the arguments of the caller; the other locals hold what was there.
Enter ==
  LET this == IF method.static THEN {<<>>}
              ELSE IF method.init THEN {<<Uninit(0, method.class)>>}
              ELSE Values(Ref(method.class, 0)) \ {<<Null>>}
  IN  /\ status = "verified" /\ mode = "idle"
      /\ \E t \in this : \E a \in [DOMAIN method.args -> UNION {Values(x) : x \in Range(method.args)}] :
           LET args == t \o FlattenSeq([k \in DOMAIN a |-> a[k]])
           IN  /\ \A k \in DOMAIN a : a[k] \in Values(method.args[k])
               /\ locals' = [k \in 1..FrameSize |-> IF k <= Len(args) THEN args[k] ELSE Bogus]
      /\ mode' = "run" /\ pc' = 0 /\ stack' = <<>>
      /\ UNCHANGED <<receiver, constructed, resolved>>

Running(i) == mode = "run" /\ InstructionStart(pc) /\ i = code[pc] /\ Requires(i)

\* One bytecode that neither calls nor returns.
Execute ==
  \E i \in {code[pc]} :
    /\ Running(i)
    /\ stack' \in Stacks(i)
    /\ locals' = Locals(i)
    /\ pc' \in NextIPs(i)
    /\ resolved' = IF Resolves(i) THEN resolved \cup {pc} ELSE resolved
    /\ UNCHANGED <<mode, receiver, constructed>>

\* callMethod_general: the arguments become locals of the callee.
Call ==
  \E i \in {code[pc]} :
    /\ Running(i) /\ i.op = "invoke"
    /\ LET n == Len(ArgumentWords(i))
           this == IF i.kind = "static" THEN ObjectType ELSE Top(stack, n)
       IN  /\ this # Null
           /\ receiver' = this
           /\ stack' = Under(stack, IF i.kind = "static" THEN n ELSE n + 1)
           \* INVOKEINTERFACE finds no method in a class without the interface
           /\ mode' = IF i.kind = "interface" /\ ~KeyAssignable(this, Ref(i.class, 0))
                      THEN "fatal" ELSE "call"
    /\ resolved' = resolved \cup {pc}
    /\ UNCHANGED <<pc, locals, constructed>>

\* The callee returns.  A constructor has initialized its object: all references
\* to it are to an object of its class now.
CallReturns ==
  \E i \in {code[pc]} : \E result \in (IF i.op # "invoke" THEN {}
                                       ELSE IF i.ret = Void THEN {<<>>} ELSE Values(i.ret)) :
    LET class == IF receiver = Uninit(0, method.class) THEN method.class ELSE i.class
        Initialized(s) == IF IsUninit(receiver)
                          THEN [k \in DOMAIN s |-> IF s[k] = receiver THEN Ref(class, 0) ELSE s[k]]
                          ELSE s
    IN  /\ mode = "call" /\ mode' = "run"
        /\ pc' = NextIP
        /\ stack' = Initialized(stack) \o result
        /\ locals' = Initialized(locals)
        /\ constructed' = (constructed \/ receiver = Uninit(0, method.class))
        /\ receiver' = Null
        /\ UNCHANGED resolved

\* IRETURN and the like: the caller finds the result on its stack.
Return ==
  \E i \in {code[pc]} :
    /\ Running(i) /\ i.op = "return"
    /\ mode' = "returned"
    /\ UNCHANGED <<pc, locals, stack, receiver, constructed, resolved>>

Matching(x, at) ==
  {k \in DOMAIN input.handlers : /\ input.handlers[k].start <= at /\ at < input.handlers[k].end
                                 /\ KeyAssignable(x, input.handlers[k].type)}

\* throwException() and findHandler(), for an exception x at offset at: the first
\* handler that matches continues with x alone on the stack.
ThrowException(x, at) ==
  LET hs == Matching(x, at)
      h  == input.handlers[CHOOSE k \in hs : \A j \in hs : k <= j]
  IN  IF hs = {} THEN mode' = "threw" /\ UNCHANGED <<pc, stack>>
      ELSE mode' = "run" /\ pc' = h.pc /\ stack' = <<x>>

\* ATHROW throws what is on the stack; the VM throws instances of any error class.
Thrown(i) ==
  IF mode = "run" /\ i.op = "throw" /\ Top(stack, 0) # Null THEN {Top(stack, 0)}
  ELSE {o \in Objects : KeyAssignable(o, ThrowableType)}

\* MONITOREXIT advances ip before it throws.
ThrowsAt(i) == IF i.op = "monitor" /\ stack # <<>> /\ Top(stack, 0) # Null THEN {pc, NextIP} ELSE {pc}

Throw ==
  \E i \in {code[pc]} : \E x \in Thrown(i) :
    /\ \/ Running(i) /\ MayThrow(i) /\ \E at \in ThrowsAt(i) : ThrowException(x, at)
       \/ mode = "call" /\ ThrowException(x, NextIP - 1)
    /\ receiver' = Null
    /\ resolved' = IF Resolves(i) THEN resolved \cup {pc} ELSE resolved
    /\ UNCHANGED <<locals, constructed>>

InterpreterNext == Enter \/ Execute \/ Call \/ CallReturns \/ Return \/ Throw

----------------------------------------------------------------------------
(* Properties *)

\* What the program left in the frame is what the verifier derived for the
\* instruction: verifier and interpreter agree on every bytecode, also where
\* control arrives by a branch, a handler or the return of a callee.
FramesDescribe ==
  mode = "run" =>
    /\ pc \in DOMAIN derived
    /\ Len(stack) = Len(derived[pc].stack)
    /\ \A k \in DOMAIN stack  : CellHas(stack[k], derived[pc].stack[k])
    /\ \A k \in DOMAIN locals : CellHas(locals[k], derived[pc].locals[k])

\* verifier.c, Vfy_verifyMethodOrAbort(): "2nd edition JVM allows field
\* initializations before the super class initializer if the field is defined
\* within the current class."  So what is assigned to this before a constructor of
\* the superclass has returned is a field of the class of the method.
EarlyFieldsAreOwn ==
  mode = "run" /\ InstructionStart(pc) /\ AssignsEarly(code[pc]) => code[pc].class = method.class

\* It is not so: the verifier compares the class of the field with the class the
\* constant pool names.  A field of a class that this is no instance of is written
\* to some other place in the heap; the execution ends here, as after that anything may
\* happen.
AssignsForeignField(i) ==
  AssignsEarly(i) /\ HasCells(stack, Words(i.type)) /\ i.class \notin SuperClasses[method.class]

\* With that exception no verified method reaches an instruction whose code would
\* take one kind of value for another, leave the stack, the locals or the code of the
\* method, or touch an object before its constructor was called; and a constructor
\* that returns has called a constructor of its superclass or another one of its
\* class, on every path.
NeverGoesWrong ==
  /\ mode = "run" =>
       InstructionStart(pc) /\ (Requires(code[pc]) \/ AssignsForeignField(code[pc]))
  /\ mode = "returned" /\ method.init => constructed

============================================================================
