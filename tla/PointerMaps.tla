----------------------------- MODULE PointerMaps ----------------------------
(***************************************************************************)
(* The pointer maps the collector finds the references of a frame with     *)
(* (stackmap.c).  When a class is verified its stack maps are rewritten to *)
(* one bit for each local and each word of the stack.  During a collection *)
(* getGCRegisterMask() starts at the last map that is not behind the       *)
(* current instruction, or at the signature of the method, and follows the *)
(* code from there: it knows nothing of types, only which bytecodes push   *)
(* and store pointers.  A map here is [locals, stack], two sequences of    *)
(* BOOLEAN; Fatal stands for a call of fatalError().                       *)
(***************************************************************************)
EXTENDS Interpreter, FiniteSetsExt

Fatal == [locals |-> <<>>, stack |-> <<"fatal">>]

\* Mutant: objects whose constructor was not called yet are forgotten.
IsInitializedPointer(t) == IsRef(t) \/ t = InitObject

\* rewriteVerifierStackMapsAsPointerMaps(): "type > 255 || type == ITEM_InitObject"
IsPointerType(t) == IsNew(t) \/ IsRef(t) \/ t = InitObject

PointerMap(m) ==
  [locals |-> [k \in 1..FrameSize |-> k <= Len(m.locals) /\ IsPointerType(m.locals[k])],
   stack  |-> [k \in DOMAIN m.stack |-> IsPointerType(m.stack[k])]]

\* getRegisterMaskFromMethodSignature()
SignatureMask ==
  LET this == IF method.static THEN <<>> ELSE <<TRUE>>
      bits == this \o FlattenSeq([k \in DOMAIN method.args |->
                        IF method.args[k] = Long THEN <<FALSE, FALSE>>
                        ELSE <<IsRef(method.args[k])>>])
  IN  [locals |-> [k \in 1..FrameSize |-> k <= Len(bits) /\ bits[k]], stack |-> <<>>]

\* getInitialRegisterMask(): the offset it knows a map for, and that map
StartOffset(target) ==
  LET before == {maps[k].ip : k \in {j \in DOMAIN maps : maps[j].ip <= target}}
  IN  IF before = {} THEN 0 ELSE Max(before)

InitialMask(at) == IF HasMap(maps, at) THEN PointerMap(MapAt(maps, at)) ELSE SignatureMask

----------------------------------------------------------------------------
(***************************************************************************)
(* One turn of the loop of getGCRegisterMask(): instruction i changes m.   *)
(***************************************************************************)
Bits(t) == IF t = Long THEN <<FALSE, FALSE>> ELSE <<IsRef(t)>>

PopPush(m, n, bits) ==
  IF n > Len(m.stack) THEN Fatal
  ELSE [m EXCEPT !.stack = SubSeq(@, 1, Len(@) - n) \o bits]

StoreMask(m, i) ==
  LET popped == PopPush(m, IF i.type = Long THEN 2 ELSE 1, <<>>)
      width  == IF i.type = Long THEN 2 ELSE 1
  IN  IF popped = Fatal THEN Fatal
      ELSE [popped EXCEPT !.locals = [k \in DOMAIN @ |->
              IF k \in (i.index + 1)..(i.index + width) THEN i.type = Reference ELSE @[k]]]

\* The bits getBits() reads below the top of the stack, and those setBits() writes.
DupValues ==
  [dup     |-> [read |-> 1, write |-> <<1, 1>>],
   dup_x1  |-> [read |-> 2, write |-> <<2, 1, 2>>],
   dup_x2  |-> [read |-> 3, write |-> <<3, 1, 2, 3>>],
   dup2    |-> [read |-> 2, write |-> <<1, 2, 1, 2>>],
   dup2_x1 |-> [read |-> 3, write |-> <<2, 3, 1, 2, 3>>],
   dup2_x2 |-> [read |-> 4, write |-> <<3, 4, 1, 2, 3, 4>>],
   swap    |-> [read |-> 2, write |-> <<2, 1>>],
   pop     |-> [read |-> 1, write |-> <<>>],
   pop2    |-> [read |-> 2, write |-> <<>>]]

ShuffleMask(m, i) ==
  LET d == DupValues[i.name]
      n == Len(m.stack) - d.read
  IN  IF n < 0 THEN Fatal
      ELSE PopPush(m, d.read, [k \in DOMAIN d.write |-> m.stack[n + d.write[k]]])

\* AALOAD leaves the bit of the array; the others push what they always push.
ArrayLoadMask(m, i) ==
  IF i.type = Reference THEN PopPush(m, 1, <<>>) ELSE PopPush(m, 2, Bits(i.type))

\* A field or method whose constant pool entry is not resolved is fatal.
FieldMask(m, i, at) ==
  LET object == IF i.kind \in {"getfield", "putfield"} THEN 1 ELSE 0
      put    == i.kind \in {"putfield", "putstatic"}
  IN  IF at \notin resolved THEN Fatal
      ELSE IF put THEN PopPush(m, object + Len(Words(i.type)), <<>>)
      ELSE PopPush(m, object, Bits(i.type))

InvokeMask(m, i, at) ==
  IF at \notin resolved THEN Fatal
  ELSE PopPush(m, Len(ArgumentWords(i)) + (IF i.kind = "static" THEN 0 ELSE 1),
               IF i.ret = Void THEN <<>> ELSE Bits(i.ret))

AfterMask(m, i, at) ==
  IF m = Fatal THEN Fatal
  ELSE CASE i.op = "const"      -> PopPush(m, 0, Bits(i.type))
         [] i.op = "load"       -> PopPush(m, 0, IF i.type = Reference THEN <<TRUE>> ELSE Bits(i.type))
         [] i.op = "store"      -> StoreMask(m, i)
         [] i.op = "arrayload"  -> ArrayLoadMask(m, i)
         [] i.op = "arraystore" -> PopPush(m, 2 + Len(Words(i.type)), <<>>)
         [] i.op = "shuffle"    -> ShuffleMask(m, i)
         [] i.op = "arith"      -> PopPush(m, Len(i.ins), [k \in DOMAIN i.outs |-> FALSE])
         [] i.op \in {"iinc", "cast"} -> m
         [] i.op = "if"         -> PopPush(m, Len(i.ins), <<>>)
         [] i.op = "field"      -> FieldMask(m, i, at)
         [] i.op = "invoke"     -> InvokeMask(m, i, at)
         [] i.op = "new"        -> PopPush(m, 0, <<TRUE>>)
         [] i.op = "newarray"   -> PopPush(m, i.dims, <<TRUE>>)
         [] i.op \in {"arraylength", "instanceof"} -> PopPush(m, 1, <<FALSE>>)
         [] i.op = "monitor"    -> PopPush(m, 1, <<>>)
         [] OTHER -> Fatal      \* no bytecode that ends the flow of control

\* getGCRegisterMask()
GCRegisterMask(target) ==
  LET start == StartOffset(target)
      Previous(at) == Max({b \in start..(at - 1) : code[b] # NoCode})
      mask[at \in start..target] ==
        IF at = start THEN InitialMask(start)
        ELSE AfterMask(mask[Previous(at)], code[Previous(at)], Previous(at))
  IN  mask[target]

(***************************************************************************)
(* markThreadStack(): the map of the frame of the method, for the current  *)
(* instruction of a running method, and the one behind the call for a      *)
(* method that waits for its callee.                                       *)
(***************************************************************************)
FrameMask == GCRegisterMask(IF mode = "call" THEN NextIP ELSE pc)

----------------------------------------------------------------------------
(* Properties *)

\* Wherever a method is when the collector runs, getGCRegisterMask() finds its
\* way to the instruction without a fatal error, and agrees with the interpreter
\* on the size of the stack; a caller may lack the result.  The collector takes
\* no garbage and no number for a reference, and follows every reference that
\* the method can still use: one the verifier has a type for in front of the
\* instruction that comes next.
CollectorSeesReferences ==
  LET m  == FrameMask
      at == IF mode = "call" THEN NextIP ELSE pc
  IN mode \in {"run", "call"} =>
    /\ m # Fatal
    /\ IF mode = "run" THEN Len(m.stack) = Len(stack)
       ELSE Len(m.stack) = Len(stack) + Len(ResultWords(code[pc]))
    /\ \A k \in DOMAIN locals :
         /\ m.locals[k] => IsPointer(locals[k])
         /\ (IsPointer(locals[k]) /\ locals[k] # Null /\ derived[at].locals[k] # Bogus)
              => m.locals[k]
    /\ \A k \in DOMAIN stack :
         /\ m.stack[k] => IsPointer(stack[k])
         /\ (IsPointer(stack[k]) /\ stack[k] # Null) => m.stack[k]

\* stackmap.c, getGCRegisterMask(): the map has the "locals and stack that contain
\* pointers".  While a method waits for its callee, the references that a handler
\* around the call can use are among them.
HandlersKeepReferences ==
  mode = "call" =>
    \A h \in {input.handlers[j] : j \in Covering(pc)} : \A k \in DOMAIN locals :
      (IsPointer(locals[k]) /\ locals[k] # Null /\ derived[h.pc].locals[k] # Bogus)
        => FrameMask.locals[k]

============================================================================
