---------------------------- MODULE Preverifier -----------------------------
(***************************************************************************)
(* The data flow analysis of the preverifier (tools/preverifier,           *)
(* check_code.c), which writes the stack maps the verifier of the VM       *)
(* relies on.  It visits the instructions whose state has changed, in      *)
(* order and pass after pass, and merges what an instruction leaves into   *)
(* the states in front of its successors and of the handlers around it.    *)
(*                                                                         *)
(* The method is chosen as the analysis goes: an instruction when it is    *)
(* first visited.  Left out are subroutines (JSR and RET, which javac does *)
(* not need any more) and the rewriting of methods that have dead code.    *)
(***************************************************************************)
EXTENDS Verifier, FiniteSetsExt

VARIABLES pre,       \* "unused", "working", "accepted", "rejected", "dead code"
          info,      \* what is known in front of each instruction, or Unseen
          changed,   \* instructions to be visited (again)
          targets,   \* instructions with is_target
          visited    \* the instruction the loop of run_dataflow() came to last

preverifierVars == <<pre, info, changed, targets, visited>>

\* A state has registers, a stack, and of the flags FLAG_CONSTRUCTED and
\* FLAG_NO_RETURN.  FLAG_REACHED is that there is a state at all.
Unseen == [unseen |-> TRUE]

IsObjectType(t) == t = Null \/ IsRef(t)
IsUninitialized(t) == IsNew(t) \/ t = InitObject

----------------------------------------------------------------------------
(***************************************************************************)
(* merge_fullinfo_types(): what value and target have in common; with      *)
(* assign, only whether it is target matters.                              *)
(***************************************************************************)
CommonSuperClass(c, d) ==
  CHOOSE e \in SuperClasses[c] \cap SuperClasses[d] :
    SuperClasses[c] \cap SuperClasses[d] \subseteq SuperClasses[e]

MergeClasses(value, target, assign) ==
  CASE value = target         -> value
    [] target = "Object"      -> target
    [] value = "Object"       -> IF assign /\ target \in Interfaces THEN target ELSE value
    [] target \in Interfaces  -> IF assign THEN target ELSE "Object"
    [] value \in Interfaces   -> "Object"
    [] assign                 -> IF target \in SuperClasses[value] THEN target ELSE "Object"
    [] OTHER                  -> CommonSuperClass(value, target)

\* An array of a primitive type is an object, in an array or not.
PromoteBase(t) == IF t[2] \in Classes THEN t ELSE Ref("Object", t[3] - 1)

MergeDimensions(value, target, assign) ==
  IF value[3] = target[3] THEN Ref(MergeClasses(value[2], target[2], assign), value[3])
  ELSE Ref("Object", IF value[3] < target[3] THEN value[3] ELSE target[3])

MergeTypes(value, target, assign) ==
  CASE value = target          -> value
    [] ~(IsObjectType(value) /\ IsObjectType(target)) -> Bogus
    [] value = Null            -> target
    [] target = Null           -> value
    [] target = ObjectType     -> target
    [] value = ObjectType /\ target[3] > 0 -> value
    [] OTHER -> MergeDimensions(PromoteBase(value), PromoteBase(target), assign)

Assignable(value, target) == MergeTypes(value, target, TRUE) = target

----------------------------------------------------------------------------
(* What an instruction finds on the stack, as opcodes.in_out names it *)

Kind(t) == CASE t = Integer -> "I" [] t = Long -> "L" [] OTHER -> "A"

ArrayKind(t) == CASE t = Integer -> "[I" [] t = Long -> "[L" [] OTHER -> "[A"

\* Uninitialized objects may be moved and compared, and the uninitialized this
\* may get a value for a field of its own.
MayBeUninitialized(x, i) ==
  \/ i.op \in {"store", "if"} /\ IsUninitialized(x)
  \/ i.op = "field" /\ i.kind = "putfield" /\ i.declared /\ x = InitObject

IsKind(x, kind, i) ==
  CASE kind = "I"  -> x = Integer
    [] kind = "L"  -> x = Long
    [] kind = "A"  -> IsObjectType(x) \/ MayBeUninitialized(x, i)
    [] kind = "@"  -> IsUninitialized(x)
    [] kind = "O"  -> IsObjectType(x) /\ ~IsArray(x)
    [] kind = "[I" -> x \in {Null, IntArray}
    [] kind = "[L" -> x \in {Null, LongArray}
    [] kind = "[A" -> x = Null \/ (IsArray(x) /\ (x[2] \in Classes \/ x[3] > 1))
    [] kind = "[?" -> x = Null \/ IsArray(x)

Size(kind) == IF kind = "L" THEN 2 ELSE 1

\* Where item k of kinds begins on a stack whose top they are.
ItemAt(stack, kinds, k) ==
  Len(stack) - FoldLeft(LAMBDA a, b : a + Size(b), 0, SubSeq(kinds, k, Len(kinds))) + 1

Item(s, kinds, k) == s.stack[ItemAt(s.stack, kinds, k)]

\* pop_stack(): the state without the items, if they are of these kinds.
PopKinds(s, kinds, i) ==
  LET bottom == ItemAt(s.stack, kinds, 1)
  IN  IF bottom > 0 /\ \A k \in DOMAIN kinds : IsKind(Item(s, kinds, k), kinds[k], i)
      THEN {[s EXCEPT !.stack = SubSeq(@, 1, bottom - 1)]} ELSE {}

PushWords(s, ts) == [s EXCEPT !.stack = @ \o ts]

ExchangeKinds(s, kinds, i, ts) == {PushWords(g, ts) : g \in PopKinds(s, kinds, i)}

Kinds(ts) == [k \in DOMAIN ts |-> Kind(ts[k])]

----------------------------------------------------------------------------
(* check_register_values(), update_registers() *)

RegistersHold(s, i) ==
  LET ws == Words(i.type)
  IN  /\ i.index + Len(ws) <= Len(s.regs)
      /\ IF i.type = Reference
         THEN IsObjectType(s.regs[i.index + 1]) \/ IsUninitialized(s.regs[i.index + 1])
         ELSE \A k \in DOMAIN ws : s.regs[i.index + k] = ws[k]

StoreRegisters(regs, index, ts) ==
  LET count == IF index + Len(ts) > Len(regs) THEN index + Len(ts) ELSE Len(regs)
  IN  [k \in 1..count |-> IF k \in (index + 1)..(index + Len(ts)) THEN ts[k - index]
                          ELSE IF k <= Len(regs) THEN regs[k] ELSE Bogus]

Substitute(ts, from, to) == [k \in DOMAIN ts |-> IF ts[k] = from THEN to ELSE ts[k]]

----------------------------------------------------------------------------
(* One operator for each family of instructions *)

PreLoad(s, i) ==
  IF RegistersHold(s, i)
  THEN {PushWords(s, IF i.type = Reference THEN <<s.regs[i.index + 1]>> ELSE Words(i.type))}
  ELSE {}

PreStore(s, i) ==
  LET kinds == <<Kind(i.type)>>
      top   == IF i.type = Long THEN <<Long, Long2>> ELSE <<Item(s, kinds, 1)>>
  IN  {[g EXCEPT !.regs = StoreRegisters(@, i.index, top)] : g \in PopKinds(s, kinds, i)}

PreArrayLoad(s, i) ==
  LET kinds == <<ArrayKind(i.type), "I">>
  IN  {PushWords(g, IF i.type = Reference THEN <<ElementType(Item(s, kinds, 1))>>
                    ELSE Words(i.type)) : g \in PopKinds(s, kinds, i)}

\* Any object that is no array may be stored where the elements are none.
PreArrayStore(s, i) ==
  LET kinds == <<ArrayKind(i.type), "I", Kind(i.type)>>
      array == Item(s, kinds, 1)
      value == Item(s, kinds, 3)
      element == ElementType(array)
  IN  {g \in PopKinds(s, kinds, i) :
         i.type = Reference =>
           \/ array = Null
           \/ ~IsArray(element) /\ ~IsArray(value)
           \/ Assignable(value, element)}

\* The rows of opcode_in_out.  Words are numbered from the top of the stack;
\* a group of one must not be a part of a long.
StackCode ==
  [pop     |-> [groups |-> <<1>>,    out |-> <<>>],
   pop2    |-> [groups |-> <<2>>,    out |-> <<>>],
   dup     |-> [groups |-> <<1>>,    out |-> <<1, 1>>],
   dup_x1  |-> [groups |-> <<1, 1>>, out |-> <<1, 2, 1>>],
   dup_x2  |-> [groups |-> <<2, 1>>, out |-> <<1, 3, 2, 1>>],
   dup2    |-> [groups |-> <<2>>,    out |-> <<2, 1, 2, 1>>],
   dup2_x1 |-> [groups |-> <<1, 2>>, out |-> <<2, 1, 3, 2, 1>>],
   dup2_x2 |-> [groups |-> <<2, 2>>, out |-> <<2, 1, 4, 3, 2, 1>>],
   swap    |-> [groups |-> <<1, 1>>, out |-> <<1, 2>>]]

PreShuffle(s, i) ==
  LET c == StackCode[i.name]
      n == Len(s.stack)
      taken == FoldLeft(LAMBDA a, b : a + b, 0, c.groups)
      first[k \in DOMAIN c.groups] ==
        IF k = 1 THEN n - taken + 1 ELSE first[k - 1] + c.groups[k - 1]
      Whole(k) == IF c.groups[k] = 1 THEN s.stack[first[k]] \notin {Long, Long2}
                  ELSE s.stack[first[k]] # Long2 /\ s.stack[first[k] + 1] # Long
  IN  IF taken <= n /\ \A k \in DOMAIN c.groups : Whole(k)
      THEN {[s EXCEPT !.stack = SubSeq(@, 1, n - taken) \o
                                [k \in DOMAIN c.out |-> s.stack[n + 1 - c.out[k]]]]}
      ELSE {}

PreArithmetic(s, i) ==
  LET n == Len(s.stack) - Len(i.ins)
  IN  IF n >= 0 /\ SubSeq(s.stack, n + 1, Len(s.stack)) = i.ins
      THEN {[s EXCEPT !.stack = SubSeq(@, 1, n) \o i.outs]} ELSE {}

PreIncrement(s, i) ==
  IF i.index < Len(s.regs) /\ s.regs[i.index + 1] = Integer THEN {s} ELSE {}

PreBranch(s, i) == PopKinds(s, Kinds(i.ins), i)

\* check_flags() looks at FLAG_NO_RETURN only where a value is returned.
PreReturn(s, i) ==
  IF i.type = Void
  THEN IF method.ret = Void /\ (method.init => s.constructed) THEN {s} ELSE {}
  ELSE {g \in PopKinds(s, <<Kind(i.type)>>, i) :
          /\ ~s.noReturn
          /\ Assignable(Item(s, <<Kind(i.type)>>, 1), method.ret)}

\* The check of protected fields is commented out.
PreField(s, i) ==
  LET object == IF i.kind \in {"getfield", "putfield"} THEN <<"A">> ELSE <<>>
      put    == i.kind \in {"putfield", "putstatic"}
      kinds  == object \o IF put THEN <<Kind(i.type)>> ELSE <<>>
      Of(x)  == IF x = InitObject THEN Ref(method.class, 0) ELSE x
  IN  {PushWords(g, IF put THEN <<>> ELSE Words(i.type)) :
       g \in {h \in PopKinds(s, kinds, i) :
                /\ object # <<>> => Assignable(Of(Item(s, kinds, 1)), Ref(i.class, 0))
                /\ put => Assignable(Item(s, kinds, Len(kinds)), i.type)}}

Receives(i, x) ==
  /\ Assignable(x, Ref(i.class, 0))
  /\ i.kind = "special" \/ i.protected => Assignable(x, Ref(method.class, 0))

\* The class whose constructor has to be called for x.
Initializes(i, x) ==
  IF IsNew(x) THEN code[x[2]].class = i.class
  ELSE i.class \in {method.class, SuperClass[method.class]}

\* A constructor makes an object of all copies of the reference.
Constructed(g, i, x) ==
  LET to == Ref(IF IsNew(x) THEN i.class ELSE method.class, 0)
  IN  [g EXCEPT !.regs = Substitute(@, x, to), !.stack = Substitute(@, x, to),
                !.constructed = @ \/ x = InitObject]

ReceiverKinds(i) == CASE i.kind = "static" -> <<>> [] i.name = "init" -> <<"@">> [] OTHER -> <<"A">>

PreInvoke(s, i) ==
  LET kinds == ReceiverKinds(i) \o Kinds(i.args)
      n     == Len(ReceiverKinds(i))
      this  == Item(s, kinds, 1)
      good  == {g \in PopKinds(s, kinds, i) :
                  \A k \in DOMAIN i.args :
                    IsRef(i.args[k]) => Assignable(Item(s, kinds, k + n), i.args[k])}
  IN  {PushWords(g, ResultWords(i)) :
       g \in CASE i.kind = "static" -> good
               [] i.name = "init"   -> {Constructed(g, i, this) : g \in {h \in good : Initializes(i, this)}}
               [] OTHER             -> {g \in good : Receives(i, this)}}

\* An object that the same instruction made before can no longer be used.
PreNew(s, i, at) ==
  IF NewAt(at) \in Range(s.stack) THEN {}
  ELSE {PushWords([s EXCEPT !.regs = Substitute(@, NewAt(at), Bogus)], <<NewAt(at)>>)}

PreNewArray(s, i) == ExchangeKinds(s, [k \in 1..i.dims |-> "I"], i, <<i.type>>)

PreThrow(s, i) ==
  {g \in PopKinds(s, <<"O">>, i) : Assignable(Item(s, <<"O">>, 1), ThrowableType)}

\* check_register_values() ... push_stack(), and the limit of the stack.
PreEffect(s, i, at) ==
  {g \in (CASE i.op = "const"      -> {PushWords(s, Words(i.type))}
            [] i.op = "load"       -> PreLoad(s, i)
            [] i.op = "store"      -> PreStore(s, i)
            [] i.op = "arrayload"  -> PreArrayLoad(s, i)
            [] i.op = "arraystore" -> PreArrayStore(s, i)
            [] i.op = "shuffle"    -> PreShuffle(s, i)
            [] i.op = "arith"      -> PreArithmetic(s, i)
            [] i.op = "iinc"       -> PreIncrement(s, i)
            [] i.op \in {"if", "goto", "switch"} -> PreBranch(s, i)
            [] i.op = "return"     -> PreReturn(s, i)
            [] i.op = "field"      -> PreField(s, i)
            [] i.op = "invoke"     -> PreInvoke(s, i)
            [] i.op = "new"        -> PreNew(s, i, at)
            [] i.op = "newarray"   -> PreNewArray(s, i)
            [] i.op = "arraylength" -> ExchangeKinds(s, <<"[?">>, i, <<Integer>>)
            [] i.op = "cast"       -> ExchangeKinds(s, <<"A">>, i, <<i.type>>)
            [] i.op = "instanceof" -> ExchangeKinds(s, <<"A">>, i, <<Integer>>)
            [] i.op = "monitor"    -> PopKinds(s, <<"A">>, i)
            [] i.op = "throw"      -> PreThrow(s, i)) : Len(g.stack) <= MaxStack}

----------------------------------------------------------------------------
(***************************************************************************)
(* merge_into_one_successor(): a state s arrives where a state is known    *)
(* already.  Registers the analysis knows nothing of any more are dropped  *)
(* from the end, and a stack must fit item by item.                        *)
(***************************************************************************)
Unfit(new, old) == {k \in DOMAIN old : k <= Len(new) /\ ~Assignable(new[k], old[k])}

MergeRegisters(new, old) ==
  LET n    == IF Len(old) < Len(new) THEN Len(old) ELSE Len(new)
      from == CHOOSE k \in Unfit(new, old) : \A j \in Unfit(new, old) : k <= j
      set  == [k \in 1..n |-> IF k < from THEN old[k] ELSE MergeTypes(new[k], old[k], FALSE)]
      kept == {k \in 0..n : \A j \in (k + 1)..n : set[j] = Bogus}
  IN  IF Unfit(new, old) = {} THEN SubSeq(old, 1, n)
      ELSE SubSeq(set, 1, CHOOSE k \in kept : \A j \in kept : k <= j)

MergeStack(new, old) ==
  IF Unfit(new, old) = {} THEN old
  ELSE [k \in DOMAIN old |-> MergeTypes(old[k], new[k], FALSE)]

StacksFit(new, old) == Len(new) = Len(old) /\ Bogus \notin Range(MergeStack(new, old))

MergeStates(s, known) ==
  [regs        |-> MergeRegisters(s.regs, known.regs),
   stack       |-> MergeStack(s.stack, known.stack),
   constructed |-> known.constructed /\ s.constructed,
   noReturn    |-> known.noReturn \/ s.noReturn]

\* Mutant: nobody looks again at an instruction whose state was merged.
MergeIntoOneOnce(w, to, s) ==
  IF w.info[to] = Unseen
  THEN [w EXCEPT !.info[to] = s, !.changed = @ \cup {to}]
  ELSE IF StacksFit(s.stack, w.info[to].stack)
  THEN [w EXCEPT !.info[to] = MergeStates(s, w.info[to])]
  ELSE [w EXCEPT !.failed = TRUE]

\* w is what merge_into_successors() has done so far: [info, changed, failed].
MergeIntoOne(w, to, s) ==
  IF w.info[to] = Unseen
  THEN [w EXCEPT !.info[to] = s, !.changed = @ \cup {to}]
  ELSE IF StacksFit(s.stack, w.info[to].stack)
  THEN LET merged == MergeStates(s, w.info[to])
       IN  [w EXCEPT !.info[to] = merged,
                     !.changed = IF merged = w.info[to] THEN @ ELSE @ \cup {to}]
  ELSE [w EXCEPT !.failed = TRUE]

(***************************************************************************)
(* merge_into_successors(): first the handlers around the instruction,     *)
(* which may be entered with the registers from before it, or, if it calls *)
(* a constructor, also with those behind it.                               *)
(***************************************************************************)
CallsConstructor(i) == i.op = "invoke" /\ i.name = "init"

CoveringHandlers(at) ==
  SelectSeq(input.handlers, LAMBDA h : h.start <= at /\ at < h.end)

HandlerStates(s, g, i, h) ==
  LET Caught(x) == [x EXCEPT !.stack = <<h.type>>]
      both == [Caught(s) EXCEPT !.constructed = @ /\ g.constructed, !.noReturn = @ \/ g.noReturn]
      receiver == Item(s, ReceiverKinds(i) \o Kinds(i.args), 1)
  IN  IF ~CallsConstructor(i) THEN <<both>>
      ELSE <<Caught(s), [Caught(g) EXCEPT !.noReturn = @ \/ receiver = InitObject]>>

Successors(at, i) ==
  Targets(i) \cup IF EndsFlow(i) THEN {} ELSE {at + Width(i)}

MergeIntoSuccessors(at, i, g) ==
  LET s == info[at]
      handlers == CoveringHandlers(at)
      arrivals == FlattenSeq([k \in DOMAIN handlers |->
                    [j \in DOMAIN HandlerStates(s, g, i, handlers[k]) |->
                      <<handlers[k].pc, HandlerStates(s, g, i, handlers[k])[j]>>]])
                  \o [k \in 1..Cardinality(Successors(at, i)) |->
                       <<SetToSortSeq(Successors(at, i), <)[k], g>>]
      w0 == [info |-> info, changed |-> changed \ {at}, failed |-> FALSE]
  IN  FoldLeft(LAMBDA w, a : IF a[1] < CodeLength THEN MergeIntoOne(w, a[1], a[2])
                             ELSE [w EXCEPT !.failed = TRUE], w0, arrivals)

----------------------------------------------------------------------------
(* What verify_opcode_operands() checks of an instruction without its state *)

HandlerBounds == UNION {{h.start, h.end, h.pc} : h \in Range(input.handlers)}

\* isLegalTarget(): the bytes in between are no instructions.
NoTargetInside(at, i) ==
  \A b \in (at + 1)..(at + Width(i) - 1) : b \notin HandlerBounds /\ info[b] = Unseen

IsLegalTarget(t) ==
  t < CodeLength /\ \A b \in 0..(t - 1) : code[b] # NoCode => t >= b + Width(code[b])

OperandsFit(i) ==
  CASE i.op \in {"load", "store"} -> i.index + Len(Words(i.type)) <= FrameSize
    [] i.op = "iinc"     -> i.index < FrameSize
    [] i.op = "newarray" -> i.dims > 0 /\ i.dims <= i.type[3]
    [] i.op = "invoke"   ->
         /\ i.name = "init" => i.kind = "special"
         /\ i.kind = "special" /\ i.name # "init" => i.class \in SuperClasses[method.class]
         /\ i.kind = "interface" => i.count = Len(ArgumentWords(i)) + 1
    [] OTHER -> TRUE

WellPlaced(at, i) ==
  /\ at + Width(i) <= CodeLength
  /\ NoTargetInside(at, i)
  /\ \A t \in Targets(i) : IsLegalTarget(t) /\ ~(t > at /\ t < at + Width(i))
  /\ OperandsFit(i)

----------------------------------------------------------------------------
(***************************************************************************)
(* verify_method().  The loop of run_dataflow() goes on from the last      *)
(* instruction it came to, and starts again when there is none behind it.  *)
(***************************************************************************)
PreverifierInit ==
  /\ pre = IF input.preverify THEN "working" ELSE "unused"
  /\ info = [at \in 0..(CodeLength - 1) |->
               IF at = 0 /\ input.preverify
               THEN [regs        |-> ArgumentRegisters(method),
                     stack       |-> <<>>,
                     constructed |-> FALSE,
                     noReturn    |-> FALSE]
               ELSE Unseen]
  /\ changed = {0} /\ targets = {} /\ visited = 0

\* The analysis is over, for better or worse; its tables are freed.
Finish(result) ==
  /\ pre' = result
  /\ info' = [at \in 0..(CodeLength - 1) |-> Unseen]
  /\ changed' = {} /\ targets' = {} /\ visited' = 0

NextChanged ==
  LET ahead == {at \in changed : at > visited}
  IN  Min(IF ahead = {} THEN changed ELSE ahead)

\* One turn of the loop of run_dataflow(), on the instruction at an offset.
PreverifyInstruction ==
  /\ pre = "working" /\ changed # {}
  /\ \E i \in Candidates(NextChanged) :
       LET at    == NextChanged
           after == IF WellPlaced(at, i) THEN PreEffect(info[at], i, at) ELSE {}
           w     == MergeIntoSuccessors(at, i, CHOOSE g \in after : TRUE)
       IN  IF after = {} \/ w.failed
           THEN /\ Finish("rejected")
                /\ code' = [b \in 0..(CodeLength - 1) |-> NoCode]
           ELSE /\ info' = w.info /\ changed' = w.changed
                /\ targets' = targets \cup Targets(i) \cup
                                {h.pc : h \in Range(CoveringHandlers(at))}
                /\ visited' = at
                /\ code' = [code EXCEPT ![at] = i]
                /\ UNCHANGED pre
  /\ UNCHANGED <<input, status, maps, ip, frame, noControlFlow, currentStackMapIndex, derived>>

\* Halves of longs that have lost the other one are not worth an entry.
MapRegisters(regs) ==
  [k \in DOMAIN regs |->
     IF \/ regs[k] = Long  /\ ~(k < Len(regs) /\ regs[k + 1] = Long2)
        \/ regs[k] = Long2 /\ ~(k > 1 /\ regs[k - 1] = Long)
     THEN Bogus ELSE regs[k]]

StackMap(at) == [ip |-> at, frame |-> [locals |-> MapRegisters(info[at].regs),
                                       stack  |-> info[at].stack]]

\* Does every byte of the code belong to an instruction that was visited?
NoDeadCode ==
  LET starts == {b \in 0..(CodeLength - 1) : code[b] # NoCode}
  IN  \A b \in 0..(CodeLength - 1) :
        \E s \in starts : s <= b /\ b < s + Width(code[s])

\* Nothing has changed any more: the stack maps are written, for the VM to load.
EndPreverify ==
  /\ pre = "working" /\ changed = {}
  /\ IF NoDeadCode
     THEN /\ Finish("accepted")
          /\ maps' = [k \in 1..Cardinality(targets) |-> StackMap(SetToSortSeq(targets, <)[k])]
          /\ UNCHANGED code
     ELSE /\ Finish("dead code")
          /\ code' = [b \in 0..(CodeLength - 1) |-> NoCode]
          /\ UNCHANGED maps
  /\ UNCHANGED <<input, status, ip, frame, noControlFlow, currentStackMapIndex, derived>>

PreverifierNext == PreverifyInstruction \/ EndPreverify

============================================================================
