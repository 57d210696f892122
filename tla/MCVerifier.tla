---------------------------- MODULE MCVerifier -----------------------------
(***************************************************************************)
(* Methods for TLC.  Each kit is a signature, handlers, the offsets of     *)
(* stack maps and the types they may have, and the instructions a method   *)
(* is made of; TLC tries every method of CodeLength over them.             *)
(***************************************************************************)
EXTENDS Toolchain

MCClasses    == {"Object", "Throwable", "A", "B", "I"}
MCInterfaces == {"I"}
MCSuperClass == [c \in MCClasses |-> CASE c = "Object" -> "none" [] c = "B" -> "A" [] OTHER -> "Object"]
MCImplements == [c \in MCClasses |-> IF c = "B" THEN {"I"} ELSE {}]

AType == Ref("A", 0)
BType == Ref("B", 0)
IType == Ref("I", 0)
MCObjects == {AType, BType, ThrowableType, Ref("A", 1), Ref("B", 1), IntArray}

----------------------------------------------------------------------------
Const(t)      == [op |-> "const", type |-> t]
Load(t, n)    == [op |-> "load", type |-> t, index |-> n]
Store(t, n)   == [op |-> "store", type |-> t, index |-> n]
Shuffle(n)    == [op |-> "shuffle", name |-> n]
Arith(a, b)   == [op |-> "arith", ins |-> a, outs |-> b]
Inc(n)        == [op |-> "iinc", index |-> n]
If(ts, n)     == [op |-> "if", ins |-> ts, targets |-> {n}]
Goto(n)       == [op |-> "goto", ins |-> <<>>, targets |-> {n}]
Switch(ns)    == [op |-> "switch", ins |-> <<Integer>>, targets |-> ns]
Returns(t)    == [op |-> "return", type |-> t]
Field(k, c, t) == [op |-> "field", kind |-> k, class |-> c, type |-> t,
                   protected |-> FALSE, declared |-> TRUE]
Invoke(k, c, n, as, r) ==
  [op |-> "invoke", kind |-> k, class |-> c, name |-> n, args |-> as, ret |-> r,
   protected |-> FALSE, count |-> Len(FlattenSeq([j \in DOMAIN as |-> Words(as[j])])) + 1]
New(c)        == [op |-> "new", class |-> c]
NewArray(t, d) == [op |-> "newarray", type |-> t, dims |-> d]
ALoad(t)      == [op |-> "arrayload", type |-> t]
AStore(t)     == [op |-> "arraystore", type |-> t]
ArrayLength   == [op |-> "arraylength"]
Cast(t)       == [op |-> "cast", type |-> t]
InstanceOf(t) == [op |-> "instanceof", type |-> t]
Monitor       == [op |-> "monitor"]
Athrow        == [op |-> "throw"]

Method(length, size, stackSize) ==
  [static |-> TRUE, init |-> FALSE, class |-> "B", args |-> <<>>, ret |-> Void,
   overridesFinal |-> FALSE, codeLength |-> length, frameSize |-> size, maxStack |-> stackSize]
Constructor(length, size, stackSize) ==
  [Method(length, size, stackSize) EXCEPT !.static = FALSE, !.init = TRUE]

Frame(ls, st)       == [locals |-> ls, stack |-> st]
Handler(a, b, h, t) == [start |-> a, end |-> b, pc |-> h, type |-> t]
NoHandler    == <<>>

\* Longs, their halves, and the stack instructions.
Longs ==
  [preverify |-> FALSE, method |-> [Method(5, 3, 5) EXCEPT !.args = <<Long>>],
   handlers |-> NoHandler, offsets |-> <<>>, frames |-> {},
   instructions |-> {Const(Integer), Load(Long, 0), Store(Long, 0), Store(Long, 1), Store(Integer, 1),
                     Const(Null), Returns(Void)}
                    \cup {Shuffle(n) : n \in DOMAIN Shuffles}]

\* Objects that are made, stored and kept across branches before they are initialized.
NewObjects ==
  [preverify |-> FALSE, method |-> Method(11, 1, 2), handlers |-> NoHandler, offsets |-> <<6>>,
   frames |-> {Frame(<<>>, <<>>), Frame(<<NewAt(0)>>, <<>>), Frame(<<AType>>, <<>>), Frame(<<>>, <<NewAt(0)>>)},
   instructions |-> {New("A"), Shuffle("dup"), Invoke("special", "A", "init", <<>>, Void),
                     Store(Reference, 0), Load(Reference, 0), If(<<Reference>>, 6),
                     Field("putstatic", "A", AType), Returns(Void)}]

\* A constructor that may call another one on several paths.
Constructors ==
  [preverify |-> FALSE, method |-> [Constructor(10, 2, 2) EXCEPT !.args = <<Integer>>],
   handlers |-> NoHandler, offsets |-> <<6>>,
   frames |-> {Frame(<<InitObject, Integer>>, <<>>), Frame(<<BType>>, <<>>), Frame(<<>>, <<>>)},
   instructions |-> {Load(Reference, 0), Load(Integer, 1), If(<<Integer>>, 6),
                     Invoke("special", "A", "init", <<>>, Void), Field("putfield", "B", Integer),
                     Const(Null), Store(Reference, 0), Returns(Void)}]

\* A constructor that assigns fields of its own class, of the superclass and of
\* a class it has nothing to do with, before and after it calls another one.
ForeignFields ==
  [preverify |-> FALSE, method |-> Constructor(12, 1, 2), handlers |-> NoHandler, offsets |-> <<>>, frames |-> {},
   instructions |-> {Load(Reference, 0), Const(Integer), Invoke("special", "A", "init", <<>>, Void), Returns(Void)}
                    \cup {Field("putfield", c, Integer) : c \in {"B", "A", "Throwable"}}
                    \cup {[Field("putfield", c, Integer) EXCEPT !.declared = FALSE] : c \in {"B", "Throwable"}}]

\* Arrays, casts and what they may hold.
Arrays ==
  [preverify |-> FALSE, method |-> [Method(6, 2, 3) EXCEPT !.args = <<Ref("A", 1), AType>>, !.ret = AType],
   handlers |-> NoHandler, offsets |-> <<>>, frames |-> {},
   instructions |-> {Load(Reference, 0), Load(Reference, 1), Const(Integer), ALoad(Reference),
                     AStore(Reference), ArrayLength, Cast(BType), Cast(Ref("B", 1)),
                     InstanceOf(IType), NewArray(IntArray, 1), ALoad(Integer), AStore(Integer),
                     Monitor, Returns(AType)}]

\* Calls and fields inside a try block, and the handler behind it.
Calls ==
  [preverify |-> FALSE, method |-> [Method(9, 2, 3) EXCEPT !.args = <<AType>>],
   handlers |-> <<Handler(0, 4, 6, ThrowableType)>>, offsets |-> <<6>>,
   frames |-> {Frame(<<AType, Bogus>>, <<ThrowableType>>), Frame(<<Bogus, AType>>, <<ThrowableType>>)},
   instructions |-> {Load(Reference, 0), Store(Reference, 0), Store(Reference, 1), Const(Integer),
                     Invoke("virtual", "A", "foo", <<Integer>>, Long), Invoke("static", "A", "make", <<>>, AType),
                     Invoke("interface", "I", "bar", <<>>, IType),
                     Athrow, Shuffle("pop2"), Returns(Void)}]

\* Loops, with an object that is made in front of one or inside.
Loops ==
  [preverify |-> FALSE, method |-> [Method(8, 2, 2) EXCEPT !.args = <<Integer>>],
   handlers |-> NoHandler, offsets |-> <<2, 6>>,
   frames |-> {Frame(<<Integer>>, <<>>), Frame(<<Integer, NewAt(0)>>, <<>>), Frame(<<Integer, AType>>, <<>>)},
   instructions |-> {Load(Integer, 0), Inc(0), Arith(<<Integer, Integer>>, <<Integer>>), Store(Integer, 0),
                     Store(Reference, 1), Const(Null), If(<<Integer>>, 6), Goto(2), Switch({2, 6}), New("A"),
                     Invoke("static", "A", "make", <<>>, AType), Returns(Void)}]

\* A try block around a call, behind which control flow joins without the local
\* that the handler uses.
TryBlock ==
  [preverify |-> FALSE, method |-> Method(10, 1, 1), handlers |-> <<Handler(6, 8, 9, ThrowableType)>>, offsets |-> <<8, 9>>,
   frames |-> {Frame(<<>>, <<>>), Frame(<<AType>>, <<ThrowableType>>)},
   instructions |-> {Invoke("static", "A", "make", <<>>, AType), Invoke("static", "A", "run", <<>>, Void),
                     Store(Reference, 0), Const(Integer), If(<<Integer>>, 8), Returns(Void)}]

----------------------------------------------------------------------------
\* Kits for methods that the preverifier processes first; it writes the stack maps.
Preverified(m, hs, is) ==
  [preverify |-> TRUE, method |-> m, handlers |-> hs, offsets |-> <<>>, frames |-> {}, instructions |-> is]

\* Objects of several classes, and null, meet in a local and on the stack.
Joins ==
  Preverified([Method(8, 2, 2) EXCEPT !.args = <<BType, AType>>, !.ret = AType], NoHandler,
    {Load(Reference, 0), Load(Reference, 1), Store(Reference, 0), Const(Null),
     If(<<Reference>>, 5), Goto(5), Returns(AType)})

\* A loop whose locals change their types.
JoinsInLoop ==
  Preverified([Method(9, 2, 2) EXCEPT !.args = <<Integer>>], NoHandler,
    {Load(Integer, 0), Store(Integer, 1), Store(Reference, 1), Load(Reference, 1), Const(Null), Cast(AType),
     If(<<Integer>>, 1), If(<<Reference>>, 1), Goto(3), Returns(Void)})

\* Locals change inside a try block, and one may be a half of a long.
JoinsInHandler ==
  Preverified([Method(8, 2, 2) EXCEPT !.args = <<AType>>], <<Handler(1, 5, 6, ThrowableType)>>,
    {Const(Long), Store(Long, 0), Const(Null), Store(Reference, 0), Store(Reference, 1),
     Load(Reference, 0), Load(Reference, 1), Shuffle("pop"), Athrow, Returns(Void)})

\* The argument of a constructor depends on a condition.
JoinsInConstructor ==
  Preverified([Constructor(11, 2, 3) EXCEPT !.args = <<Integer>>], NoHandler,
    {Load(Reference, 0), Load(Integer, 1), If(<<Integer>>, 6), If(<<Integer>>, 9), Goto(7), Const(Integer),
     Invoke("special", "A", "init", <<Integer>>, Void), Invoke("special", "A", "init", <<>>, Void),
     Field("putfield", "B", Integer), Returns(Void)})

\* The same for an object that is made, in a try block or a loop.
JoinsWithNew ==
  Preverified([Method(13, 1, 3) EXCEPT !.args = <<Integer>>], <<Handler(0, 10, 12, ThrowableType)>>,
    {New("A"), Shuffle("dup"), Load(Integer, 0), If(<<Integer>>, 9), Goto(10), Goto(0),
     Invoke("special", "A", "init", <<Integer>>, Void), Returns(Void)})

\* Arrays of different classes and dimensions.
JoinsOfArrays ==
  Preverified([Method(9, 2, 3) EXCEPT !.args = <<Ref("A", 1), Ref("B", 1)>>, !.ret = AType], NoHandler,
    {Load(Reference, 0), Load(Reference, 1), Store(Reference, 0), Const(Integer), NewArray(IntArray, 1),
     ALoad(Reference), If(<<Reference>>, 5), Returns(AType)})

MCInputs == {Longs, NewObjects, Constructors, ForeignFields, Arrays, Calls, Loops,
             Joins, JoinsInLoop, JoinsInHandler, JoinsInConstructor, JoinsWithNew, JoinsOfArrays}
TryBlocks == {TryBlock}
OnlyForeignField ==
  {[ForeignFields EXCEPT !.instructions = {i \in @ : i.op = "field" => i.class = "Throwable"}]}
============================================================================
