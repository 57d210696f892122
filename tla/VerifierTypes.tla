--------------------------- MODULE VerifierTypes ---------------------------
(***************************************************************************)
(* The types the class file verifier computes with (class.h, fields.h) and *)
(* what may be assigned to what (class.c, verifierUtil.c).  A VERIFIERTYPE *)
(* is a 16-bit key; here it is a tuple whose length tells the three ranges *)
(* of keys apart: the small item codes, objects a NEW instruction made and *)
(* nobody has initialized yet, and class keys.                             *)
(***************************************************************************)
EXTENDS Naturals, Sequences

CONSTANTS Classes,      \* names of the loaded classes, interfaces included
          Interfaces,   \* those with ACC_INTERFACE
          SuperClass,   \* [Classes -> Classes \cup {NoClass}]
          Implements    \* [Classes -> SUBSET Interfaces], what a class lists itself

ASSUME ClassesAssumption ==
  /\ {"Object", "Throwable"} \subseteq Classes
  /\ Interfaces \subseteq Classes \ {"Object", "Throwable"}
  /\ SuperClass["Object"] = "none"
  /\ \A c \in Classes \ {"Object"} : SuperClass[c] \in Classes \ Interfaces
  /\ \A c \in Classes : Implements[c] \subseteq Interfaces \ {c}

Bogus      == <<"Bogus">>
Integer    == <<"Integer">>
Long       == <<"Long">>
Long2      == <<"Long_2">>
Null       == <<"Null">>
Void       == <<"Void">>             \* result of a method that has none
InitObject == <<"InitObject">>       \* "this" before the constructor of the superclass
Reference  == <<"Reference">>        \* ITEM_Reference: any object, also uninitialized

\* The type of the object the NEW instruction at ip makes; a class key: a class,
\* or an array of dimension d of classes or of a primitive type.
NewAt(ip)   == <<"New", ip>>
Ref(c, d)   == <<"Ref", c, d>>
IntArray    == Ref("int", 1)
LongArray   == Ref("long", 1)
ObjectType  == Ref("Object", 0)
ThrowableType == Ref("Throwable", 0)

IsNew(t)   == Len(t) = 2
IsRef(t)   == Len(t) = 3
IsArray(t) == IsRef(t) /\ t[3] > 0

\* change_Field_to_StackType(): the words a value of a field type takes.
Words(t) == IF t = Long THEN <<Long, Long2>> ELSE <<t>>

\* getReferenceArrayElementType() and getClassArrayVerifierType().
ElementType(t) == IF t = Null THEN Null ELSE Ref(t[2], t[3] - 1)
ArrayOf(t)     == Ref(t[2], t[3] + 1)

----------------------------------------------------------------------------
(***************************************************************************)
(* A class and its superclasses; an interface and what it extends.         *)
(***************************************************************************)
SuperClasses[c \in Classes] ==
  {c} \cup (IF c = "Object" THEN {} ELSE SuperClasses[SuperClass[c]])

ImplementsInterface[c \in Classes, i \in Interfaces] ==
  \/ c = i
  \/ \E j \in Implements[c] : ImplementsInterface[j, i]
  \/ c # "Object" /\ ImplementsInterface[SuperClass[c], i]

(***************************************************************************)
(* isAssignableTo(): elements of object arrays are compared in turn.       *)
(***************************************************************************)
IsAssignableTo[from \in Classes \X (0..3), to \in Classes \X (0..3)] ==
  \/ from = to
  \/ to = <<"Object", 0>>
  \/ from[2] > 0 /\ to[2] > 0
     /\ IsAssignableTo[<<from[1], from[2] - 1>>, <<to[1], to[2] - 1>>]
  \/ from[2] = 0 /\ to[2] = 0
     /\ IF to[1] \in Interfaces
        THEN ImplementsInterface[from[1], to[1]]
        ELSE from[1] \notin Interfaces /\ to[1] \in SuperClasses[from[1]]

\* The same on class keys, which may be arrays of a primitive type.
KeyAssignable(from, to) ==
  \/ from = to
  \/ to = ObjectType
  \/ /\ from[2] \in Classes /\ to[2] \in Classes
     /\ IsAssignableTo[<<from[2], from[3]>>, <<to[2], to[3]>>]
  \/ \* an array of arrays of a primitive type is an array of objects
     /\ from[2] \notin Classes /\ to[2] = "Object" /\ from[3] > to[3]

IsInterfaceKey(t) == t[3] = 0 /\ t[2] \in Interfaces

(***************************************************************************)
(* vIsAssignable() and the merged type it returns: an interface is taken   *)
(* for java.lang.Object.                                                   *)
(***************************************************************************)
VIsAssignable(from, to) ==
  \/ from = to
  \/ to = Bogus
  \/ to = Reference /\ (from \in {Null, InitObject} \/ IsNew(from) \/ IsRef(from))
  \/ from = Null /\ IsRef(to)
  \/ IsRef(from) /\ IsRef(to) /\ (KeyAssignable(from, to) \/ IsInterfaceKey(to))

Merged(from, to) ==
  IF from # to /\ IsRef(from) /\ IsRef(to) /\ IsInterfaceKey(to) THEN ObjectType ELSE to

============================================================================
