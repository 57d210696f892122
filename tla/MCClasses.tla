----------------------------- MODULE MCClasses -----------------------------
(***************************************************************************)
(* The life of a class, for TLC: its loading, which no Java thread         *)
(* interrupts, and its initialization, which several threads take part in. *)
(* Loading ends where initialization begins, so that a behaviour is about  *)
(* one of them.                                                            *)
(***************************************************************************)
EXTENDS ClassInit, ClassFiles, TLC

CONSTANTS t1, t2, t3, O, A, B, C, I, Kinds

VARIABLE kind

(***************************************************************************)
(* Class files: java.lang.Object, classes A and B, and I, which others     *)
(* name as an interface.                                                   *)
(***************************************************************************)
AllClasses == {O, A, B, I}

File(s, ifaces, flags, fields) ==
    [superClass |-> s, interfaces |-> ifaces, flags |-> flags, package |-> "p",
     fields |-> fields, outcomes |-> {"read"}]

\* A and B may extend each other; B may name I and A as interfaces, which may
\* be none, and I itself and B.
Sound ==
    {O :> File(NIL, << >>, {"PUBLIC"}, 1) @@ A :> a @@ B :> b @@ I :> i :
        a \in {File(s, << >>, {}, 2) : s \in {O, B, NIL}},
        b \in {File(s, f, {}, 1) : s \in {O, A, I}, f \in {<< >>, <<I>>, <<I, A>>}},
        i \in {File(s, f, {"INTERFACE"}, 0) : s \in {O, A}, f \in {<< >>, <<I>>, <<B>>}}
                \cup {File(s, << >>, {}, 0) : s \in {O, A}}}

Regular == {p \in Sound : "INTERFACE" \in p[I].flags /\ p[I].superClass = O
                           /\ p[A].superClass = O}

\* One file is missing at times, or cannot be read.
WithFlaw(p, c, o) == [p EXCEPT ![c].outcomes = @ \cup o]
Flawed ==
    {WithFlaw(p, c, {"missing", "early", "late"}) :
        p \in {q \in Regular : q[I].interfaces = << >>}, c \in {A, I}}

\* Packages and flags matter: B is not accessible, or final.
AnyPath == CHOOSE p \in Regular : TRUE
Hidden ==
    {[AnyPath EXCEPT ![A] = [@ EXCEPT !.superClass = B, !.package = "q"],
                     ![B] = [@ EXCEPT !.flags = f, !.superClass = O]] :
        f \in {{}, {"PUBLIC"}, {"PUBLIC", "FINAL"}}}

Restricted == {WithFlaw(p, A, {"restricted"}) : p \in Regular}

AllPaths == Sound \cup Flawed \cup Hidden \cup Restricted
FlawedPaths == Flawed

(***************************************************************************)
(* Programs: a superclass A with subclass B, and C; three threads.         *)
(***************************************************************************)
ThreeThreads == {t1, t2, t3}
ThreeClasses == {A, B, C}

Nothing == [c \in ThreeClasses |-> {}]

\* B extends A.  A, B and C have a <clinit>.
Plain ==
    [superClass |-> [c \in ThreeClasses |-> IF c = B THEN A ELSE NIL],
     hasClinit |-> {A, B, C}, uses |-> Nothing, fails |-> {}, catches |-> {},
     unverifiable |-> {}, room |-> [t \in ThreeThreads |-> 7],
     interruptible |-> {}, lockers |-> {}]

\* The initializer of A uses its subclass B and those of B and C each other.
Circles == [Plain EXCEPT !.uses = (A :> {B} @@ B :> {C} @@ C :> {B})]

\* Any <clinit> may fail, and that of B, which uses C, may catch.
Failing == [Plain EXCEPT !.fails = {A, C}, !.catches = {B},
                         !.uses = (A :> {C} @@ B :> {C} @@ C :> {})]

\* B has no <clinit>, C fails verification.
Rejected == [Plain EXCEPT !.hasClinit = {A}, !.fails = {A},
                          !.unverifiable = {C}, !.uses[A] = {C}]

\* t2 has no room for the frames it needs.
Overflowing == [Plain EXCEPT !.room[t2] = 3, !.uses[B] = {C}, !.catches = {B}]

\* t2 locks class objects.
Locking == [Plain EXCEPT !.hasClinit = {A, B}, !.fails = {A}, !.catches = {B},
                         !.uses[A] = {C}, !.lockers = {t2}]

\* Others interrupt t2.
Interrupting == [Plain EXCEPT !.hasClinit = {A}, !.fails = {A},
                              !.interruptible = {t2}]

AllPrograms ==
    {Plain, Circles, Failing, Rejected, Overflowing, Locking, Interrupting}

(***************************************************************************)
(* Both.                                                                   *)
(***************************************************************************)
allVars == <<vars, loadVars, kind>>

MCInit ==
    /\ kind \in Kinds
    /\ Loads!Init /\ (kind = "initialization" => classPath = AnyPath)
    /\ Init /\ (kind = "loading" => program = Plain)

MCNext ==
    /\ \/ kind = "loading" /\ Loads!Next /\ UNCHANGED vars
       \/ kind = "initialization" /\ Next /\ UNCHANGED loadVars
    /\ UNCHANGED kind

MCSpec == MCInit /\ [][MCNext]_allVars

MCFairSpec ==
    /\ MCSpec
    /\ WF_allVars(Loads!LoadClassfile /\ UNCHANGED <<vars, kind>>)
    /\ WF_allVars(kind = "initialization" /\ ContinueAny /\ UNCHANGED <<loadVars, kind>>)

BothKinds == {"loading", "initialization"}
OnlyLoading == {"loading"}
=============================================================================
