---------------------------- MODULE MCCollector ----------------------------
(***************************************************************************)
(* Heaps for TLC.                                                          *)
(***************************************************************************)
EXTENDS Collector, TLC

\* Graphs: a binary tree of six objects whose addresses are permuted, so that
\* it is followed upwards and downwards in every combination, with a weak
\* object that refers to the tree and to a dead object, and a monitor.
Tree == [o \in 1..6 |-> CASE o = 1 -> <<2, 3>> [] o = 2 -> <<4, 5, 6>>
                          [] o = 3 -> <<6, 4>> [] OTHER -> << >>]

Permuted(p) ==
    LET N(x) == IF x <= 6 THEN p[x] ELSE x
        Old(y) == CHOOSE x \in 1..8 : N(x) = y
        Image(s) == [i \in DOMAIN s |-> N(s[i])]
    IN [n |-> 8, roots |-> {N(1)},
        kids |-> [y \in 1..8 |-> IF Old(y) <= 6 THEN Image(Tree[Old(y)]) ELSE << >>],
        leaves |-> [y \in 1..8 |-> IF Old(y) = 5 THEN {7} ELSE {}],
        weak |-> [y \in 1..8 |-> IF Old(y) = 6 THEN <<N(2), 8>> ELSE << >>],
        size |-> [y \in 1..8 |-> 2 + (y % 2)],
        requests |-> {0, 100}, allocates |-> {}]

Graphs == {Permuted(p) : p \in Permutations(1..6)}

\* Layouts: dead and live objects in turn, of all sizes, all live ones roots.
Layout(s, first) ==
    LET n == Len(s)
        live == {o \in 1..n : (o % 2 = 0) = first}
    IN [n |-> n, roots |-> live,
        kids |-> [o \in 1..n |-> << >>], leaves |-> [o \in 1..n |-> {}],
        weak |-> [o \in 1..n |-> << >>],
        size |-> s, requests |-> {100}, allocates |-> {}]

Layouts(n, dead, alive) ==
    {Layout([o \in 1..n |-> IF o % 2 = 1 THEN s[1][(o + 1) \div 2] ELSE s[2][o \div 2]],
            TRUE) :
        s \in [1..((n + 1) \div 2) -> dead] \X [1..(n \div 2) -> alive]}

\* Small heaps in which memory is allocated afterwards.
Free(s, first) == [Layout(s, first) EXCEPT !.requests = {0, 100}, !.allocates = {2, 3}]

\* Nothing is garbage.
Full == [Layout(<<2, 3>>, TRUE) EXCEPT !.roots = {1, 2}]

AllHeaps ==
    {Full} \cup
    Graphs \cup Layouts(7, {2, 4}, {2, 7}) \cup Layouts(11, {2}, {2, 3})
    \cup Layouts(10, {2}, {2, 3})
    \cup {Free(s, first) : s \in [1..4 -> {2, 3}], first \in BOOLEAN}
=============================================================================
