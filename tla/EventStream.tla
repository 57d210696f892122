----------------------------- MODULE EventStream -----------------------------
(***************************************************************************)
(* What events.c promises to the threads that read events: the cells of    *)
(* the events it accepted, each event whole, in order, and every cell to   *)
(* one reader.                                                             *)
(***************************************************************************)
EXTENDS Sequences

CONSTANTS Thread, Event, CellsOf(_), NIL

VARIABLES
    unread,      \* the cells nobody has read yet
    given        \* given[t]: what t's last read answered, NIL before that

vars == <<unread, given>>

\* The device has one event more, or up to two.
OneMore(q) == {q \o CellsOf(e) : e \in Event}
UpToTwoMore(q) == {q} \cup OneMore(q) \cup UNION {OneMore(p) : p \in OneMore(q)}

Init == unread = << >> /\ given = [t \in Thread |-> NIL]

Store == unread' \in OneMore(unread) /\ UNCHANGED given

Read(t) ==
    \E q \in UpToTwoMore(unread) :
        /\ q # << >>
        /\ given' = [given EXCEPT ![t] = Head(q)]
        /\ unread' = Tail(q)

\* A reader that finds nothing has no answer until there is one.
Await(t) ==
    /\ unread = << >>
    /\ given' = [given EXCEPT ![t] = NIL]
    /\ UNCHANGED unread

Next == Store \/ \E t \in Thread : Read(t) \/ Await(t)

Spec == Init /\ [][Next]_vars
=============================================================================
