------------------------------- MODULE AsyncAlone -------------------------------
(***************************************************************************)
(* What one child of a dbp:async sees of it: a dbp:async that has this     *)
(* child only.  The specification of that tag is Async itself, with N = 1. *)
(***************************************************************************)
EXTENDS Async

\* The dbp:async with one child has functions with one value.
One(v) == [k \in 1..1 |-> v]

Reaches(p, o) == \E u \in Touches(p) : u.on = o

\* The shared data as child i sees them: what its text does not name stays as it was.
XOf(i) == IF Reaches(prog[i], "x") THEN x ELSE Given
ListOf(i) ==
    IF Reaches(prog[i], "list") THEN list
    ELSE [elems |-> Start, cap |-> Len(Start) + Spare, gen |-> 0]

\* The caller as child i sees it: it has dealt with the child or not, and when it cannot
\* launch another child it still stands before the second loop.
Collects == parent \in {"collect", "left"}
ParentOf(i) == IF Collects THEN parent ELSE "launch"
NextOf(i) == IF i < next THEN 2 ELSE 1
OutOf(i) == IF Collects /\ i < next THEN text[i] ELSE <<>>

Solo(i) == INSTANCE Async
    WITH N <- 1, prog <- One(prog[i]), parent <- ParentOf(i), next <- NextOf(i),
         out <- OutOf(i), state <- One(state[i]), pc <- One(pc[i]), own <- One(own[i]),
         scopes <- One(scopes[i]), text <- One(text[i]), using <- One(using[i]),
         x <- XOf(i), list <- ListOf(i)

\* tag_async.cpp, lines 43-57: a child that does not interfere by its text with the
\* others runs as if it were the only one, whatever the others do and in whatever order
\* the threads take their steps: each step of the tag is, for that child, a step of a
\* dbp:async with no other child, or none at all.
AsIfAlone ==
    /\ AllTame => \A i \in Children : Solo(i)!Init
    /\ [][AllTame => \A i \in Children : [Solo(i)!Next]_(Solo(i)!vars)]_vars

================================================================================
