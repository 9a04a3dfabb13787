------------------------------ MODULE AsyncInTurn ------------------------------
(***************************************************************************)
(* The reference for the output of dbp:async: the children executed one    *)
(* after the other, each from its first tag to its last as the language    *)
(* says, without threads.                                                  *)
(***************************************************************************)
EXTENDS Async

\* The outputs of the first n children, one after the other.
Gathered(ts) ==
    LET g[n \in Nat] == IF n = 0 THEN <<>> ELSE g[n - 1] \o ts[n] IN g

\* What the execution of a tag reads and changes: the output, the variables declared
\* around it, the element, whether an exception is on its way, and the shared data.
Env == [out : Seq(Values), own : Seq(Values), elem : Seq(Values), threw : BOOLEAN,
        x : Values, list : Seq(Values)]

Without(l, v) == [j \in 1..(Len(l) - 1) |-> IF j <= v THEN l[j] ELSE l[j + 1]]

\* The content of a dbp:list_elements, once for each element of l behind position a.
Each(content, l, a, e) ==
    LET each[j \in Nat] == IF j = 0 THEN e
                           ELSE content[[each[j - 1] EXCEPT !.elem = <<l[a + j]>>]]
    IN  each

\* Tag c with the content that it has.
Execute(c, content, e) ==
    CASE c.tag = "get" ->
           content[[e EXCEPT !.out = Append(@, IF e.own = <<>> THEN e.x
                                               ELSE e.own[Len(e.own)])]]
      [] c.tag = "set" ->
           content[IF e.own = <<>> THEN [e EXCEPT !.x = c.arg]
                   ELSE [e EXCEPT !.own = [@ EXCEPT ![Len(e.own)] = c.arg]]]
      [] c.tag = "var" ->
           LET d == content[[e EXCEPT !.own = Append(@, c.arg)]]
           IN  [d EXCEPT !.own = SubSeq(@, 1, Len(e.own))]
      [] c.tag = "value" -> content[[e EXCEPT !.out = @ \o e.elem]]
      [] c.tag = "add" -> content[[e EXCEPT !.list = Append(@, c.arg)]]
      [] c.tag = "remove" -> content[[e EXCEPT !.list = Without(@, c.arg)]]
      [] c.tag = "element" /\ c.arg < Len(e.list) ->
           content[[e EXCEPT !.elem = <<e.list[c.arg + 1]>>]]
      [] c.tag = "elements" -> Each(content, e.list, 0, e)[Len(e.list)]
      [] OTHER -> [e EXCEPT !.threw = TRUE]

\* The last n tags of spine p; an exception leaves them all.
Run(p) ==
    LET run[n \in Nat] ==
          IF n = 0 THEN [e \in Env |-> e]
          ELSE [e \in Env |-> IF e.threw THEN e
                              ELSE Execute(p[Len(p) - n + 1], run[n - 1], e)]
    IN  run

\* Spine p executed where the shared data are y and l, and what it gives: what a child
\* that throws has written is dropped.
Alone(p, y, l) ==
    Run(p)[Len(p)][[out |-> <<>>, own |-> <<>>, elem |-> <<>>, threw |-> FALSE,
                    x |-> y, list |-> l]]
Output(e) == IF e.threw THEN <<>> ELSE e.out

\* The first n of the children pp in turn: each finds the shared data as those before it
\* have left them.
InTurn(pp) ==
    LET turn[n \in Nat] ==
          IF n = 0 THEN [out |-> <<>>, x |-> Given, list |-> Start]
          ELSE LET e == Alone(pp[n], turn[n - 1].x, turn[n - 1].list)
               IN  [out |-> turn[n - 1].out \o Output(e), x |-> e.x, list |-> e.list]
    IN  turn

--------------------------------------------------------------------------------
(* Properties *)

\* tag_async.cpp, lines 55-57: the output is that of the children that the second loop
\* has passed, complete and in the order of the document, whichever ended first; a child
\* does not write after its result was taken, and a tag that throws gives no output.
InOrder ==
    out = IF parent \in {"collect", "left"} THEN Gathered(text)[next - 1] ELSE <<>>

\* tag_async.cpp, lines 43-57: children that do not interfere give what they give one
\* after the other, in the order of the document and whichever ends first; the exception
\* of one drops its own output only.
AsIfInTurn ==
    AllTame /\ parent = "left" => out = InTurn(prog)[N].out

================================================================================
