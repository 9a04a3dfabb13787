---------------------------------- MODULE Async ----------------------------------
(***************************************************************************)
(* dbp:async (tag_async.cpp): every child runs in a thread and in a local  *)
(* context of its own, whose parent is the one context of the caller.  The *)
(* children share what they find there: a variable and a dbp:list          *)
(* (tag_list.cpp), which have no lock.                                     *)
(*                                                                         *)
(* A child is a spine of tags: dbp:var, dbp:list_element and               *)
(* dbp:list_elements contain the rest of it.  An access to shared data     *)
(* takes two steps, the begin of the access and its effect, so that two    *)
(* threads can be in it at once; a data race and the use of an invalid     *)
(* iterator are undefined behaviour, after which nothing is said.          *)
(***************************************************************************)
EXTENDS Naturals, Sequences, FiniteSets

CONSTANTS
    N,          \* children of the dbp:async
    Programs,   \* the spines a child may be
    Values,     \* texts
    Given,      \* the shared variable when the dbp:async begins
    Start,      \* what the list holds when the dbp:async begins
    Spare       \* how many elements more fit into its storage

Tags == {"get", "set", "var", "throw", "log", "add", "remove", "element", "elements",
         "value"}

ASSUME AsyncAssumption ==
    /\ N \in Nat /\ Spare \in Nat
    /\ Given \in Values /\ Start \in Seq(Values)
    /\ Programs \subseteq Seq([tag : Tags, arg : Values \cup Nat])
    \* variables and elements hold texts, elements have numbers
    /\ \A p \in Programs : \A k \in 1..Len(p) :
         /\ p[k].tag \in {"set", "var", "add"} => p[k].arg \in Values
         /\ p[k].tag \in {"remove", "element"} => p[k].arg \in Nat

Children == 1..N

VARIABLES
    prog,       \* what the children are
    parent,     \* where tag_async::execute is
    next,       \* the child it launches, or whose future it waits for
    out,        \* its output
    state,      \* of the threads
    pc,         \* the tag a child is at
    own,        \* the variables that each dbp:var the child is inside has declared
    scopes,     \* the dbp:list_element(s) the child is inside
    text,       \* _out of the child, then its result
    using,      \* the access a child is in
    x,          \* the shared variable
    list,       \* the shared vector: elements, capacity, reallocations
    undefined   \* behaviour is undefined from here on

frame == <<parent, next, out>>
shared == <<x, list>>
vars == <<prog, frame, state, pc, own, scopes, text, using, shared, undefined>>

\* vars: how many variables of the child are declared around the tag.
Scope == [pc : Nat, loop : BOOLEAN, pos : Nat, gen : Nat, value : Values, vars : Nat]

Access == [on : {"x", "list"}, write : BOOLEAN]

TypeOK ==
    /\ prog \in [Children -> Programs]
    /\ parent \in {"launch", "collect", "unwind", "left", "thrown"}
    /\ next \in 1..(N + 1)
    /\ out \in Seq(Values)
    /\ state \in [Children -> {"none", "running", "ended"}]
    /\ pc \in [Children -> Nat \ {0}]
    /\ own \in [Children -> Seq(Values)]
    /\ scopes \in [Children -> Seq(Scope)]
    /\ text \in [Children -> Seq(Values)]
    /\ using \in [Children -> SUBSET Access]
    /\ x \in Values
    /\ list \in [elems : Seq(Values), cap : Nat, gen : Nat]
    /\ undefined \in BOOLEAN

Init ==
    /\ prog \in [Children -> Programs]
    /\ parent = "launch" /\ next = 1 /\ out = <<>>
    /\ state = [i \in Children |-> "none"]
    /\ pc = [i \in Children |-> 1]
    /\ own = [i \in Children |-> <<>>]
    /\ scopes = [i \in Children |-> <<>>]
    /\ text = [i \in Children |-> <<>>]
    /\ using = [i \in Children |-> {}]
    /\ x = Given
    /\ list = [elems |-> Start, cap |-> Len(Start) + Spare, gen |-> 0]
    /\ undefined = FALSE

--------------------------------------------------------------------------------
(* The thread of the caller *)

\* futures.push_back(std::async(...))
Launch ==
    /\ ~undefined /\ parent = "launch" /\ next <= N
    /\ state' = [state EXCEPT ![next] = "running"]
    /\ next' = next + 1
    /\ UNCHANGED <<prog, parent, out, pc, own, scopes, text, using, shared, undefined>>

\* Mutant: the threads that were launched are left to themselves.
LaunchFailsDetached ==
    /\ ~undefined /\ parent = "launch" /\ next <= N
    /\ parent' = "thrown"
    /\ UNCHANGED <<prog, next, out, state, pc, own, scopes, text, using, shared, undefined>>

\* std::async throws: the system has no thread left.
LaunchFails ==
    /\ ~undefined /\ parent = "launch" /\ next <= N
    /\ parent' = "unwind"
    /\ UNCHANGED <<prog, next, out, state, pc, own, scopes, text, using, shared, undefined>>

\* Mutant: the second loop begins before the first future.
AllLaunchedEarly ==
    /\ ~undefined /\ parent = "launch" /\ next = N + 1
    /\ parent' = "collect" /\ next' = 0
    /\ UNCHANGED <<prog, out, state, pc, own, scopes, text, using, shared, undefined>>

AllLaunched ==
    /\ ~undefined /\ parent = "launch" /\ next = N + 1
    /\ parent' = "collect" /\ next' = 1
    /\ UNCHANGED <<prog, out, state, pc, own, scopes, text, using, shared, undefined>>

\* Mutant: the outputs come in the order in which the children end.
CollectAny ==
    /\ ~undefined /\ parent = "collect" /\ next <= N
    /\ \E i \in Children :
         /\ state[i] = "ended"
         /\ out' = out \o text[i]
         /\ state' = [state EXCEPT ![i] = "none"]
    /\ next' = next + 1
    /\ UNCHANGED <<prog, parent, pc, own, scopes, text, using, shared, undefined>>

\* out << f.get()
Collect ==
    /\ ~undefined /\ parent = "collect" /\ next <= N
    /\ state[next] = "ended"
    /\ out' = out \o text[next]
    /\ next' = next + 1
    /\ UNCHANGED <<prog, parent, state, pc, own, scopes, text, using, shared, undefined>>

\* Once all are collected, or after a failed launch, the destructors of the futures
\* wait for the threads.
Leave ==
    /\ ~undefined
    /\ \/ parent = "collect" /\ next = N + 1 /\ parent' = "left"
       \/ /\ parent = "unwind" /\ parent' = "thrown"
          /\ \A i \in Children : i < next => state[i] = "ended"
    /\ UNCHANGED <<prog, next, out, state, pc, own, scopes, text, using, shared, undefined>>

Caller == Launch \/ LaunchFails \/ AllLaunched \/ Collect \/ Leave

--------------------------------------------------------------------------------
(* The threads of the children *)

Tag(i) == prog[i][pc[i]]

Runs(i) == ~undefined /\ state[i] = "running"

At(i, t) == Runs(i) /\ pc[i] <= Len(prog[i]) /\ Tag(i).tag = t
AtEnd(i) == Runs(i) /\ pc[i] = Len(prog[i]) + 1

\* The innermost dbp:list_element(s) of child i.
Inner(i) == scopes[i][Len(scopes[i])]
Outer(i) == SubSeq(scopes[i], 1, Len(scopes[i]) - 1)

\* The child is done with its content and inside a dbp:list_elements.
Loops(i) == AtEnd(i) /\ scopes[i] # <<>> /\ Inner(i).loop

\* What the step of child i reads or writes outside of its own context:
\* context::get_value and set_value search the own layers first.
Uses(i) ==
    IF Loops(i) THEN {[on |-> "list", write |-> FALSE]}
    ELSE IF ~Runs(i) \/ AtEnd(i) THEN {}
    ELSE CASE Tag(i).tag \in {"get", "set"} /\ own[i] = <<>> ->
                {[on |-> "x", write |-> Tag(i).tag = "set"]}
           [] Tag(i).tag \in {"add", "remove", "element", "elements"} ->
                {[on |-> "list", write |-> Tag(i).tag \in {"add", "remove"}]}
           [] OTHER -> {}

\* Undefined behaviour, in the step of child i.
Breaks ==
    /\ undefined' = TRUE
    /\ UNCHANGED <<prog, frame, state, pc, own, scopes, text, using, shared>>

Conflict(S, T) == \E a \in S, b \in T : a.on = b.on /\ (a.write \/ b.write)

\* A thread begins an access; two that conflict are a data race.
Begin(i) ==
    /\ Runs(i) /\ using[i] = {} /\ Uses(i) # {}
    /\ \/ /\ \E j \in Children \ {i} : Conflict(Uses(i), using[j])
          /\ Breaks
       \/ /\ \A j \in Children \ {i} : ~Conflict(Uses(i), using[j])
          /\ using' = [using EXCEPT ![i] = Uses(i)]
          /\ UNCHANGED <<prog, frame, state, pc, own, scopes, text, shared, undefined>>

Ready(i, t) == At(i, t) /\ using[i] = Uses(i)

\* The access of child i is over, and it goes on with tag p.
Goes(i, p) ==
    /\ using' = [using EXCEPT ![i] = {}]
    /\ pc' = [pc EXCEPT ![i] = p]
    /\ UNCHANGED <<prog, frame, undefined>>

\* The catch clause of the lambda: the output of the child is dropped.
Swallowed(i) ==
    /\ state' = [state EXCEPT ![i] = "ended"]
    /\ text' = [text EXCEPT ![i] = <<>>]
    /\ Goes(i, pc[i])
    /\ UNCHANGED <<own, scopes, shared>>

\* Text that contains the variable.
GetValue(i) ==
    /\ Ready(i, "get")
    /\ text' = [text EXCEPT ![i] = Append(@, IF own[i] = <<>> THEN x ELSE own[i][Len(own[i])])]
    /\ Goes(i, pc[i] + 1)
    /\ UNCHANGED <<state, own, scopes, shared>>

\* dbp:set; also a dbp:var around the rest of the child whose type is that of an outer
\* context, which add_value writes into without a lock (left out: such a dbp:var inside
\* of a local one of the same name).
SetValue(i) ==
    /\ Ready(i, "set")
    /\ IF own[i] = <<>>
         THEN x' = Tag(i).arg /\ UNCHANGED own
         ELSE own' = [own EXCEPT ![i][Len(own[i])] = Tag(i).arg] /\ UNCHANGED x
    /\ Goes(i, pc[i] + 1)
    /\ UNCHANGED <<state, scopes, text, list>>

\* Mutant: the child runs in the context of the caller.
VarShared(i) ==
    /\ Ready(i, "var")
    /\ x' = Tag(i).arg
    /\ Goes(i, pc[i] + 1)
    /\ UNCHANGED <<state, own, scopes, text, list>>

\* dbp:var around the rest of the child, of a local variable
Var(i) ==
    /\ Ready(i, "var")
    /\ own' = [own EXCEPT ![i] = Append(@, Tag(i).arg)]
    /\ Goes(i, pc[i] + 1)
    /\ UNCHANGED <<state, scopes, text, shared>>

Throw(i) == Ready(i, "throw") /\ Swallowed(i)

\* dbp:log: the context of a child has no services, get_services_provider()
\* returns NULL.
Log(i) == Ready(i, "log") /\ Breaks

\* dbp:list_add; push_back into full storage moves the elements.
ListAdd(i) ==
    /\ Ready(i, "add")
    /\ LET full == Len(list.elems) = list.cap
       IN  list' = [elems |-> Append(list.elems, Tag(i).arg),
                    cap |-> IF full THEN 2 * list.cap + 1 ELSE list.cap,
                    gen |-> IF full THEN list.gen + 1 ELSE list.gen]
    /\ Goes(i, pc[i] + 1)
    /\ UNCHANGED <<state, own, scopes, text, x>>

\* dbp:list_remove; erase takes any index.
ListRemove(i) ==
    /\ Ready(i, "remove")
    /\ LET n == Tag(i).arg
       IN  \/ /\ n < Len(list.elems)
              /\ list' = [list EXCEPT !.elems = SubSeq(@, 1, n) \o SubSeq(@, n + 2, Len(@))]
              /\ Goes(i, pc[i] + 1)
              /\ UNCHANGED <<state, own, scopes, text, x>>
           \/ n >= Len(list.elems) /\ Breaks

\* The content of a dbp:list_element(s) begins, for the element at p.
Enters(i, loop, p) ==
    /\ scopes' = [scopes EXCEPT ![i] =
                    Append(@, [pc |-> pc[i], loop |-> loop, pos |-> p, gen |-> list.gen,
                               value |-> list.elems[p], vars |-> Len(own[i])])]
    /\ Goes(i, pc[i] + 1)
    /\ UNCHANGED <<state, own, text, shared>>

\* dbp:list_element; at() throws out_of_range.
ListElement(i) ==
    /\ Ready(i, "element")
    /\ LET n == Tag(i).arg
       IN  \/ n < Len(list.elems) /\ Enters(i, FALSE, n + 1)
           \/ n >= Len(list.elems) /\ Swallowed(i)

\* dbp:list_elements: the first element, or none.
ListElements(i) ==
    /\ Ready(i, "elements")
    /\ \/ list.elems # <<>> /\ Enters(i, TRUE, 1)
       \/ /\ list.elems = <<>>
          /\ Goes(i, Len(prog[i]) + 1)
          /\ UNCHANGED <<state, own, scopes, text, shared>>

\* Mutant: the loop tests its iterator and does not move it.
NextElementStays(i) ==
    /\ Loops(i) /\ using[i] = Uses(i)
    /\ Goes(i, Inner(i).pc + 1)
    /\ UNCHANGED <<state, own, scopes, text, shared>>

\* ++it, it != data->end(): the next element, the end of the loop, or an iterator
\* that the storage has moved from under or that has passed the end.  Iterators are
\* pointers in the build, and erase moves elements within the storage: one at or behind
\* the erased element, which the language calls invalid, finds the element that is there
\* now.  The variables that the content has declared end with it.
NextElement(i) ==
    /\ Loops(i) /\ using[i] = Uses(i)
    /\ LET s == Inner(i)
           p == s.pos + 1
           valid == s.gen = list.gen /\ p <= Len(list.elems) + 1
       IN  \/ ~valid /\ Breaks
           \/ /\ valid /\ p = Len(list.elems) + 1
              /\ scopes' = [scopes EXCEPT ![i] = Outer(i)]
              /\ Goes(i, pc[i])
              /\ UNCHANGED <<state, own, text, shared>>
           \/ /\ valid /\ p <= Len(list.elems)
              /\ scopes' = [scopes EXCEPT ![i] =
                              Append(Outer(i), [s EXCEPT !.pos = p, !.value = list.elems[p]])]
              /\ own' = [own EXCEPT ![i] = SubSeq(@, 1, s.vars)]
              /\ Goes(i, s.pc + 1)
              /\ UNCHANGED <<state, text, shared>>

\* The content of a dbp:list_element ends.
LeaveElement(i) ==
    /\ AtEnd(i) /\ scopes[i] # <<>> /\ ~Inner(i).loop
    /\ scopes' = [scopes EXCEPT ![i] = Outer(i)]
    /\ Goes(i, pc[i])
    /\ UNCHANGED <<state, own, text, shared>>

\* Text that contains the value of the element; it has none outside of the tags.
Value(i) ==
    /\ Ready(i, "value")
    /\ text' = IF scopes[i] = <<>> THEN text
               ELSE [text EXCEPT ![i] = Append(@, Inner(i).value)]
    /\ Goes(i, pc[i] + 1)
    /\ UNCHANGED <<state, own, scopes, shared>>

\* return _out.str()
Return(i) ==
    /\ AtEnd(i) /\ scopes[i] = <<>>
    /\ state' = [state EXCEPT ![i] = "ended"]
    /\ Goes(i, pc[i])
    /\ UNCHANGED <<own, scopes, text, shared>>

Child(i) ==
    \/ Begin(i) \/ GetValue(i) \/ SetValue(i) \/ Var(i) \/ Throw(i) \/ Log(i)
    \/ ListAdd(i) \/ ListRemove(i) \/ ListElement(i) \/ ListElements(i)
    \/ NextElement(i) \/ LeaveElement(i) \/ Value(i) \/ Return(i)

\* Nothing happens after the end.
Over == (undefined \/ parent \in {"left", "thrown"}) /\ UNCHANGED vars

Next == Caller \/ (\E i \in Children : Child(i)) \/ Over

\* The system runs every thread.
Fairness == WF_vars(Caller) /\ \A i \in Children : WF_vars(Child(i))

Spec == Init /\ [][Next]_vars /\ Fairness

--------------------------------------------------------------------------------
(* Properties *)

\* The tags before tag k of spine p.
Before(p, k, ts) == {j \in 1..(k - 1) : p[j].tag \in ts}

\* What spine p reads or writes of the shared data, as its text tells.
Touches(p) ==
    {[on |-> "x", write |-> p[k].tag = "set"] :
        k \in {k \in 1..Len(p) : p[k].tag \in {"get", "set"} /\ Before(p, k, {"var"}) = {}}}
    \cup
    {[on |-> "list", write |-> p[k].tag \in {"add", "remove"}] :
        k \in {k \in 1..Len(p) : p[k].tag \in {"add", "remove", "element", "elements"}}}

\* No child writes what another one reads or writes.
Independent ==
    \A i, j \in Children : i # j => ~Conflict(Touches(prog[i]), Touches(prog[j]))

\* A spine that does not change the list it iterates over, removes only elements
\* that exist, and does not log.
Tame(p) ==
    \A k \in 1..Len(p) :
        /\ p[k].tag # "log"
        /\ p[k].tag \in {"add", "remove"} => Before(p, k, {"elements"}) = {}
        /\ p[k].tag = "remove" =>
             p[k].arg + Cardinality(Before(p, k, {"remove"})) < Len(Start)

AllTame == Independent /\ \A i \in Children : Tame(prog[i])

\* tag_async.cpp, tag_list.cpp: the text of the children decides whether their
\* execution is defined.  If no child writes what another one uses, and each uses
\* the list as Tame says, there is no data race and no invalid iterator in any
\* interleaving.
TameIsDefined == AllTame => ~undefined

\* tag_async.cpp, line 41: the futures outlive no call.  When the tag has left,
\* also because a thread could not be launched, no child runs on the context and
\* the lists of the caller, which end with it.
ChildrenJoined ==
    parent \in {"left", "thrown"} => \A i \in Children : state[i] # "running"

\* The tag leaves in the end, and so does every loop of its children, unless their
\* behaviour is undefined: a dbp:list_elements whose content adds elements runs into
\* the end of the storage instead of looping for ever.
Joins == <>(undefined \/ parent \in {"left", "thrown"})

================================================================================
