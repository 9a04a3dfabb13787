------------------------------- MODULE AsyncProofs -------------------------------
(***************************************************************************)
(* Theorems about dbp:async for any number of children, whatever tags they *)
(* consist of.                                                             *)
(***************************************************************************)
EXTENDS AsyncAlone, AsyncInTurn, Induction, SequenceTheorems, FiniteSetTheorems, TLAPS

--------------------------------------------------------------------------------
(* Types *)

LEMMA Spines ==
    ASSUME TypeOK, NEW i \in Children
    PROVE  /\ prog[i] \in Seq([tag : Tags, arg : Values \cup Nat]) /\ Len(prog[i]) \in Nat
           /\ pc[i] \in Nat \ {0}
           /\ \A k \in 1..Len(prog[i]) :
                /\ prog[i][k].tag \in {"set", "var", "add"} => prog[i][k].arg \in Values
                /\ prog[i][k].tag \in {"remove", "element"} => prog[i][k].arg \in Nat
<1>1. prog[i] \in Programs /\ pc[i] \in Nat \ {0}
  BY DEF TypeOK
<1>2. prog[i] \in Seq([tag : Tags, arg : Values \cup Nat])
  BY <1>1, AsyncAssumption
<1>3. Len(prog[i]) \in Nat
  BY <1>2, LenProperties
<1> QED
  BY <1>1, <1>2, <1>3, AsyncAssumption

LEMMA CallerTypes == TypeOK /\ Caller => TypeOK'
<1> SUFFICES ASSUME TypeOK, Caller PROVE TypeOK'
  OBVIOUS
<1> USE AsyncAssumption DEF TypeOK, Children, frame, shared
<1>1. CASE Launch
  BY <1>1, SMTT(30) DEF Launch
<1>2. CASE LaunchFails
  BY <1>2 DEF LaunchFails
<1>3. CASE AllLaunched
  BY <1>3, SMTT(30) DEF AllLaunched
<1>4. CASE Collect
  <2>1. next \in Children /\ text[next] \in Seq(Values)
    BY <1>4 DEF Collect
  <2>2. out \o text[next] \in Seq(Values)
    BY <2>1, ConcatProperties
  <2> QED
    BY <1>4, <2>1, <2>2 DEF Collect
<1>5. CASE Leave
  BY <1>5 DEF Leave
<1> QED
  BY <1>1, <1>2, <1>3, <1>4, <1>5 DEF Caller

LEMMA AccessTypes ==
    ASSUME TypeOK, NEW i \in Children
    PROVE  Uses(i) \in SUBSET Access
<1>1. \A o \in {"x", "list"}, b \in BOOLEAN : [on |-> o, write |-> b] \in Access
  BY DEF Access
<1>2. \A S : (Tag(i).tag \in S) \in BOOLEAN
  OBVIOUS
<1>3. (Tag(i).tag = "set") \in BOOLEAN
  OBVIOUS
<1>4. /\ [on |-> "x", write |-> Tag(i).tag = "set"] \in Access
      /\ [on |-> "list", write |-> Tag(i).tag \in {"add", "remove"}] \in Access
      /\ [on |-> "list", write |-> FALSE] \in Access
  BY <1>1, <1>2, <1>3
<1> QED
  BY <1>4 DEF Uses

--------------------------------------------------------------------------------
(* The inductive invariant *)

\* Each of the tags ss is one of spine p, before tag q, and has seen at most n variables.
Within(p, q, n, ss) ==
    \A k \in 1..Len(ss) : ss[k].pc \in 1..Len(p) /\ ss[k].pc < q /\ ss[k].vars <= n

\* The loops are loops; without variables of the child none has been declared.
Entered(p, ss) ==
    \A k \in 1..Len(ss) :
        /\ ss[k].loop => p[ss[k].pc].tag = "elements"
        /\ ss[k].vars = 0 => Before(p, ss[k].pc + 1, {"var"}) = {}

Nested(ss) ==
    \A j, k \in 1..Len(ss) : j <= k => ss[j].pc <= ss[k].pc /\ ss[j].vars <= ss[k].vars

\* A child at tag q of spine p, with n variables of its own, inside the tags ss.
Placed(p, q, n, ss) ==
    /\ q <= Len(p) + 1
    /\ q <= Len(p) /\ n = 0 => Before(p, q, {"var"}) = {}
    /\ Within(p, q, n, ss) /\ Entered(p, ss) /\ Nested(ss)

Places == \A i \in Children : Placed(prog[i], pc[i], Len(own[i]), scopes[i])

\* A child is only in accesses that its text tells of.
Declared == \A i \in Children : using[i] \subseteq Touches(prog[i])

\* Where the caller is tells which threads exist.
Joined ==
    /\ parent \in {"launch", "unwind"} => \A i \in Children : i >= next => state[i] = "none"
    /\ parent = "collect" => \A i \in Children : i < next => state[i] = "ended"
    /\ ChildrenJoined

\* The iterators of the loops ss are valid for list l.
Iterates(ss, l) ==
    \A k \in 1..Len(ss) : ss[k].loop => ss[k].gen = l.gen /\ ss[k].pos <= Len(l.elems)

Writes(p) == \E k \in 1..Len(p) : p[k].tag \in {"add", "remove"}

\* What a writer at tag q has left of the list when it has removed elements.
Left(p, q, l) ==
    Writes(p) => Len(Start) <= Len(l.elems) + Cardinality(Before(p, q, {"remove"}))

Sound ==
    AllTame => /\ ~undefined
               /\ \A i \in Children : Iterates(scopes[i], list) /\ Left(prog[i], pc[i], list)

IInv == TypeOK /\ Places /\ Declared /\ Joined /\ Sound

LEMMA ChildTypes ==
    ASSUME TypeOK, Places, NEW i \in Children, Child(i)
    PROVE  TypeOK'
<1> DEFINE p == prog[i]
<1>1. /\ p \in Seq([tag : Tags, arg : Values \cup Nat]) /\ Len(p) \in Nat /\ pc[i] \in Nat \ {0}
      /\ own[i] \in Seq(Values) /\ text[i] \in Seq(Values) /\ scopes[i] \in Seq(Scope)
      /\ list.elems \in Seq(Values) /\ list.cap \in Nat /\ list.gen \in Nat
      /\ Len(list.elems) \in Nat /\ Len(own[i]) \in Nat /\ Len(scopes[i]) \in Nat
      /\ {} \in SUBSET Access
  BY Spines, LenProperties DEF TypeOK
<1>2. ASSUME Breaks PROVE TypeOK'
  BY <1>2 DEF Breaks, TypeOK, frame, shared
<1>3. ASSUME NEW q \in Nat \ {0}, Goes(i, q)
      PROVE  /\ pc' \in [Children -> Nat \ {0}] /\ using' \in [Children -> SUBSET Access]
             /\ UNCHANGED <<prog, frame, undefined>>
  BY <1>1, <1>3 DEF Goes, TypeOK
<1>4. pc[i] + 1 \in Nat \ {0} /\ Len(p) + 1 \in Nat \ {0}
  BY <1>1
<1>5. ASSUME Swallowed(i) PROVE TypeOK'
  <2>1. text' \in [Children -> Seq(Values)]
    BY <1>5, EmptySeq DEF Swallowed, TypeOK
  <2>2. state' \in [Children -> {"none", "running", "ended"}]
    BY <1>5 DEF Swallowed, TypeOK
  <2> QED
    BY <1>1, <1>3, <1>5, <2>1, <2>2 DEF Swallowed, TypeOK, frame, shared
<1>6. ASSUME NEW loop \in BOOLEAN, NEW q \in 1..Len(list.elems), Enters(i, loop, q)
      PROVE  TypeOK'
  <2> DEFINE s == [pc |-> pc[i], loop |-> loop, pos |-> q, gen |-> list.gen,
                   value |-> list.elems[q], vars |-> Len(own[i])]
  <2>1. list.elems[q] \in Values
    BY <1>1, <1>6, ElementOfSeq
  <2>2. s \in Scope
    BY <1>1, <2>1 DEF Scope
  <2>3. Append(scopes[i], s) \in Seq(Scope)
    BY <1>1, <2>2, AppendProperties
  <2> HIDE DEF s
  <2>4. scopes' = [scopes EXCEPT ![i] = Append(scopes[i], s)]
    BY <1>6 DEF Enters, s
  <2>5. scopes' \in [Children -> Seq(Scope)]
    BY <2>3, <2>4 DEF TypeOK
  <2> QED
    BY <1>3, <1>4, <1>6, <2>5 DEF Enters, TypeOK, frame, shared
<1>7. CASE Begin(i)
  BY <1>2, <1>7, AccessTypes DEF Begin, TypeOK, frame, shared
<1>8. CASE GetValue(i)
  <2>1. (IF own[i] = <<>> THEN x ELSE own[i][Len(own[i])]) \in Values
    BY <1>1, ElementOfSeq, EmptySeq DEF TypeOK
  <2>2. text' \in [Children -> Seq(Values)]
    BY <1>1, <1>8, <2>1, AppendProperties DEF GetValue, TypeOK
  <2> QED
    BY <1>3, <1>4, <1>8, <2>2 DEF GetValue, TypeOK, frame, shared
<1>9. CASE SetValue(i)
  <2>1. Tag(i).arg \in Values
    BY <1>1, <1>9, Spines DEF SetValue, Ready, At, Tag
  <2>2. CASE own[i] = <<>>
    BY <1>3, <1>4, <1>9, <2>1, <2>2 DEF SetValue, TypeOK, frame, shared
  <2>3. CASE own[i] # <<>>
    <3>1. [own[i] EXCEPT ![Len(own[i])] = Tag(i).arg] \in Seq(Values)
      BY <1>1, <2>1, <2>3, ExceptSeq, EmptySeq
    <3>2. own' = [own EXCEPT ![i] = [own[i] EXCEPT ![Len(own[i])] = Tag(i).arg]]
      BY <1>9, <2>3 DEF SetValue
    <3>3. own' \in [Children -> Seq(Values)]
      BY <3>1, <3>2 DEF TypeOK
    <3> QED
      BY <1>3, <1>4, <1>9, <2>1, <2>3, <3>3 DEF SetValue, TypeOK, frame, shared
  <2> QED
    BY <2>2, <2>3
<1>10. CASE Var(i)
  <2>1. Tag(i).arg \in Values
    BY <1>1, <1>10, Spines DEF Var, Ready, At, Tag
  <2>2. own' \in [Children -> Seq(Values)]
    BY <1>1, <1>10, <2>1, AppendProperties DEF Var, TypeOK
  <2> QED
    BY <1>3, <1>4, <1>10, <2>2 DEF Var, TypeOK, frame, shared
<1>11. CASE Throw(i) \/ Log(i)
  BY <1>2, <1>5, <1>11 DEF Throw, Log
<1>12. CASE ListAdd(i)
  <2>1. Tag(i).arg \in Values
    <3>1. Ready(i, "add")
      BY <1>12 DEF ListAdd
    <3> QED
      BY <1>1, <3>1, Spines DEF Ready, At, Tag
  <2>2. Append(list.elems, Tag(i).arg) \in Seq(Values)
    BY <1>1, <2>1, AppendProperties
  <2>3. list' \in [elems : Seq(Values), cap : Nat, gen : Nat]
    <3> DEFINE full == Len(list.elems) = list.cap
               c == IF full THEN 2 * list.cap + 1 ELSE list.cap
               g == IF full THEN list.gen + 1 ELSE list.gen
               e == Append(list.elems, Tag(i).arg)
    <3>1. c \in Nat /\ g \in Nat /\ e \in Seq(Values)
      BY <1>1, <2>2
    <3>2. list' = [elems |-> e, cap |-> c, gen |-> g]
      BY <1>12, Zenon DEF ListAdd
    <3> HIDE DEF c, g, e
    <3> QED
      BY <3>1, <3>2
  <2> QED
    BY <1>3, <1>4, <1>12, <2>3 DEF ListAdd, TypeOK, frame
<1>13. CASE ListRemove(i)
  <2> DEFINE n == Tag(i).arg
             e == list.elems
  <2>1. n \in Nat
    <3>1. Ready(i, "remove")
      BY <1>13 DEF ListRemove
    <3> QED
      BY <1>1, <3>1, Spines DEF Ready, At, Tag
  <2>2. CASE n >= Len(e)
    BY <1>2, <1>13, <2>1, <2>2, <1>1 DEF ListRemove
  <2>3. CASE n < Len(e)
    <3>1. /\ list' = [list EXCEPT !.elems = SubSeq(e, 1, n) \o SubSeq(e, n + 2, Len(e))]
          /\ Goes(i, pc[i] + 1) /\ UNCHANGED <<state, own, scopes, text, x>>
      <4>1. ~(n >= Len(e))
        BY <1>1, <2>1, <2>3
      <4> QED
        BY <1>13, <4>1, Zenon DEF ListRemove
    <3>2. SubSeq(e, 1, n) \in Seq(Values)
      BY <1>1, <2>1, <2>3, SubSeqProperties, ElementOfSeq
    <3>3. SubSeq(e, n + 2, Len(e)) \in Seq(Values)
      BY <1>1, <2>1, <2>3, SubSeqProperties, ElementOfSeq
    <3>4. SubSeq(e, 1, n) \o SubSeq(e, n + 2, Len(e)) \in Seq(Values)
      BY <3>2, <3>3, ConcatProperties
    <3>5. list' \in [elems : Seq(Values), cap : Nat, gen : Nat]
      BY <3>1, <3>4 DEF TypeOK
    <3> QED
      BY <1>3, <1>4, <3>1, <3>5 DEF TypeOK, frame
  <2> QED
    BY <1>1, <2>1, <2>2, <2>3
<1>14. CASE ListElement(i)
  <2>1. Tag(i).arg \in Nat
    BY <1>1, <1>14, Spines DEF ListElement, Ready, At, Tag
  <2>2. Tag(i).arg < Len(list.elems) => Tag(i).arg + 1 \in 1..Len(list.elems)
    BY <1>1, <2>1
  <2> QED
    BY <1>5, <1>6, <1>14, <2>2 DEF ListElement
<1>15. CASE ListElements(i)
  <2>1. CASE list.elems # <<>> /\ Enters(i, TRUE, 1)
    <3>1. 1 \in 1..Len(list.elems)
      BY <1>1, <2>1, EmptySeq
    <3> QED
      BY <1>6, <2>1, <3>1
  <2>2. CASE Goes(i, Len(prog[i]) + 1) /\ UNCHANGED <<state, own, scopes, text, shared>>
    BY <1>3, <1>4, <2>2 DEF TypeOK, frame, shared
  <2> QED
    BY <1>15, <2>1, <2>2 DEF ListElements
<1>16. ASSUME scopes[i] # <<>>
       PROVE  Outer(i) \in Seq(Scope) /\ Inner(i) \in Scope
  <2>1. Len(scopes[i]) \in 1..Len(scopes[i])
    BY <1>1, <1>16, EmptySeq
  <2>2. \A k \in 1..Len(scopes[i]) : scopes[i][k] \in Scope
    BY <1>1, ElementOfSeq
  <2> QED
    BY <1>1, <2>1, <2>2, SubSeqProperties DEF Outer, Inner
<1>17. CASE NextElement(i)
  <2>1. scopes[i] # <<>>
    BY <1>17 DEF NextElement, Loops
  <2> DEFINE s == Inner(i)
             q == s.pos + 1
             t == [s EXCEPT !.pos = q, !.value = list.elems[q]]
  <2>2. /\ s \in Scope /\ Outer(i) \in Seq(Scope) /\ q \in Nat /\ s.pc + 1 \in Nat \ {0}
        /\ s.vars \in Nat
    BY <1>16, <2>1 DEF Scope
  <2>3. CASE /\ scopes' = [scopes EXCEPT ![i] = Outer(i)]
             /\ Goes(i, pc[i])
             /\ UNCHANGED <<state, own, text, shared>>
    BY <1>1, <1>3, <2>2, <2>3 DEF TypeOK, frame, shared
  <2>4. CASE /\ q <= Len(list.elems)
             /\ scopes' = [scopes EXCEPT ![i] = Append(Outer(i), t)]
             /\ own' = [own EXCEPT ![i] = SubSeq(@, 1, s.vars)]
             /\ Goes(i, s.pc + 1)
             /\ UNCHANGED <<state, text, shared>>
    <3>1. list.elems[q] \in Values
      BY <1>1, <2>2, <2>4, ElementOfSeq DEF Scope
    <3>2. t \in Scope
      BY <2>2, <3>1 DEF Scope
    <3>3. scopes' \in [Children -> Seq(Scope)]
      BY <2>2, <2>4, <3>2, AppendProperties DEF TypeOK
    <3>4. SubSeq(own[i], 1, s.vars) \in Seq(Values)
      <4>1. Len(scopes[i]) \in 1..Len(scopes[i])
        BY <1>1, <2>1, EmptySeq
      <4>2. s.vars <= Len(own[i])
        BY <4>1 DEF Inner, Places, Placed, Within
      <4>3. \A k \in 1..s.vars : own[i][k] \in Values
        BY <1>1, <2>2, <4>2, ElementOfSeq
      <4> QED
        BY <2>2, <4>3, SubSeqProperties
    <3>5. own' \in [Children -> Seq(Values)]
      BY <2>4, <3>4 DEF TypeOK
    <3> QED
      BY <1>3, <2>2, <2>4, <3>3, <3>5 DEF TypeOK, frame, shared
  <2> QED
    BY <1>2, <1>17, <2>3, <2>4 DEF NextElement
<1>18. CASE LeaveElement(i)
  BY <1>1, <1>3, <1>16, <1>18 DEF LeaveElement, TypeOK, frame, shared
<1>19. CASE Value(i)
  <2>1. text' \in [Children -> Seq(Values)]
    <3>1. CASE scopes[i] = <<>>
      BY <1>19, <3>1 DEF Value, TypeOK
    <3>2. CASE scopes[i] # <<>>
      <4>1. Inner(i).value \in Values
        BY <1>16, <3>2 DEF Scope
      <4> QED
        BY <1>1, <1>19, <3>2, <4>1, AppendProperties DEF Value, TypeOK
    <3> QED
      BY <3>1, <3>2
  <2> QED
    BY <1>3, <1>4, <1>19, <2>1 DEF Value, TypeOK, frame, shared
<1>20. CASE Return(i)
  BY <1>1, <1>3, <1>20 DEF Return, TypeOK, frame, shared
<1> QED
  BY <1>7, <1>8, <1>9, <1>10, <1>11, <1>12, <1>13, <1>14, <1>15, <1>17, <1>18, <1>19,
     <1>20 DEF Child

--------------------------------------------------------------------------------
(* Where a child can be *)

Spine == Seq([tag : Tags, arg : Values \cup Nat])

LEMMA BeforeNext ==
    ASSUME NEW p, NEW q \in Nat \ {0}, NEW ts
    PROVE  /\ p[q].tag \in ts => Before(p, q + 1, ts) = Before(p, q, ts) \cup {q}
           /\ p[q].tag \notin ts => Before(p, q + 1, ts) = Before(p, q, ts)
BY DEF Before

LEMMA Scopes ==
    ASSUME NEW ss \in Seq(Scope)
    PROVE  /\ Len(ss) \in Nat
           /\ \A k \in 1..Len(ss) : /\ ss[k] \in Scope /\ ss[k].pc \in Nat /\ ss[k].vars \in Nat
                                    /\ ss[k].pos \in Nat /\ ss[k].gen \in Nat
<1>1. Len(ss) \in Nat /\ \A k \in 1..Len(ss) : ss[k] \in Scope
  BY LenProperties, ElementOfSeq
<1>2. \A s \in Scope : s.pc \in Nat /\ s.vars \in Nat /\ s.pos \in Nat /\ s.gen \in Nat
  BY DEF Scope
<1> QED
  BY <1>1, <1>2

LEMMA PlacedNext ==
    ASSUME NEW p \in Spine, NEW q \in Nat \ {0}, NEW n \in Nat, NEW ss \in Seq(Scope),
           Placed(p, q, n, ss), q <= Len(p), NEW m \in Nat,
           m >= n, p[q].tag = "var" => m > n
    PROVE  Placed(p, q + 1, m, ss)
<1>1. Len(p) \in Nat /\ Len(ss) \in Nat
  BY LenProperties DEF Spine
<1>2. \A k \in 1..Len(ss) : ss[k].pc \in Nat /\ ss[k].vars \in Nat
  BY Scopes
<1>3. m = 0 => Before(p, q + 1, {"var"}) = {}
  <2>1. m = 0 => Before(p, q, {"var"}) = {} /\ p[q].tag \notin {"var"}
    BY DEF Placed
  <2> QED
    BY <2>1, BeforeNext, Zenon
<1>4. Within(p, q, n, ss) => Within(p, q + 1, m, ss)
  BY <1>1, <1>2 DEF Within
<1>5. q + 1 <= Len(p) + 1
  BY <1>1
<1> QED
  BY <1>3, <1>4, <1>5, Zenon DEF Placed

LEMMA PlacedEnter ==
    ASSUME NEW p \in Spine, NEW q \in Nat \ {0}, NEW n \in Nat, NEW ss \in Seq(Scope),
           Placed(p, q, n, ss), q <= Len(p), p[q].tag # "var", NEW s \in Scope,
           s.pc = q, s.vars = n, s.loop => p[q].tag = "elements"
    PROVE  Placed(p, q + 1, n, Append(ss, s))
<1> DEFINE tt == Append(ss, s)
<1>1. Len(p) \in Nat /\ Len(ss) \in Nat /\ Len(tt) = Len(ss) + 1
  BY LenProperties, AppendProperties DEF Spine
<1>2. \A k \in 1..Len(ss) : tt[k] = ss[k] /\ ss[k].pc \in Nat /\ ss[k].vars \in Nat
  BY Scopes, AppendProperties
<1>3. tt[Len(ss) + 1] = s
  BY AppendProperties
<1>4. n = 0 => Before(p, q + 1, {"var"}) = {}
  <2>1. n = 0 => Before(p, q, {"var"}) = {} /\ p[q].tag \notin {"var"}
    BY DEF Placed
  <2> QED
    BY <2>1, BeforeNext, Zenon
<1>5. \A k \in 1..Len(tt) : k \in 1..Len(ss) \/ k = Len(ss) + 1
  BY <1>1
<1>6. Within(p, q, n, ss) /\ Entered(p, ss) /\ Nested(ss)
  BY DEF Placed
<1> HIDE DEF tt
<1>7. Within(p, q + 1, n, tt)
  BY <1>1, <1>2, <1>3, <1>5, <1>6 DEF Within
<1>8. Entered(p, tt)
  BY <1>2, <1>3, <1>4, <1>5, <1>6, Zenon DEF Entered
<1>9. Nested(tt)
  <2> SUFFICES ASSUME NEW j \in 1..Len(tt), NEW k \in 1..Len(tt), j <= k
               PROVE  tt[j].pc <= tt[k].pc /\ tt[j].vars <= tt[k].vars
    BY DEF Nested
  <2>1. CASE k \in 1..Len(ss)
    <3>1. j \in 1..Len(ss)
      BY <1>1, <1>5, <2>1
    <3> QED
      BY <1>2, <1>6, <2>1, <3>1 DEF Nested
  <2>2. CASE k = Len(ss) + 1 /\ j \in 1..Len(ss)
    BY <1>1, <1>2, <1>3, <1>6, <2>2 DEF Within
  <2>3. CASE k = Len(ss) + 1 /\ j = Len(ss) + 1
    BY <1>3, <2>3
  <2> QED
    BY <1>5, <2>1, <2>2, <2>3
<1>10. q + 1 <= Len(p) + 1
  BY <1>1
<1> QED
  BY <1>4, <1>7, <1>8, <1>9, <1>10, Zenon DEF Placed, tt

LEMMA PlacedSkip ==
    ASSUME NEW p \in Spine, NEW q \in Nat \ {0}, NEW n \in Nat, NEW ss \in Seq(Scope),
           Placed(p, q, n, ss)
    PROVE  Placed(p, Len(p) + 1, n, ss)
<1>1. Len(p) \in Nat
  BY LenProperties DEF Spine
<1>2. Within(p, q, n, ss) => Within(p, Len(p) + 1, n, ss)
  BY <1>1 DEF Within
<1>3. Len(p) + 1 <= Len(p) + 1 /\ ~(Len(p) + 1 <= Len(p))
  BY <1>1
<1> QED
  BY <1>2, <1>3, Zenon DEF Placed

LEMMA Cut ==
    ASSUME NEW ss \in Seq(Scope), ss # <<>>
    PROVE  LET cut == SubSeq(ss, 1, Len(ss) - 1)
           IN  /\ Len(ss) \in Nat \ {0} /\ Len(ss) \in 1..Len(ss)
               /\ cut \in Seq(Scope) /\ Len(cut) = Len(ss) - 1
               /\ \A k \in 1..Len(cut) : k \in 1..Len(ss) /\ k # Len(ss) /\ cut[k] = ss[k]
<1>1. Len(ss) \in Nat \ {0}
  BY EmptySeq, LenProperties
<1> DEFINE l == Len(ss) - 1
           cut == SubSeq(ss, 1, l)
<1>2. l \in Nat /\ l \in Int /\ 1 \in Int /\ l - 1 + 1 = l
  BY <1>1
<1>3. \A k \in 1..l : ss[k] \in Scope
  BY <1>1, ElementOfSeq
<1>4. cut \in Seq(Scope) /\ Len(cut) = l /\ \A k \in 1..l : cut[k] = ss[k]
  <2> HIDE DEF l
  <2>1. /\ cut \in Seq(Scope) /\ Len(cut) = IF 1 <= l THEN l - 1 + 1 ELSE 0
        /\ \A k \in 1..(l - 1 + 1) : cut[k] = ss[1 + k - 1]
    BY <1>2, <1>3, SubSeqProperties
  <2> HIDE DEF cut
  <2> QED
    BY <1>2, <2>1
<1> HIDE DEF cut
<1>5. \A k \in 1..Len(cut) : k \in 1..Len(ss) /\ k # Len(ss) /\ cut[k] = ss[k]
  BY <1>1, <1>4
<1>6. Len(ss) \in 1..Len(ss)
  BY <1>1
<1> QED
  BY <1>1, <1>4, <1>5, <1>6, Zenon DEF cut

LEMMA PlacedLeave ==
    ASSUME NEW p, NEW q, NEW n, NEW ss \in Seq(Scope), ss # <<>>, Placed(p, q, n, ss)
    PROVE  Placed(p, q, n, SubSeq(ss, 1, Len(ss) - 1))
<1> DEFINE cut == SubSeq(ss, 1, Len(ss) - 1)
<1>1. \A k \in 1..Len(cut) : k \in 1..Len(ss) /\ cut[k] = ss[k]
  BY Cut
<1> HIDE DEF cut
<1> QED
  BY <1>1, Zenon DEF Placed, Within, Entered, Nested, cut

LEMMA PlacedAgain ==
    ASSUME NEW p \in Spine, NEW q \in Nat \ {0}, NEW n \in Nat, NEW ss \in Seq(Scope),
           ss # <<>>, Placed(p, q, n, ss), NEW t \in Scope,
           LET s == ss[Len(ss)] IN t.pc = s.pc /\ t.vars = s.vars /\ t.loop = s.loop
    PROVE  Placed(p, t.pc + 1, t.vars, Append(SubSeq(ss, 1, Len(ss) - 1), t))
<1> DEFINE cut == SubSeq(ss, 1, Len(ss) - 1)
           tt == Append(cut, t)
           l == Len(ss)
<1>1. /\ Len(p) \in Nat /\ l \in Nat \ {0} /\ l \in 1..l /\ cut \in Seq(Scope)
      /\ Len(cut) = l - 1 /\ \A k \in 1..Len(cut) : k \in 1..l /\ k # l /\ cut[k] = ss[k]
  BY LenProperties, Cut DEF Spine
<1> HIDE DEF cut
<1>2. /\ Len(tt) = l /\ tt[l] = t /\ \A k \in 1..(l - 1) : tt[k] = ss[k]
  BY <1>1, AppendProperties
<1>3. \A k \in 1..l : tt[k].pc = ss[k].pc /\ tt[k].vars = ss[k].vars /\ tt[k].loop = ss[k].loop
  <2> TAKE k \in 1..l
  <2>1. CASE k = l
    BY <1>1, <1>2, <2>1
  <2>2. CASE k # l
    <3>1. k \in 1..(l - 1)
      BY <1>1, <2>2, SMTT(30)
    <3> QED
      BY <1>2, <3>1
  <2> QED
    BY <2>1, <2>2
<1>4. \A k \in 1..l : ss[k].pc \in Nat /\ ss[k].vars \in Nat /\ k <= l
  BY <1>1, Scopes
<1>5. Within(p, q, n, ss) /\ Entered(p, ss) /\ Nested(ss)
  BY DEF Placed
<1>6. t.pc = ss[l].pc /\ t.vars = ss[l].vars /\ t.loop = ss[l].loop
  OBVIOUS
<1> HIDE DEF tt
<1>7. Within(p, t.pc + 1, t.vars, tt)
  <2> SUFFICES ASSUME NEW k \in 1..l
               PROVE  /\ ss[k].pc \in 1..Len(p) /\ ss[k].pc < ss[l].pc + 1
                      /\ ss[k].vars <= ss[l].vars
    BY <1>2, <1>3, <1>6 DEF Within
  <2>1. ss[k].pc \in 1..Len(p) /\ ss[k].pc <= ss[l].pc /\ ss[k].vars <= ss[l].vars
    BY <1>1, <1>4, <1>5 DEF Within, Nested
  <2> QED
    BY <1>1, <1>4, <2>1
<1>8. Entered(p, tt)
  BY <1>2, <1>3, <1>5, Zenon DEF Entered
<1>9. Nested(tt)
  BY <1>2, <1>3, <1>5, Zenon DEF Nested
<1>10. t.pc \in 1..Len(p)
  BY <1>1, <1>5, <1>6 DEF Within
<1>11. t.pc + 1 <= Len(p) + 1
  BY <1>1, <1>10, SMTT(30)
<1>12. t.vars = 0 => Before(p, t.pc + 1, {"var"}) = {}
  BY <1>1, <1>5, <1>6, Zenon DEF Entered
<1> QED
  BY <1>7, <1>8, <1>9, <1>11, <1>12, Zenon DEF Placed, tt, cut

LEMMA ChildPlaces ==
    ASSUME TypeOK, Places, NEW i \in Children, Child(i)
    PROVE  Places'
<1> DEFINE p == prog[i]
           Here(q, n, ss) == Placed(p, q, n, ss)
<1>1. /\ p \in Spine /\ Len(p) \in Nat /\ pc[i] \in Nat \ {0} /\ Len(own[i]) \in Nat
      /\ scopes[i] \in Seq(Scope) /\ own[i] \in Seq(Values) /\ list.elems \in Seq(Values)
      /\ Len(list.elems) \in Nat
  BY Spines, LenProperties DEF TypeOK, Spine
<1>2. /\ pc \in [Children -> Nat \ {0}] /\ own \in [Children -> Seq(Values)]
      /\ scopes \in [Children -> Seq(Scope)]
  BY DEF TypeOK
<1>3. Here(pc[i], Len(own[i]), scopes[i])
  BY DEF Places
<1>4. ASSUME prog' = prog, NEW q, NEW o, NEW ss, pc' = [pc EXCEPT ![i] = q],
             own' = [own EXCEPT ![i] = o], scopes' = [scopes EXCEPT ![i] = ss],
             Here(q, Len(o), ss)
      PROVE  Places'
  <2> SUFFICES ASSUME NEW j \in Children
               PROVE  Placed(prog'[j], pc'[j], Len(own'[j]), scopes'[j])
    BY DEF Places
  <2>1. CASE j = i
    <3>1. pc'[j] = q /\ own'[j] = o /\ scopes'[j] = ss /\ prog'[j] = p
      BY <1>2, <1>4, <2>1
    <3> QED
      BY <1>4, <3>1
  <2>2. CASE j # i
    <3>1. pc'[j] = pc[j] /\ own'[j] = own[j] /\ scopes'[j] = scopes[j] /\ prog'[j] = prog[j]
      BY <1>2, <1>4, <2>2
    <3>2. Placed(prog[j], pc[j], Len(own[j]), scopes[j])
      BY DEF Places
    <3> QED
      BY <3>1, <3>2
  <2> QED
    BY <2>1, <2>2
<1>5. /\ own = [own EXCEPT ![i] = own[i]] /\ scopes = [scopes EXCEPT ![i] = scopes[i]]
      /\ pc = [pc EXCEPT ![i] = pc[i]]
  BY <1>2
<1> HIDE DEF Here
<1>6. ASSUME prog' = prog, pc' = pc, own' = own, scopes' = scopes PROVE Places'
  BY <1>6 DEF Places
<1>7. ASSUME Breaks PROVE Places'
  BY <1>6, <1>7 DEF Breaks
<1>8. ASSUME NEW q, Goes(i, q) PROVE prog' = prog /\ pc' = [pc EXCEPT ![i] = q]
  BY <1>8 DEF Goes
<1>9. ASSUME Swallowed(i) PROVE Places'
  BY <1>5, <1>6, <1>8, <1>9 DEF Swallowed
\* a tag is done
<1>10. ASSUME Goes(i, pc[i] + 1), own' = own, scopes' = scopes,
              NEW t \in Tags \ {"var"}, Ready(i, t)
       PROVE  Places'
  <2>1. p[pc[i]].tag # "var" /\ pc[i] <= Len(p)
    BY <1>10 DEF Ready, At, Tag
  <2>2. Here(pc[i] + 1, Len(own[i]), scopes[i])
    BY <1>1, <1>3, <2>1, PlacedNext DEF Here
  <2> QED
    BY <1>4, <1>5, <1>8, <1>10, <2>2
<1>11. ASSUME NEW loop \in BOOLEAN, NEW q \in 1..Len(list.elems), Enters(i, loop, q),
              NEW t \in {"element", "elements"}, Ready(i, t), loop => t = "elements"
       PROVE  Places'
  <2> DEFINE s == [pc |-> pc[i], loop |-> loop, pos |-> q, gen |-> list.gen,
                   value |-> list.elems[q], vars |-> Len(own[i])]
  <2>1. list.elems[q] \in Values /\ list.gen \in Nat
    BY <1>1, <1>11, ElementOfSeq DEF TypeOK
  <2>2. s \in Scope
    BY <1>1, <2>1 DEF Scope
  <2>3. s.pc = pc[i] /\ s.vars = Len(own[i]) /\ s.loop = loop
    OBVIOUS
  <2>4. scopes' = [scopes EXCEPT ![i] = Append(scopes[i], s)]
    BY <1>11 DEF Enters
  <2> HIDE DEF s
  <2>5. /\ p[pc[i]].tag # "var" /\ pc[i] <= Len(p)
        /\ s.loop => p[pc[i]].tag = "elements"
    BY <1>11, <2>3 DEF Ready, At, Tag
  <2>6. Here(pc[i] + 1, Len(own[i]), Append(scopes[i], s))
    BY <1>1, <1>3, <2>2, <2>3, <2>5, PlacedEnter DEF Here
  <2>7. Goes(i, pc[i] + 1) /\ own' = own
    BY <1>11 DEF Enters
  <2> QED
    BY <1>4, <1>5, <1>8, <2>4, <2>6, <2>7
<1>12. CASE Begin(i)
  BY <1>6, <1>7, <1>12 DEF Begin
<1>13. CASE GetValue(i)
  BY <1>10, <1>13 DEF GetValue, Tags
<1>14. CASE SetValue(i)
  <2>1. Ready(i, "set") /\ Goes(i, pc[i] + 1) /\ scopes' = scopes
    BY <1>14 DEF SetValue
  <2>2. CASE own[i] = <<>>
    <3>1. own' = own
      BY <1>14, <2>2 DEF SetValue
    <3> QED
      BY <1>10, <2>1, <3>1 DEF Tags
  <2>3. CASE own[i] # <<>>
    <3> DEFINE o == [own[i] EXCEPT ![Len(own[i])] = Tag(i).arg]
    <3>1. own' = [own EXCEPT ![i] = o]
      BY <1>14, <2>3 DEF SetValue
    <3>2. Len(o) = Len(own[i])
      <4>1. Tag(i).arg \in Values
        BY <1>1, <2>1, Spines DEF Ready, At, Tag
      <4> QED
        BY <1>1, <2>3, <4>1, ExceptSeq, EmptySeq
    <3>3. p[pc[i]].tag # "var" /\ pc[i] <= Len(p)
      BY <2>1 DEF Ready, At, Tag
    <3>4. Here(pc[i] + 1, Len(own[i]), scopes[i])
      BY <1>1, <1>3, <3>3, PlacedNext DEF Here
    <3>5. Here(pc[i] + 1, Len(o), scopes[i])
      BY <3>2, <3>4, Zenon
    <3>6. prog' = prog /\ pc' = [pc EXCEPT ![i] = pc[i] + 1]
      BY <1>8, <2>1
    <3> HIDE DEF o
    <3> QED
      BY <1>4, <1>5, <2>1, <3>1, <3>5, <3>6
  <2> QED
    BY <2>2, <2>3
<1>15. CASE Var(i)
  <2> DEFINE o == Append(own[i], Tag(i).arg)
  <2>1. Ready(i, "var") /\ Goes(i, pc[i] + 1) /\ scopes' = scopes /\ own' = [own EXCEPT ![i] = o]
    BY <1>15 DEF Var
  <2>2. pc[i] <= Len(p) /\ Tag(i).arg \in Values
    BY <1>1, <2>1, Spines DEF Ready, At, Tag
  <2>3. Len(o) = Len(own[i]) + 1
    BY <1>1, <2>2, AppendProperties
  <2> HIDE DEF o
  <2>4. Len(o) \in Nat /\ Len(o) >= Len(own[i]) /\ Len(o) > Len(own[i])
    BY <1>1, <2>3
  <2>5. Here(pc[i] + 1, Len(o), scopes[i])
    BY <1>1, <1>3, <2>2, <2>4, PlacedNext DEF Here
  <2> QED
    BY <1>4, <1>5, <1>8, <2>1, <2>5
<1>16. CASE Throw(i) \/ Log(i)
  BY <1>7, <1>9, <1>16 DEF Throw, Log
<1>17. CASE ListAdd(i)
  BY <1>10, <1>17 DEF ListAdd, Tags
<1>18. CASE ListRemove(i)
  <2>1. Ready(i, "remove") /\ (Breaks \/ (Goes(i, pc[i] + 1) /\ own' = own /\ scopes' = scopes))
    BY <1>18, Zenon DEF ListRemove
  <2> QED
    BY <1>7, <1>10, <2>1 DEF Tags
<1>19. CASE ListElement(i)
  <2>1. Ready(i, "element")
    BY <1>19 DEF ListElement
  <2>2. Tag(i).arg \in Nat
    BY <1>1, <2>1, Spines DEF Ready, At, Tag
  <2>3. Tag(i).arg < Len(list.elems) => Tag(i).arg + 1 \in 1..Len(list.elems)
    BY <1>1, <2>2
  <2> QED
    BY <1>9, <1>11, <1>19, <2>1, <2>3 DEF ListElement
<1>20. CASE ListElements(i)
  <2>1. Ready(i, "elements")
    BY <1>20 DEF ListElements
  <2>2. CASE list.elems # <<>> /\ Enters(i, TRUE, 1)
    <3>1. 1 \in 1..Len(list.elems)
      BY <1>1, <2>2, EmptySeq
    <3> QED
      BY <1>11, <2>1, <2>2, <3>1
  <2>3. CASE Goes(i, Len(p) + 1) /\ own' = own /\ scopes' = scopes
    <3>1. Here(Len(p) + 1, Len(own[i]), scopes[i])
      BY <1>1, <1>3, PlacedSkip DEF Here
    <3> QED
      BY <1>4, <1>5, <1>8, <2>3, <3>1
  <2> QED
    BY <1>20, <2>2, <2>3 DEF ListElements
\* a scope ends
<1>21. ASSUME scopes[i] # <<>>, scopes' = [scopes EXCEPT ![i] = Outer(i)], Goes(i, pc[i]),
              own' = own
       PROVE  Places'
  <2>1. Here(pc[i], Len(own[i]), Outer(i))
    BY <1>1, <1>3, <1>21, PlacedLeave DEF Here, Outer
  <2> QED
    BY <1>4, <1>5, <1>8, <1>21, <2>1
<1>22. CASE NextElement(i)
  <2> DEFINE s == Inner(i)
             q == s.pos + 1
             t == [s EXCEPT !.pos = q, !.value = list.elems[q]]
             o == SubSeq(own[i], 1, s.vars)
  <2>1. scopes[i] # <<>>
    BY <1>22 DEF NextElement, Loops
  <2>2. CASE Breaks
    BY <1>7, <2>2
  <2>3. CASE scopes' = [scopes EXCEPT ![i] = Outer(i)] /\ Goes(i, pc[i]) /\ own' = own
    BY <1>21, <2>1, <2>3
  <2>4. CASE /\ q <= Len(list.elems)
             /\ scopes' = [scopes EXCEPT ![i] = Append(Outer(i), t)]
             /\ own' = [own EXCEPT ![i] = o]
             /\ Goes(i, s.pc + 1)
    <3>1. Len(scopes[i]) \in 1..Len(scopes[i])
      BY <1>1, <2>1, Cut
    <3>2. s \in Scope
      BY <1>1, <3>1, Scopes DEF Inner
    <3>3. s.pos \in Nat /\ s.vars \in Nat /\ s.pc \in Nat
      BY <3>2 DEF Scope
    <3>4. list.elems[q] \in Values
      BY <1>1, <2>4, <3>3, ElementOfSeq
    <3>5. t \in Scope /\ t.pc = s.pc /\ t.vars = s.vars /\ t.loop = s.loop
      <4> HIDE DEF s
      <4>1. t \in Scope
        <5>1. q \in Nat
          BY <3>3
        <5> HIDE DEF q
        <5> QED
          BY <3>2, <3>4, <5>1 DEF Scope
      <4>2. t.pc = s.pc /\ t.vars = s.vars
        BY <3>2 DEF Scope
      <4>3. t.loop = s.loop
        BY <3>2 DEF Scope
      <4> QED
        BY <4>1, <4>2, <4>3
    <3>6. s.vars <= Len(own[i])
      BY <1>3, <3>1 DEF Here, Placed, Within, Inner
    <3>7. Len(o) = s.vars
      <4>1. \A k \in 1..s.vars : own[i][k] \in Values
        BY <1>1, <3>3, <3>6, ElementOfSeq
      <4>2. Len(o) = IF 1 <= s.vars THEN s.vars - 1 + 1 ELSE 0
        BY <3>3, <4>1, SubSeqProperties
      <4> QED
        BY <3>3, <4>2
    <3> HIDE DEF t
    <3>8. Placed(p, t.pc + 1, t.vars, Append(SubSeq(scopes[i], 1, Len(scopes[i]) - 1), t))
      BY <1>1, <1>3, <2>1, <3>5, PlacedAgain DEF Here, Inner
    <3>9. Here(s.pc + 1, Len(o), Append(Outer(i), t))
      BY <3>5, <3>7, <3>8, Zenon DEF Here, Outer
    <3>10. prog' = prog /\ pc' = [pc EXCEPT ![i] = s.pc + 1]
      BY <1>8, <2>4
    <3> HIDE DEF o
    <3> QED
      BY <1>4, <2>4, <3>9, <3>10
  <2> HIDE DEF t, o
  <2> QED
    BY <1>22, <2>2, <2>3, <2>4, Zenon DEF NextElement, t, o
<1>23. CASE LeaveElement(i)
  BY <1>21, <1>23 DEF LeaveElement
<1>24. CASE Value(i)
  BY <1>10, <1>24 DEF Value, Tags
<1>25. CASE Return(i)
  BY <1>5, <1>6, <1>8, <1>25 DEF Return
<1> QED
  BY <1>12, <1>13, <1>14, <1>15, <1>16, <1>17, <1>18, <1>19, <1>20, <1>22, <1>23, <1>24,
     <1>25 DEF Child

--------------------------------------------------------------------------------
(* What a child may touch *)

LEMMA TouchesList ==
    ASSUME NEW p, NEW k \in 1..Len(p), p[k].tag \in {"add", "remove", "element", "elements"}
    PROVE  [on |-> "list", write |-> p[k].tag \in {"add", "remove"}] \in Touches(p)
BY DEF Touches

LEMMA TouchesVariable ==
    ASSUME NEW p, NEW k \in 1..Len(p), p[k].tag \in {"get", "set"}, Before(p, k, {"var"}) = {}
    PROVE  [on |-> "x", write |-> p[k].tag = "set"] \in Touches(p)
BY DEF Touches

LEMMA UsesDeclared ==
    ASSUME TypeOK, Places, NEW i \in Children, Runs(i)
    PROVE  Uses(i) \subseteq Touches(prog[i])
<1> DEFINE p == prog[i]
<1>1. /\ Len(p) \in Nat /\ pc[i] \in Nat \ {0} /\ scopes[i] \in Seq(Scope)
      /\ own[i] \in Seq(Values) /\ Len(own[i]) \in Nat
  BY Spines, LenProperties DEF TypeOK
<1>2. Placed(p, pc[i], Len(own[i]), scopes[i])
  BY DEF Places
<1>3. CASE Loops(i)
  <2>1. Len(scopes[i]) \in 1..Len(scopes[i])
    BY <1>1, <1>3, Cut DEF Loops
  <2>2. Inner(i).pc \in 1..Len(p)
    BY <1>2, <2>1 DEF Placed, Within, Inner
  <2>3. p[Inner(i).pc].tag = "elements"
    BY <1>2, <1>3, <2>1, Zenon DEF Placed, Entered, Inner, Loops
  <2>4. [on |-> "list", write |-> p[Inner(i).pc].tag \in {"add", "remove"}] \in Touches(p)
    BY <2>2, <2>3, TouchesList
  <2>5. (p[Inner(i).pc].tag \in {"add", "remove"}) = FALSE
    BY <2>3
  <2>6. [on |-> "list", write |-> FALSE] \in Touches(p)
    BY <2>4, <2>5
  <2> QED
    BY <1>3, <2>6 DEF Uses
<1>4. CASE ~Loops(i) /\ AtEnd(i)
  BY <1>4 DEF Uses
<1>5. CASE ~Loops(i) /\ ~AtEnd(i)
  <2>1. pc[i] \in 1..Len(p)
    BY <1>1, <1>2, <1>5 DEF AtEnd, Placed
  <2>2. CASE Tag(i).tag \in {"get", "set"} /\ own[i] = <<>>
    <3>1. Len(own[i]) = 0
      BY <2>2, EmptySeq
    <3>2. Before(p, pc[i], {"var"}) = {}
      BY <1>1, <1>2, <2>1, <3>1 DEF Placed
    <3>3. [on |-> "x", write |-> Tag(i).tag = "set"] \in Touches(p)
      BY <2>1, <2>2, <3>2, TouchesVariable DEF Tag
    <3>4. Uses(i) = {[on |-> "x", write |-> Tag(i).tag = "set"]}
      BY <1>5, <2>2 DEF Uses
    <3> QED
      BY <3>3, <3>4, Zenon
  <2>3. CASE Tag(i).tag \in {"add", "remove", "element", "elements"}
    <3>1. [on |-> "list", write |-> Tag(i).tag \in {"add", "remove"}] \in Touches(p)
      BY <2>1, <2>3, TouchesList DEF Tag
    <3>2. Uses(i) = {[on |-> "list", write |-> Tag(i).tag \in {"add", "remove"}]}
      BY <1>5, <2>3 DEF Uses
    <3> QED
      BY <3>1, <3>2, Zenon
  <2>4. CASE /\ ~(Tag(i).tag \in {"get", "set"} /\ own[i] = <<>>)
             /\ Tag(i).tag \notin {"add", "remove", "element", "elements"}
    BY <1>5, <2>4 DEF Uses
  <2> QED
    BY <2>2, <2>3, <2>4
<1> QED
  BY <1>3, <1>4, <1>5

LEMMA ChildDeclared ==
    ASSUME TypeOK, Places, Declared, NEW i \in Children, Child(i)
    PROVE  Declared'
<1>1. using \in [Children -> SUBSET Access]
  BY DEF TypeOK
<1>2. ASSUME prog' = prog, NEW u, using' = [using EXCEPT ![i] = u], u \subseteq Touches(prog[i])
      PROVE  Declared'
  BY <1>1, <1>2 DEF Declared
<1>3. ASSUME prog' = prog, using' = using PROVE Declared'
  BY <1>3 DEF Declared
<1>4. ASSUME NEW q, Goes(i, q) PROVE Declared'
  <2>1. prog' = prog /\ using' = [using EXCEPT ![i] = {}]
    BY <1>4, Zenon DEF Goes
  <2> QED
    BY <1>1, <2>1 DEF Declared
<1>5. CASE Begin(i)
  BY <1>2, <1>3, <1>5, UsesDeclared DEF Begin, Breaks
<1>6. CASE Breaks
  BY <1>3, <1>6 DEF Breaks
<1>7. CASE Throw(i) \/ ListElement(i) \/ ListElements(i)
  BY <1>4, <1>7, Zenon DEF Throw, ListElement, ListElements, Swallowed, Enters
<1>8. CASE GetValue(i) \/ SetValue(i) \/ Var(i) \/ ListAdd(i) \/ Value(i) \/ Return(i)
  BY <1>4, <1>8, Zenon DEF GetValue, SetValue, Var, ListAdd, Value, Return
<1>9. CASE Log(i) \/ ListRemove(i) \/ NextElement(i) \/ LeaveElement(i)
  BY <1>4, <1>6, <1>9, Zenon DEF Log, ListRemove, NextElement, LeaveElement
<1> QED
  BY <1>5, <1>7, <1>8, <1>9 DEF Child

--------------------------------------------------------------------------------
(* The threads and the caller *)

LEMMA CallerJoined ==
    ASSUME TypeOK, Joined, Caller
    PROVE  Joined'
<1> USE AsyncAssumption DEF TypeOK, Children, Joined, ChildrenJoined
<1>1. CASE Launch
  BY <1>1, SMTT(30) DEF Launch
<1>2. CASE LaunchFails
  BY <1>2 DEF LaunchFails
<1>3. CASE AllLaunched
  BY <1>3 DEF AllLaunched
<1>4. CASE Collect
  BY <1>4 DEF Collect
<1>5. CASE Leave
  <2>1. parent' \in {"left", "thrown"} /\ state' = state
    BY <1>5 DEF Leave
  <2>2. \A i \in Children : state[i] # "running"
    <3> TAKE i \in Children
    <3>0. next \in Nat /\ i \in Nat /\ N \in Nat /\ i < N + 1
      OBVIOUS
    <3> HIDE DEF TypeOK, Children
    <3>1. CASE parent = "collect" /\ next = N + 1
      BY <3>0, <3>1
    <3>2. CASE parent = "unwind" /\ \A j \in Children : j < next => state[j] = "ended"
      BY <3>0, <3>2
    <3> QED
      BY <1>5, <3>1, <3>2 DEF Leave
  <2> QED
    BY <2>1, <2>2
<1> QED
  BY <1>1, <1>2, <1>3, <1>4, <1>5 DEF Caller

LEMMA ChildJoined ==
    ASSUME TypeOK, Joined, NEW i \in Children, Child(i)
    PROVE  Joined'
<1>1. UNCHANGED frame
  BY Zenon DEF Child, Begin, Breaks, GetValue, SetValue, Var, Throw, Log, ListAdd,
     ListRemove, ListElement, ListElements, NextElement, LeaveElement, Value, Return,
     Swallowed, Enters, Goes
<1>2. state' = state \/ state' = [state EXCEPT ![i] = "ended"]
  BY Zenon DEF Child, Begin, Breaks, GetValue, SetValue, Var, Throw, Log, ListAdd,
     ListRemove, ListElement, ListElements, NextElement, LeaveElement, Value, Return,
     Swallowed, Enters, Goes
<1>3. state[i] = "running"
  BY Zenon DEF Child, Begin, Breaks, GetValue, SetValue, Var, Throw, Log, ListAdd,
     ListRemove, ListElement, ListElements, NextElement, LeaveElement, Value, Return,
     Ready, At, AtEnd, Loops, Runs
<1> QED
  BY <1>1, <1>2, <1>3 DEF Joined, ChildrenJoined, TypeOK, Children, frame

--------------------------------------------------------------------------------
(* The use of the list *)

LEMMA BeforeFinite ==
    ASSUME NEW p, NEW q \in Nat \ {0}, NEW ts
    PROVE  IsFiniteSet(Before(p, q, ts)) /\ Cardinality(Before(p, q, ts)) \in Nat
<1>1. IsFiniteSet(1..(q - 1))
  BY FS_Interval
<1>2. Before(p, q, ts) \subseteq 1..(q - 1)
  BY DEF Before
<1> QED
  BY <1>1, <1>2, FS_Subset, FS_CardinalityType

LEMMA BeforeCounts ==
    ASSUME NEW p, NEW q \in Nat \ {0}, NEW ts
    PROVE  /\ p[q].tag \in ts =>
                Cardinality(Before(p, q + 1, ts)) = Cardinality(Before(p, q, ts)) + 1
           /\ p[q].tag \notin ts =>
                Cardinality(Before(p, q + 1, ts)) = Cardinality(Before(p, q, ts))
<1>1. IsFiniteSet(Before(p, q, ts))
  BY BeforeFinite
<1>2. q \notin Before(p, q, ts)
  BY DEF Before
<1>3. Cardinality(Before(p, q, ts) \cup {q}) = Cardinality(Before(p, q, ts)) + 1
  BY <1>1, <1>2, FS_AddElement
<1> QED
  BY <1>3, BeforeNext, Zenon

LEMMA BeforeGrows ==
    ASSUME NEW p, NEW q \in Nat \ {0}, NEW r \in Nat \ {0}, q <= r, NEW ts
    PROVE  Cardinality(Before(p, q, ts)) <= Cardinality(Before(p, r, ts))
<1>1. Before(p, q, ts) \subseteq Before(p, r, ts)
  BY DEF Before
<1> QED
  BY <1>1, BeforeFinite, FS_Subset

\* Children that use the list do not conflict only if none of them writes it.
LEMMA OneWriter ==
    ASSUME AllTame, NEW i \in Children, NEW j \in Children \ {i},
           NEW k \in 1..Len(prog[i]), prog[i][k].tag \in {"add", "remove"},
           NEW m \in 1..Len(prog[j])
    PROVE  prog[j][m].tag \notin {"add", "remove", "element", "elements"}
<1> SUFFICES ASSUME prog[j][m].tag \in {"add", "remove", "element", "elements"}
             PROVE  FALSE
  OBVIOUS
<1> DEFINE a == [on |-> "list", write |-> prog[i][k].tag \in {"add", "remove"}]
           b == [on |-> "list", write |-> prog[j][m].tag \in {"add", "remove"}]
<1>1. a \in Touches(prog[i]) /\ b \in Touches(prog[j])
  BY TouchesList
<1>2. a.on = b.on /\ a.write
  OBVIOUS
<1> HIDE DEF a, b
<1>3. Conflict(Touches(prog[i]), Touches(prog[j]))
  BY <1>1, <1>2 DEF Conflict
<1> QED
  BY <1>3 DEF AllTame, Independent

\* Nobody iterates while child i changes the list.
LEMMA NoLoops ==
    ASSUME TypeOK, Places, AllTame, NEW i \in Children, pc[i] \in 1..Len(prog[i]),
           prog[i][pc[i]].tag \in {"add", "remove"},
           NEW j \in Children, NEW k \in 1..Len(scopes[j])
    PROVE  ~scopes[j][k].loop
<1> SUFFICES ASSUME scopes[j][k].loop PROVE FALSE
  OBVIOUS
<1> DEFINE q == scopes[j][k].pc
<1>1. Placed(prog[j], pc[j], Len(own[j]), scopes[j])
  BY DEF Places
<1>2. q \in 1..Len(prog[j]) /\ q < pc[j]
  BY <1>1 DEF Placed, Within
<1>3. prog[j][q].tag = "elements"
  BY <1>1 DEF Placed, Entered
<1>4. CASE j = i
  <2>1. Before(prog[i], pc[i], {"elements"}) = {}
    BY DEF AllTame, Tame
  <2>2. q \in Before(prog[i], pc[i], {"elements"})
    <3>1. pc[i] \in Nat
      BY DEF TypeOK
    <3>2. q \in 1..(pc[i] - 1)
      BY <1>2, <1>4, <3>1
    <3> QED
      BY <1>3, <1>4, <3>2 DEF Before
  <2> QED
    BY <2>1, <2>2
<1>5. CASE j # i
  BY <1>2, <1>3, <1>5, OneWriter
<1> QED
  BY <1>4, <1>5

\* A loop has left the tags behind it that remove elements.
LEMMA RemovesBefore ==
    ASSUME NEW p, Len(p) \in Nat, Tame(p), NEW s \in 1..Len(p), p[s].tag = "elements",
           NEW q \in Nat, s < q, q <= Len(p) + 1
    PROVE  Before(p, s + 1, {"remove"}) = Before(p, q, {"remove"})
<1>1. ASSUME NEW j \in Before(p, q, {"remove"}) PROVE j \in 1..s
  <2>1. j \in 1..(q - 1) /\ p[j].tag = "remove"
    BY DEF Before
  <2>2. j \in 1..Len(p)
    BY <2>1
  <2>3. Before(p, j, {"elements"}) = {}
    BY <2>1, <2>2 DEF Tame
  <2>4. s < j => s \in Before(p, j, {"elements"})
    BY <2>2 DEF Before
  <2> QED
    BY <2>1, <2>2, <2>3, <2>4
<1>2. \A j \in Before(p, q, {"remove"}) : j \in Before(p, s + 1, {"remove"})
  BY <1>1 DEF Before
<1>3. \A j \in Before(p, s + 1, {"remove"}) : j \in Before(p, q, {"remove"})
  BY DEF Before
<1> QED
  BY <1>2, <1>3

LEMMA ChildSound ==
    ASSUME TypeOK, Places, Declared, Sound, AllTame, NEW i \in Children, Child(i)
    PROVE  /\ ~undefined'
           /\ \A j \in Children : Iterates(scopes'[j], list') /\ Left(prog'[j], pc'[j], list')
<1> DEFINE p == prog[i]
           q == pc[i]
           Fine(ss, r) == Iterates(ss, list) /\ Left(p, r, list)
           Goal == /\ ~undefined'
                   /\ \A j \in Children :
                        Iterates(scopes'[j], list') /\ Left(prog'[j], pc'[j], list')
<1>1. /\ p \in Spine /\ Len(p) \in Nat /\ q \in Nat \ {0} /\ scopes[i] \in Seq(Scope)
      /\ list.elems \in Seq(Values) /\ Len(list.elems) \in Nat /\ list.gen \in Nat
      /\ Len(Start) \in Nat
  BY Spines, LenProperties, AsyncAssumption DEF TypeOK, Spine
<1>2. pc \in [Children -> Nat \ {0}] /\ scopes \in [Children -> Seq(Scope)]
  BY DEF TypeOK
<1>3. Placed(p, q, Len(own[i]), scopes[i])
  BY DEF Places
<1>4. /\ ~undefined /\ Fine(scopes[i], q) /\ Tame(p)
      /\ \A j \in Children : Iterates(scopes[j], list) /\ Left(prog[j], pc[j], list)
  BY DEF Sound, AllTame
<1>5. pc = [pc EXCEPT ![i] = q] /\ scopes = [scopes EXCEPT ![i] = scopes[i]]
  BY <1>2
<1>6. ASSUME prog' = prog, undefined' = undefined, list' = list, NEW r, NEW ss,
             pc' = [pc EXCEPT ![i] = r], scopes' = [scopes EXCEPT ![i] = ss], Fine(ss, r)
      PROVE  Goal
  <2> SUFFICES ASSUME NEW j \in Children
               PROVE  Iterates(scopes'[j], list') /\ Left(prog'[j], pc'[j], list')
    BY <1>4, <1>6
  <2>1. CASE j = i
    <3>1. scopes'[j] = ss /\ pc'[j] = r /\ prog'[j] = p
      BY <1>2, <1>6, <2>1
    <3> QED
      BY <1>6, <3>1
  <2>2. CASE j # i
    <3>1. scopes'[j] = scopes[j] /\ pc'[j] = pc[j] /\ prog'[j] = prog[j]
      BY <1>2, <1>6, <2>2
    <3> QED
      BY <1>4, <1>6, <3>1
  <2> QED
    BY <2>1, <2>2
<1>7. ASSUME NEW r, Goes(i, r)
      PROVE  prog' = prog /\ undefined' = undefined /\ pc' = [pc EXCEPT ![i] = r]
  BY <1>7, Zenon DEF Goes
\* forward
<1>8. ASSUME NEW r \in Nat \ {0}, q <= r PROVE Left(p, r, list)
  <2>1. Cardinality(Before(p, q, {"remove"})) <= Cardinality(Before(p, r, {"remove"}))
    BY <1>1, <1>8, BeforeGrows
  <2>2. /\ Cardinality(Before(p, q, {"remove"})) \in Nat
        /\ Cardinality(Before(p, r, {"remove"})) \in Nat
    BY <1>1, BeforeFinite
  <2>3. Writes(p) => Len(Start) <= Len(list.elems) + Cardinality(Before(p, q, {"remove"}))
    BY <1>4 DEF Left
  <2> QED
    BY <1>1, <2>1, <2>2, <2>3 DEF Left
<1> SUFFICES Goal
  OBVIOUS
<1> HIDE DEF Goal, Fine
<1>9. ASSUME NEW r \in Nat \ {0}, q <= r, Goes(i, r), scopes' = scopes, list' = list PROVE Goal
  <2>1. Fine(scopes[i], r)
    BY <1>4, <1>8, <1>9 DEF Fine
  <2> QED
    BY <1>5, <1>6, <1>7, <1>9, <2>1
<1>10. q <= q /\ q <= q + 1 /\ q + 1 \in Nat \ {0} /\ Len(p) + 1 \in Nat \ {0} /\ q <= Len(p) + 1
  BY <1>1, <1>3 DEF Placed
<1>11. ASSUME Swallowed(i) PROVE Goal
  BY <1>1, <1>9, <1>10, <1>11 DEF Swallowed, shared
<1>12. ASSUME NEW loop, NEW r \in 1..Len(list.elems), Enters(i, loop, r) PROVE Goal
  <2> DEFINE s == [pc |-> pc[i], loop |-> loop, pos |-> r, gen |-> list.gen,
                   value |-> list.elems[r], vars |-> Len(own[i])]
             tt == Append(scopes[i], s)
  <2>1. scopes' = [scopes EXCEPT ![i] = tt] /\ Goes(i, q + 1) /\ list' = list
    BY <1>12, Zenon DEF Enters, shared
  <2>2. s.gen = list.gen /\ s.pos = r
    OBVIOUS
  <2>3. r <= Len(list.elems)
    BY <1>1
  <2> HIDE DEF s
  <2>4. /\ Len(scopes[i]) \in Nat /\ Len(tt) = Len(scopes[i]) + 1 /\ tt[Len(scopes[i]) + 1] = s
        /\ \A k \in 1..Len(scopes[i]) : tt[k] = scopes[i][k]
    BY <1>1, LenProperties
  <2> HIDE DEF tt
  <2>5. \A k \in 1..Len(tt) : k \in 1..Len(scopes[i]) \/ k = Len(scopes[i]) + 1
    BY <2>4
  <2>6. Iterates(tt, list)
    <3>1. Iterates(scopes[i], list)
      BY <1>4
    <3> QED
      BY <2>2, <2>3, <2>4, <2>5, <3>1, Zenon DEF Iterates
  <2>7. Left(p, q + 1, list)
    BY <1>8, <1>10
  <2>8. Fine(tt, q + 1)
    BY <2>6, <2>7 DEF Fine
  <2> QED
    BY <1>6, <1>7, <2>1, <2>8
\* no data race
<1>13. CASE Begin(i)
  <2>1. Runs(i)
    BY <1>13 DEF Begin
  <2>2. Uses(i) \subseteq Touches(p)
    BY <2>1, UsesDeclared
  <2>3. \A j \in Children \ {i} : ~Conflict(Uses(i), using[j])
    <3> SUFFICES ASSUME NEW j \in Children \ {i}, Conflict(Uses(i), using[j]) PROVE FALSE
      OBVIOUS
    <3>1. using[j] \subseteq Touches(prog[j])
      BY DEF Declared
    <3>2. Conflict(Touches(p), Touches(prog[j]))
      BY <2>2, <3>1, Zenon DEF Conflict
    <3> QED
      BY <3>2 DEF AllTame, Independent
  <2>4. UNCHANGED <<prog, pc, scopes, list, undefined>>
    BY <1>13, <2>3, Zenon DEF Begin, shared
  <2> QED
    BY <1>4, <2>4 DEF Goal
<1>14. ASSUME NEW t, Ready(i, t) PROVE q \in 1..Len(p) /\ p[q].tag = t
  BY <1>1, <1>14 DEF Ready, At, Tag
<1>15. CASE GetValue(i) \/ SetValue(i) \/ Var(i) \/ Value(i)
  <2>1. Goes(i, q + 1) /\ scopes' = scopes /\ list' = list
    BY <1>15, Zenon DEF GetValue, SetValue, Var, Value, shared
  <2> QED
    BY <1>9, <1>10, <2>1
<1>16. CASE Throw(i) \/ ListElement(i) \/ ListElements(i)
  <2>1. CASE Throw(i)
    BY <1>11, <2>1 DEF Throw
  <2>2. CASE ListElement(i)
    <3>1. Ready(i, "element")
      BY <2>2 DEF ListElement
    <3>2. Tag(i).arg \in Nat
      BY <1>1, <3>1, Spines DEF Ready, At, Tag
    <3>3. Tag(i).arg < Len(list.elems) => Tag(i).arg + 1 \in 1..Len(list.elems)
      BY <1>1, <3>2
    <3> QED
      BY <1>11, <1>12, <2>2, <3>3 DEF ListElement
  <2>3. CASE ListElements(i)
    <3>1. CASE list.elems # <<>> /\ Enters(i, TRUE, 1)
      <4>1. 1 \in 1..Len(list.elems)
        BY <1>1, <3>1, EmptySeq
      <4> QED
        BY <1>12, <3>1, <4>1
    <3>2. CASE Goes(i, Len(p) + 1) /\ UNCHANGED <<state, own, scopes, text, shared>>
      BY <1>9, <1>10, <3>2 DEF shared
    <3> QED
      BY <2>3, <3>1, <3>2 DEF ListElements
  <2> QED
    BY <1>16, <2>1, <2>2, <2>3
<1>17. CASE Log(i)
  <2>1. q \in 1..Len(p) /\ p[q].tag = "log"
    BY <1>14, <1>17 DEF Log
  <2> QED
    BY <1>4, <2>1 DEF Tame
\* a change of the list
<1>18. ASSUME q \in 1..Len(p), p[q].tag \in {"add", "remove"}, prog' = prog,
              undefined' = undefined, scopes' = scopes, pc' = [pc EXCEPT ![i] = q + 1],
              Left(p, q + 1, list')
       PROVE  Goal
  <2> SUFFICES ASSUME NEW j \in Children
               PROVE  Iterates(scopes'[j], list') /\ Left(prog'[j], pc'[j], list')
    BY <1>4, <1>18 DEF Goal
  <2>1. \A k \in 1..Len(scopes[j]) : ~scopes[j][k].loop
    BY <1>18, NoLoops
  <2>2. Iterates(scopes'[j], list')
    BY <1>18, <2>1, Zenon DEF Iterates
  <2>3. CASE j = i
    <3>1. prog'[j] = p /\ pc'[j] = q + 1
      BY <1>2, <1>18, <2>3
    <3> QED
      BY <1>18, <2>2, <3>1
  <2>4. CASE j # i
    <3>1. ~Writes(prog[j])
      <4> SUFFICES ASSUME NEW m \in 1..Len(prog[j]), prog[j][m].tag \in {"add", "remove"}
                   PROVE  FALSE
        BY DEF Writes
      <4> QED
        BY <1>18, <2>4, OneWriter
    <3>2. prog'[j] = prog[j]
      BY <1>18
    <3>3. Left(prog'[j], pc'[j], list')
      BY <3>1, <3>2 DEF Left
    <3> QED
      BY <2>2, <3>3
  <2> QED
    BY <2>3, <2>4
<1>19. /\ Cardinality(Before(p, q, {"remove"})) \in Nat
       /\ Cardinality(Before(p, q + 1, {"remove"})) \in Nat
       /\ Writes(p) => Len(Start) <= Len(list.elems) + Cardinality(Before(p, q, {"remove"}))
  BY <1>1, <1>4, <1>10, BeforeFinite DEF Fine, Left
<1>20. CASE ListAdd(i)
  <2>1. /\ q \in 1..Len(p) /\ p[q].tag = "add" /\ Goes(i, q + 1) /\ scopes' = scopes
        /\ list'.elems = Append(list.elems, Tag(i).arg)
    <3>1. Ready(i, "add") /\ Goes(i, q + 1) /\ scopes' = scopes
      BY <1>20, Zenon DEF ListAdd
    <3>2. list'.elems = Append(list.elems, Tag(i).arg)
      BY <1>20 DEF ListAdd
    <3> QED
      BY <1>14, <3>1, <3>2
  <2>2. Tag(i).arg \in Values
    BY <2>1, Spines DEF Tag
  <2>3. Len(list'.elems) = Len(list.elems) + 1
    BY <1>1, <2>1, <2>2, AppendProperties
  <2>4. Cardinality(Before(p, q + 1, {"remove"})) = Cardinality(Before(p, q, {"remove"}))
    BY <1>1, <2>1, BeforeCounts
  <2>5. Left(p, q + 1, list')
    BY <1>1, <1>19, <2>3, <2>4 DEF Left
  <2> QED
    BY <1>7, <1>18, <2>1, <2>5
<1>21. CASE ListRemove(i)
  <2> DEFINE n == Tag(i).arg
             e == list.elems
  <2>1. q \in 1..Len(p) /\ p[q].tag = "remove"
    BY <1>14, <1>21 DEF ListRemove
  <2>2. n \in Nat /\ Writes(p)
    BY <2>1, Spines DEF Tag, Writes
  <2>3. n + Cardinality(Before(p, q, {"remove"})) < Len(Start)
    BY <1>4, <2>1 DEF Tame, Tag
  <2>4. n < Len(e)
    BY <1>1, <1>19, <2>2, <2>3
  <2>5. ~(n >= Len(e))
    BY <1>1, <2>2, <2>4
  <2>6. /\ list' = [list EXCEPT !.elems = SubSeq(e, 1, n) \o SubSeq(e, n + 2, Len(e))]
        /\ Goes(i, q + 1) /\ scopes' = scopes
    BY <1>21, <2>5, Zenon DEF ListRemove
  <2>7. list'.elems = SubSeq(e, 1, n) \o SubSeq(e, n + 2, Len(e))
    BY <2>6 DEF TypeOK
  <2>8. Len(list'.elems) = Len(e) - 1
    <3> HIDE DEF n, e
    <3>1. \A k \in 1..Len(e) : e[k] \in Values
      BY <1>1, ElementOfSeq DEF e
    <3>2. SubSeq(e, 1, n) \in Seq(Values) /\ Len(SubSeq(e, 1, n)) = n
      <4>1. \A k \in 1..n : e[k] \in Values
        BY <1>1, <2>2, <2>4, <3>1 DEF e
      <4>2. /\ SubSeq(e, 1, n) \in Seq(Values)
            /\ Len(SubSeq(e, 1, n)) = IF 1 <= n THEN n - 1 + 1 ELSE 0
        BY <2>2, <4>1, SubSeqProperties
      <4> QED
        BY <2>2, <4>2
    <3>3. /\ SubSeq(e, n + 2, Len(e)) \in Seq(Values)
          /\ Len(SubSeq(e, n + 2, Len(e))) = Len(e) - n - 1
      <4>0. Len(e) \in Nat /\ n + 2 \in Int
        BY <1>1, <2>2 DEF e
      <4>1. \A k \in (n + 2)..Len(e) : e[k] \in Values
        BY <2>2, <3>1, <4>0
      <4>2. /\ SubSeq(e, n + 2, Len(e)) \in Seq(Values)
            /\ Len(SubSeq(e, n + 2, Len(e))) =
                 IF n + 2 <= Len(e) THEN Len(e) - (n + 2) + 1 ELSE 0
        BY <4>0, <4>1, SubSeqProperties
      <4> QED
        BY <2>2, <2>4, <4>0, <4>2
    <3>4. Len(list'.elems) = n + (Len(e) - n - 1)
      BY <2>7, <3>2, <3>3, ConcatProperties
    <3>5. Len(e) \in Nat
      BY <1>1 DEF e
    <3> QED
      BY <2>2, <3>4, <3>5
  <2>9. Cardinality(Before(p, q + 1, {"remove"})) = Cardinality(Before(p, q, {"remove"})) + 1
    BY <1>1, <2>1, BeforeCounts
  <2>10. Left(p, q + 1, list')
    BY <1>1, <1>19, <2>8, <2>9 DEF Left
  <2> QED
    BY <1>7, <1>18, <2>1, <2>6, <2>10
\* a scope ends
<1>22. ASSUME scopes[i] # <<>>, scopes' = [scopes EXCEPT ![i] = Outer(i)], Goes(i, q),
              list' = list
       PROVE  Goal
  <2>1. \A k \in 1..Len(Outer(i)) : k \in 1..Len(scopes[i]) /\ Outer(i)[k] = scopes[i][k]
    BY <1>1, <1>22, Cut DEF Outer
  <2>2. Iterates(Outer(i), list)
    BY <1>4, <2>1, Zenon DEF Fine, Iterates
  <2>3. Fine(Outer(i), q)
    BY <1>4, <2>2 DEF Fine
  <2> QED
    BY <1>5, <1>6, <1>7, <1>22, <2>3
<1>23. CASE NextElement(i)
  <2> DEFINE s == Inner(i)
             r == s.pos + 1
             t == [s EXCEPT !.pos = r, !.value = list.elems[r]]
             l == Len(scopes[i])
             tt == Append(Outer(i), t)
  <2>1. Loops(i) /\ scopes[i] # <<>> /\ s.loop /\ q = Len(p) + 1
    BY <1>23 DEF NextElement, Loops, AtEnd
  <2>2. /\ l \in Nat \ {0} /\ l \in 1..l /\ Outer(i) \in Seq(Scope) /\ Len(Outer(i)) = l - 1
        /\ \A k \in 1..Len(Outer(i)) : k \in 1..l /\ Outer(i)[k] = scopes[i][k]
    BY <1>1, <2>1, Cut DEF Outer
  <2>3. s \in Scope /\ s.pos \in Nat /\ s.pc \in Nat /\ s.gen \in Nat
    BY <1>1, <2>2, Scopes DEF Inner
  <2>4. s.gen = list.gen /\ s.pos <= Len(list.elems)
    BY <1>4, <2>1, <2>2, Zenon DEF Fine, Iterates, Inner
  <2>5. s.gen = list.gen /\ r <= Len(list.elems) + 1
    BY <1>1, <2>3, <2>4
  <2>6. CASE scopes' = [scopes EXCEPT ![i] = Outer(i)] /\ Goes(i, q) /\ list' = list
    BY <1>22, <2>1, <2>6
  <2>7. CASE /\ r <= Len(list.elems) /\ Goes(i, s.pc + 1) /\ list' = list
             /\ scopes' = [scopes EXCEPT ![i] = tt]
    <3>1. r \in Nat /\ list.elems[r] \in Values
      BY <1>1, <2>3, <2>7, ElementOfSeq
    <3>2. t.gen = s.gen /\ t.pos = r
      <4> HIDE DEF s, r
      <4> QED
        BY <2>3 DEF Scope
    <3>3. t \in Scope
      <4> HIDE DEF s, r
      <4> QED
        BY <2>3, <3>1 DEF Scope
    <3> HIDE DEF t
    <3>4. /\ Len(tt) = l /\ tt[l] = t /\ \A k \in 1..Len(Outer(i)) : tt[k] = Outer(i)[k]
      BY <2>2, <3>3, AppendProperties
    <3>5. \A k \in 1..Len(tt) : k = l \/ k \in 1..Len(Outer(i))
      BY <2>2, <3>4
    <3> HIDE DEF tt, r, l
    <3>6. Iterates(tt, list)
      BY <1>4, <2>2, <2>4, <2>7, <3>2, <3>4, <3>5, Zenon DEF Fine, Iterates, l
    <3>7. s.pc \in 1..Len(p) /\ s.pc < q
      BY <1>3, <2>2 DEF Placed, Within, Inner, l
    <3>8. p[s.pc].tag = "elements"
      BY <1>3, <2>1, <2>2, Zenon DEF Placed, Entered, Inner, l
    <3>9. Before(p, s.pc + 1, {"remove"}) = Before(p, q, {"remove"})
      <4>1. q <= Len(p) + 1 /\ q \in Nat
        BY <1>1, <2>1
      <4> QED
        BY <1>1, <1>4, <3>7, <3>8, <4>1, RemovesBefore
    <3>10. Left(p, s.pc + 1, list)
      BY <1>4, <3>9 DEF Fine, Left
    <3>11. Fine(tt, s.pc + 1)
      BY <3>6, <3>10 DEF Fine
    <3> QED
      BY <1>6, <1>7, <2>7, <3>11
  <2> HIDE DEF r, t, tt, s
  <2> QED
    BY <1>23, <2>5, <2>6, <2>7, Zenon DEF NextElement, shared, r, t, tt, s
<1>24. CASE LeaveElement(i)
  BY <1>22, <1>24 DEF LeaveElement, shared
<1>25. CASE Return(i)
  BY <1>1, <1>9, <1>10, <1>25 DEF Return, shared
<1> QED
  BY <1>13, <1>15, <1>16, <1>17, <1>20, <1>21, <1>23, <1>24, <1>25 DEF Child

--------------------------------------------------------------------------------
(* Theorems *)

LEMMA Starts == Init => IInv
<1> SUFFICES ASSUME Init PROVE IInv
  OBVIOUS
<1>1. Len(Start) \in Nat /\ \A i \in Children : prog[i] \in Spine /\ Len(prog[i]) \in Nat
  BY AsyncAssumption, LenProperties DEF Init, Spine
<1>2. TypeOK
  <2>1. <<>> \in Seq(Values) /\ <<>> \in Seq(Scope)
    BY EmptySeq
  <2>2. list \in [elems : Seq(Values), cap : Nat, gen : Nat]
    BY <1>1, AsyncAssumption DEF Init
  <2>3. next \in 1..(N + 1) /\ x \in Values
    BY AsyncAssumption DEF Init
  <2>4. pc \in [Children -> Nat \ {0}]
    BY DEF Init
  <2>5. using \in [Children -> SUBSET Access]
    BY DEF Init
  <2> QED
    BY <2>1, <2>2, <2>3, <2>4, <2>5, Zenon DEF Init, TypeOK
<1>3. Places
  <2> SUFFICES ASSUME NEW i \in Children PROVE Placed(prog[i], 1, 0, <<>>)
    BY EmptySeq DEF Init, Places
  <2>1. Before(prog[i], 1, {"var"}) = {} /\ 1 <= Len(prog[i]) + 1
    BY <1>1 DEF Before
  <2>2. Within(prog[i], 1, 0, <<>>) /\ Entered(prog[i], <<>>) /\ Nested(<<>>)
    BY EmptySeq DEF Within, Entered, Nested
  <2> QED
    BY <2>1, <2>2, Zenon DEF Placed
<1>4. Declared
  BY DEF Init, Declared
<1>5. Joined
  BY DEF Init, Joined, ChildrenJoined
<1>6. Sound
  <2> SUFFICES ASSUME NEW i \in Children
               PROVE  Iterates(<<>>, list) /\ Left(prog[i], 1, list)
    BY DEF Init, Sound
  <2>1. Iterates(<<>>, list)
    BY EmptySeq DEF Iterates
  <2>2. Len(Start) <= Len(list.elems) + Cardinality(Before(prog[i], 1, {"remove"}))
    <3>1. Cardinality(Before(prog[i], 1, {"remove"})) \in Nat
      BY BeforeFinite
    <3>2. list.elems = Start
      BY DEF Init
    <3> QED
      BY <1>1, <3>1, <3>2
  <2> QED
    BY <2>1, <2>2 DEF Left
<1> QED
  BY <1>2, <1>3, <1>4, <1>5, <1>6 DEF IInv

LEMMA CallerKeeps ==
    ASSUME IInv, Caller
    PROVE  IInv'
<1>1. TypeOK /\ Places /\ Declared /\ Joined /\ Sound
  BY DEF IInv
<1>2. UNCHANGED <<prog, pc, own, scopes, using, list, undefined>>
  BY DEF Caller, Launch, LaunchFails, AllLaunched, Collect, Leave, shared
<1>3. Places' /\ Declared'
  BY <1>1, <1>2 DEF Places, Declared
<1>4. AllTame' = AllTame
  BY <1>2 DEF AllTame, Independent
<1>5. Sound'
  BY <1>1, <1>2, <1>4 DEF Sound
<1> QED
  BY <1>1, <1>3, <1>5, CallerTypes, CallerJoined DEF IInv

LEMMA ChildKeeps ==
    ASSUME IInv, NEW i \in Children, Child(i)
    PROVE  IInv'
<1>1. TypeOK /\ Places /\ Declared /\ Joined /\ Sound
  BY DEF IInv
<1>2. TypeOK' /\ Places' /\ Declared' /\ Joined'
  BY <1>1, ChildTypes, ChildPlaces, ChildDeclared, ChildJoined
<1>3. prog' = prog
  BY Zenon DEF Child, Begin, Breaks, GetValue, SetValue, Var, Throw, Log, ListAdd,
     ListRemove, ListElement, ListElements, NextElement, LeaveElement, Value, Return,
     Swallowed, Enters, Goes
<1>4. AllTame' => AllTame
  BY <1>3 DEF AllTame, Independent
<1>5. Sound'
  BY <1>1, <1>4, ChildSound DEF Sound
<1> QED
  BY <1>2, <1>5 DEF IInv

LEMMA StutterKeeps == IInv /\ UNCHANGED vars => IInv'
<1> SUFFICES ASSUME IInv, UNCHANGED vars PROVE IInv'
  OBVIOUS
<1>1. UNCHANGED <<prog, parent, next, out, state, pc, own, scopes, text, using, x, list,
                  undefined>>
  BY DEF vars, frame, shared
<1>2. TypeOK' /\ Places' /\ Declared' /\ Joined'
  BY <1>1 DEF IInv, TypeOK, Places, Declared, Joined, ChildrenJoined
<1>3. AllTame' = AllTame
  BY <1>1 DEF AllTame, Independent
<1>4. Sound'
  BY <1>1, <1>3 DEF IInv, Sound
<1> QED
  BY <1>2, <1>4 DEF IInv

LEMMA Inductive == IInv /\ [Next]_vars => IInv'
<1> SUFFICES ASSUME IInv, [Next]_vars PROVE IInv'
  OBVIOUS
<1>1. CASE Caller
  BY <1>1, CallerKeeps
<1>2. ASSUME NEW i \in Children, Child(i) PROVE IInv'
  BY <1>2, ChildKeeps
<1>3. CASE UNCHANGED vars
  BY <1>3, StutterKeeps
<1> QED
  BY <1>1, <1>2, <1>3 DEF Next, Over

\* What holds of the caller, the threads and the list at every moment.
THEOREM Invariance == Spec => []IInv
BY Starts, Inductive, PTL DEF Spec

\* The state of dbp:async and its children has its types, whatever tags the children
\* consist of (tag_async.cpp, tag_list.cpp).
THEOREM TypeCorrect == Spec => []TypeOK
<1>1. IInv => TypeOK
  BY DEF IInv
<1> QED
  BY <1>1, Invariance, PTL

\* tag_async::execute returns or throws only when no thread that it has launched runs
\* any more, for any number of children and also when a launch fails.
THEOREM AllJoined == Spec => []ChildrenJoined
<1>1. IInv => ChildrenJoined
  BY DEF IInv, Joined
<1> QED
  BY <1>1, Invariance, PTL

\* Children that are independent by their text, and that use the list as Tame says,
\* run into no data race, no invalid iterator and no erase past the end in any
\* interleaving, for any number of children, any spines and any list.
THEOREM TameDefined == Spec => []TameIsDefined
<1>1. IInv => TameIsDefined
  BY DEF IInv, Sound, TameIsDefined
<1> QED
  BY <1>1, Invariance, PTL

--------------------------------------------------------------------------------
(* What one child sees *)

\* A function with the one argument 1.
LEMMA OneValue ==
    ASSUME NEW v
    PROVE  One(v)[1] = v /\ \A w : [One(v) EXCEPT ![1] = w] = One(w)
<1>1. One(v)[1] = v
  BY DEF One
<1>2. ASSUME NEW w PROVE [One(v) EXCEPT ![1] = w] = One(w)
  <2>1. 1..1 = {1}
    OBVIOUS
  <2> QED
    BY <2>1 DEF One
<1> QED
  BY <1>1, <1>2

\* Where child i is, as the tag with that child only sees it.
LEMMA View ==
    ASSUME NEW i \in Children
    PROVE  /\ Solo(i)!Children = {1}
           /\ Solo(i)!Tag(1) = Tag(i)
           /\ Solo(i)!Runs(1) <=> Runs(i)
           /\ \A t : Solo(i)!At(1, t) <=> At(i, t)
           /\ Solo(i)!AtEnd(1) <=> AtEnd(i)
           /\ Solo(i)!Inner(1) = Inner(i)
           /\ Solo(i)!Outer(1) = Outer(i)
           /\ Solo(i)!Loops(1) <=> Loops(i)
           /\ Solo(i)!Uses(1) = Uses(i)
           /\ \A t : Solo(i)!Ready(1, t) <=> Ready(i, t)
<1>1. \A v : One(v)[1] = v
  BY OneValue
<1>2. Solo(i)!Children = {1}
  BY DEF Solo!Children
<1>3. Solo(i)!Tag(1) = Tag(i)
  BY <1>1, Zenon DEF Solo!Tag, Tag
<1>4. Solo(i)!Runs(1) <=> Runs(i)
  BY <1>1, Zenon DEF Solo!Runs, Runs
<1>5. /\ \A t : Solo(i)!At(1, t) <=> At(i, t)
      /\ Solo(i)!AtEnd(1) <=> AtEnd(i)
  BY <1>1, <1>3, <1>4, Zenon DEF Solo!At, At, Solo!AtEnd, AtEnd
<1>6. Solo(i)!Inner(1) = Inner(i) /\ Solo(i)!Outer(1) = Outer(i)
  BY <1>1, Zenon DEF Solo!Inner, Inner, Solo!Outer, Outer
<1>7. Solo(i)!Loops(1) <=> Loops(i)
  BY <1>1, <1>5, <1>6, Zenon DEF Solo!Loops, Loops
<1>8. Solo(i)!Uses(1) = Uses(i)
  <2>1. One(own[i])[1] = own[i]
    BY <1>1
  <2> DEFINE variable == Tag(i).tag \in {"get", "set"} /\ own[i] = <<>>
             listed == Tag(i).tag \in {"add", "remove", "element", "elements"}
  <2>2. CASE Loops(i)
    BY <1>7, <2>2 DEF Solo!Uses, Uses
  <2>3. CASE ~Loops(i) /\ (~Runs(i) \/ AtEnd(i))
    BY <1>4, <1>5, <1>7, <2>3 DEF Solo!Uses, Uses
  <2>4. CASE ~Loops(i) /\ ~(~Runs(i) \/ AtEnd(i)) /\ variable
    <3>1. Uses(i) = {[on |-> "x", write |-> Tag(i).tag = "set"]}
      BY <2>4 DEF Uses
    <3>2. Solo(i)!Uses(1) = {[on |-> "x", write |-> Tag(i).tag = "set"]}
      BY <1>3, <1>4, <1>5, <1>7, <2>1, <2>4 DEF Solo!Uses
    <3> QED
      BY <3>1, <3>2
  <2>5. CASE ~Loops(i) /\ ~(~Runs(i) \/ AtEnd(i)) /\ ~variable /\ listed
    <3>1. Uses(i) = {[on |-> "list", write |-> Tag(i).tag \in {"add", "remove"}]}
      BY <2>5 DEF Uses
    <3>2. Solo(i)!Uses(1) = {[on |-> "list", write |-> Tag(i).tag \in {"add", "remove"}]}
      BY <1>3, <1>4, <1>5, <1>7, <2>1, <2>5 DEF Solo!Uses
    <3> QED
      BY <3>1, <3>2
  <2>6. CASE ~Loops(i) /\ ~(~Runs(i) \/ AtEnd(i)) /\ ~variable /\ ~listed
    <3>1. Uses(i) = {}
      BY <2>6 DEF Uses
    <3>2. Solo(i)!Uses(1) = {}
      BY <1>3, <1>4, <1>5, <1>7, <2>1, <2>6 DEF Solo!Uses
    <3> QED
      BY <3>1, <3>2
  <2> QED
    BY <2>2, <2>3, <2>4, <2>5, <2>6
<1>9. \A t : Solo(i)!Ready(1, t) <=> Ready(i, t)
  BY <1>1, <1>5, <1>8, Zenon DEF Solo!Ready, Ready
<1> QED
  BY <1>2, <1>3, <1>4, <1>5, <1>6, <1>7, <1>8, <1>9

\* A child that runs has not been waited for.
LEMMA StillAwaited ==
    ASSUME TypeOK, Joined, NEW i \in Children, Runs(i)
    PROVE  ~(Collects /\ i < next)
BY DEF Joined, ChildrenJoined, Collects, Runs

\* The caller stays where it is, also as child i sees it.
LEMMA SameFrame ==
    ASSUME TypeOK, Joined, NEW i \in Children, Runs(i), UNCHANGED <<prog, frame, undefined>>
    PROVE  UNCHANGED <<One(prog[i]), Solo(i)!frame, undefined>>
<1>1. UNCHANGED <<parent, next>>
  BY DEF frame
<1>2. ParentOf(i)' = ParentOf(i) /\ NextOf(i)' = NextOf(i)
  BY <1>1 DEF ParentOf, NextOf, Collects
<1>3. OutOf(i)' = <<>> /\ OutOf(i) = <<>>
  BY <1>1, StillAwaited DEF OutOf, Collects
<1>4. One(prog[i])' = One(prog[i])
  BY DEF One
<1> QED
  BY <1>2, <1>3, <1>4 DEF Solo!frame

\* Child i goes on, and so does the child alone.
LEMMA SoloGoes ==
    ASSUME TypeOK, Joined, NEW i \in Children, Runs(i), NEW q, Goes(i, q)
    PROVE  Solo(i)!Goes(1, q)
<1>1. /\ using' = [using EXCEPT ![i] = {}] /\ pc' = [pc EXCEPT ![i] = q]
      /\ UNCHANGED <<prog, frame, undefined>>
  BY Zenon DEF Goes
<1>2. using'[i] = {} /\ pc'[i] = q
  BY <1>1 DEF TypeOK
<1>3. One(using[i])' = One({}) /\ One(pc[i])' = One(q)
  BY <1>2 DEF One
<1>4. UNCHANGED <<One(prog[i]), Solo(i)!frame, undefined>>
  BY <1>1, SameFrame
<1> QED
  BY <1>3, <1>4, OneValue DEF Solo!Goes

\* What does not change does not change for child i.
LEMMA SameShared ==
    ASSUME NEW i \in Children, prog' = prog
    PROVE  /\ UNCHANGED x => UNCHANGED XOf(i)
           /\ UNCHANGED list => UNCHANGED ListOf(i)
           /\ UNCHANGED shared => UNCHANGED Solo(i)!shared
BY DEF XOf, ListOf, shared, Solo!shared

LEMMA SameOwn ==
    ASSUME NEW i \in Children
    PROVE  /\ UNCHANGED state => UNCHANGED One(state[i])
           /\ UNCHANGED pc => UNCHANGED One(pc[i])
           /\ UNCHANGED own => UNCHANGED One(own[i])
           /\ UNCHANGED scopes => UNCHANGED One(scopes[i])
           /\ UNCHANGED text => UNCHANGED One(text[i])
           /\ UNCHANGED using => UNCHANGED One(using[i])
BY DEF One

\* Each step of a child, for that child alone.
LEMMA SoloVar ==
    ASSUME TypeOK, Joined, NEW i \in Children, Var(i)
    PROVE  Solo(i)!Var(1)
<1>1. /\ Ready(i, "var") /\ own' = [own EXCEPT ![i] = Append(@, Tag(i).arg)]
      /\ Goes(i, pc[i] + 1) /\ UNCHANGED <<state, scopes, text, shared>>
  BY Zenon DEF Var
<1>2. Runs(i) /\ prog' = prog
  BY <1>1, Zenon DEF Ready, At, Goes
<1>3. own'[i] = Append(own[i], Tag(i).arg)
  BY <1>1 DEF TypeOK
<1>4. One(own[i])' = One(Append(own[i], Tag(i).arg))
  BY <1>3 DEF One
<1>5. One(own[i])' = [One(own[i]) EXCEPT ![1] = Append(@, Solo(i)!Tag(1).arg)]
  BY <1>4, OneValue, View
<1>6. Solo(i)!Goes(1, One(pc[i])[1] + 1)
  BY <1>1, <1>2, SoloGoes, OneValue
<1> QED
  BY <1>1, <1>2, <1>5, <1>6, View, SameShared, SameOwn DEF Solo!Var

\* A child sees what it uses.
LEMMA SeesVariable ==
    ASSUME TypeOK, Places, NEW i \in Children, At(i, "get") \/ At(i, "set"), own[i] = <<>>
    PROVE  XOf(i) = x /\ (prog' = prog => XOf(i)' = x')
<1>1. Runs(i) /\ ~AtEnd(i) /\ ~Loops(i) /\ Tag(i).tag \in {"get", "set"}
  BY Spines DEF At, AtEnd, Loops
<1>2. Uses(i) = {[on |-> "x", write |-> Tag(i).tag = "set"]}
  BY <1>1 DEF Uses
<1>3. [on |-> "x", write |-> Tag(i).tag = "set"] \in Touches(prog[i])
  BY <1>1, <1>2, UsesDeclared, Zenon
<1>4. Reaches(prog[i], "x")
  BY <1>3 DEF Reaches
<1> QED
  BY <1>4 DEF XOf

LEMMA SeesList ==
    ASSUME TypeOK, Places, NEW i \in Children,
           Loops(i) \/ \E t \in {"add", "remove", "element", "elements"} : At(i, t)
    PROVE  ListOf(i) = list /\ (prog' = prog => ListOf(i)' = list')
<1>1. Runs(i)
  BY DEF Loops, AtEnd, At
<1>2. PICK b : [on |-> "list", write |-> b] \in Uses(i)
  <2>1. CASE Loops(i)
    BY <2>1 DEF Uses
  <2>2. CASE \E t \in {"add", "remove", "element", "elements"} : At(i, t)
    <3>1. Runs(i) /\ ~AtEnd(i) /\ ~Loops(i)
          /\ Tag(i).tag \in {"add", "remove", "element", "elements"}
      BY <2>2, Spines DEF At, AtEnd, Loops
    <3>2. Uses(i) = {[on |-> "list", write |-> Tag(i).tag \in {"add", "remove"}]}
      BY <3>1 DEF Uses
    <3> QED
      BY <3>2
  <2> QED
    BY <2>1, <2>2
<1>3. [on |-> "list", write |-> b] \in Touches(prog[i])
  BY <1>1, <1>2, UsesDeclared
<1>4. Reaches(prog[i], "list")
  BY <1>3 DEF Reaches
<1> QED
  BY <1>4 DEF ListOf

LEMMA SoloBegin ==
    ASSUME TypeOK, Joined, ~undefined', NEW i \in Children, Begin(i)
    PROVE  Solo(i)!Begin(1)
<1>1. /\ Runs(i) /\ using[i] = {} /\ Uses(i) # {}
      /\ using' = [using EXCEPT ![i] = Uses(i)]
      /\ UNCHANGED <<prog, frame, state, pc, own, scopes, text, shared, undefined>>
  BY Zenon DEF Begin, Breaks
<1>2. using'[i] = Uses(i)
  BY <1>1 DEF TypeOK
<1>3. One(using[i])' = One(Uses(i))
  BY <1>2 DEF One
<1>4. One(using[i])' = [One(using[i]) EXCEPT ![1] = Solo(i)!Uses(1)]
  BY <1>3, OneValue, View
<1>5. UNCHANGED <<One(prog[i]), Solo(i)!frame, undefined>>
  BY <1>1, SameFrame
<1>6. Solo(i)!Children \ {1} = {}
  BY View
<1>7. One(using[i])[1] = {}
  BY <1>1, OneValue
<1> QED
  BY <1>1, <1>4, <1>5, <1>6, <1>7, View, SameShared, SameOwn DEF Solo!Begin

LEMMA SoloSwallowed ==
    ASSUME TypeOK, Joined, NEW i \in Children, Runs(i), Swallowed(i)
    PROVE  Solo(i)!Swallowed(1)
<1>1. /\ state' = [state EXCEPT ![i] = "ended"] /\ text' = [text EXCEPT ![i] = <<>>]
      /\ Goes(i, pc[i]) /\ UNCHANGED <<own, scopes, shared>>
  BY Zenon DEF Swallowed
<1>2. prog' = prog
  BY <1>1 DEF Goes
<1>3. state'[i] = "ended" /\ text'[i] = <<>>
  BY <1>1 DEF TypeOK
<1>4. One(state[i])' = One("ended") /\ One(text[i])' = One(<<>>)
  BY <1>3 DEF One
<1>5. Solo(i)!Goes(1, One(pc[i])[1])
  BY <1>1, SoloGoes, OneValue
<1> QED
  BY <1>1, <1>2, <1>4, <1>5, OneValue, SameShared, SameOwn DEF Solo!Swallowed

LEMMA SoloGetValue ==
    ASSUME TypeOK, Places, Joined, NEW i \in Children, GetValue(i)
    PROVE  Solo(i)!GetValue(1)
<1> DEFINE v == IF own[i] = <<>> THEN x ELSE own[i][Len(own[i])]
<1>1. /\ Ready(i, "get") /\ text' = [text EXCEPT ![i] = Append(@, v)]
      /\ Goes(i, pc[i] + 1) /\ UNCHANGED <<state, own, scopes, shared>>
  BY Zenon DEF GetValue
<1>2. Runs(i) /\ At(i, "get") /\ prog' = prog
  BY <1>1, Zenon DEF Ready, At, Goes
<1>3. text'[i] = Append(text[i], v)
  BY <1>1 DEF TypeOK
<1>4. One(text[i])' = One(Append(text[i], v))
  BY <1>3 DEF One
<1> DEFINE w == IF One(own[i])[1] = <<>> THEN XOf(i)
                ELSE One(own[i])[1][Len(One(own[i])[1])]
<1>5. v = w
  BY <1>2, SeesVariable, OneValue
<1> HIDE DEF v, w
<1>6. One(text[i])' = [One(text[i]) EXCEPT ![1] = Append(@, w)]
  <2>1. One(text[i])[1] = text[i]
    BY OneValue
  <2>2. [One(text[i]) EXCEPT ![1] = Append(text[i], w)] = One(Append(text[i], w))
    BY OneValue, Zenon
  <2> QED
    BY <1>4, <1>5, <2>1, <2>2
<1>7. Solo(i)!Goes(1, One(pc[i])[1] + 1)
  BY <1>1, <1>2, SoloGoes, OneValue
<1> QED
  BY <1>1, <1>2, <1>6, <1>7, View, SameShared, SameOwn DEF Solo!GetValue, w

LEMMA SoloSetValue ==
    ASSUME TypeOK, Places, Joined, NEW i \in Children, SetValue(i)
    PROVE  Solo(i)!SetValue(1)
<1>1. /\ Ready(i, "set") /\ Goes(i, pc[i] + 1) /\ UNCHANGED <<state, scopes, text, list>>
  BY Zenon DEF SetValue
<1>2. Runs(i) /\ At(i, "set") /\ prog' = prog
  BY <1>1, Zenon DEF Ready, At, Goes
<1>3. Solo(i)!Goes(1, One(pc[i])[1] + 1)
  BY <1>1, <1>2, SoloGoes, OneValue
<1>4. One(own[i])[1] = own[i] /\ Solo(i)!Tag(1) = Tag(i)
  BY OneValue, View
<1>5. CASE own[i] = <<>>
  <2>1. x' = Tag(i).arg /\ UNCHANGED own
    BY <1>5 DEF SetValue
  <2>2. XOf(i)' = Tag(i).arg
    BY <1>2, <1>5, <2>1, SeesVariable
  <2> QED
    BY <1>1, <1>2, <1>3, <1>4, <1>5, <2>1, <2>2, View, SameShared, SameOwn DEF Solo!SetValue
<1>6. CASE own[i] # <<>>
  <2> DEFINE n == Len(own[i])
             w == [own[i] EXCEPT ![n] = Tag(i).arg]
  <2>1. own' = [own EXCEPT ![i] = w] /\ UNCHANGED x
    BY <1>6 DEF SetValue
  <2>2. own'[i] = w
    BY <2>1 DEF TypeOK
  <2>3. One(own[i])' = One(w)
    BY <2>2 DEF One
  <2>4. One(w) = [One(own[i]) EXCEPT ![1] = w]
    BY OneValue
  <2>5. One(own[i])' = [One(own[i]) EXCEPT ![1][Len(One(own[i])[1])] = Solo(i)!Tag(1).arg]
    BY <1>4, <2>3, <2>4
  <2> QED
    BY <1>1, <1>2, <1>3, <1>4, <1>6, <2>1, <2>5, View, SameShared, SameOwn
       DEF Solo!SetValue
<1> QED
  BY <1>5, <1>6

LEMMA SoloListAdd ==
    ASSUME TypeOK, Places, Joined, NEW i \in Children, ListAdd(i)
    PROVE  Solo(i)!ListAdd(1)
<1>1. /\ Ready(i, "add") /\ Goes(i, pc[i] + 1) /\ UNCHANGED <<state, own, scopes, text, x>>
  BY Zenon DEF ListAdd
<1>2. Runs(i) /\ At(i, "add") /\ prog' = prog
  BY <1>1, Zenon DEF Ready, At, Goes
<1>3. Solo(i)!Goes(1, One(pc[i])[1] + 1)
  BY <1>1, <1>2, SoloGoes, OneValue
<1>4. ListOf(i) = list /\ ListOf(i)' = list'
  BY <1>2, SeesList
<1>5. Solo(i)!Tag(1) = Tag(i) /\ Solo(i)!Ready(1, "add")
  BY <1>1, View
<1> QED
  BY <1>1, <1>2, <1>3, <1>4, <1>5, SameShared, SameOwn DEF Solo!ListAdd, ListAdd

LEMMA SoloListRemove ==
    ASSUME TypeOK, Places, Joined, ~undefined', NEW i \in Children, ListRemove(i)
    PROVE  Solo(i)!ListRemove(1)
<1>1. /\ Ready(i, "remove") /\ Goes(i, pc[i] + 1) /\ UNCHANGED <<state, own, scopes, text, x>>
  BY Zenon DEF ListRemove, Breaks
<1>2. Runs(i) /\ At(i, "remove") /\ prog' = prog
  BY <1>1, Zenon DEF Ready, At, Goes
<1>3. Solo(i)!Goes(1, One(pc[i])[1] + 1)
  BY <1>1, <1>2, SoloGoes, OneValue
<1>4. ListOf(i) = list /\ ListOf(i)' = list'
  BY <1>2, SeesList
<1>5. Solo(i)!Tag(1) = Tag(i) /\ Solo(i)!Ready(1, "remove")
  BY <1>1, View
<1>6. /\ Tag(i).arg < Len(list.elems)
      /\ list' = [list EXCEPT !.elems = SubSeq(@, 1, Tag(i).arg)
                                        \o SubSeq(@, Tag(i).arg + 2, Len(@))]
  BY DEF ListRemove, Breaks
<1> QED
  BY <1>1, <1>2, <1>3, <1>4, <1>5, <1>6, SameShared, SameOwn DEF Solo!ListRemove

LEMMA SoloEnters ==
    ASSUME TypeOK, Joined, NEW i \in Children, Runs(i), ListOf(i) = list,
           NEW b, NEW p, Enters(i, b, p)
    PROVE  Solo(i)!Enters(1, b, p)
<1> DEFINE e == [pc |-> pc[i], loop |-> b, pos |-> p, gen |-> list.gen,
                 value |-> list.elems[p], vars |-> Len(own[i])]
           f == [pc |-> One(pc[i])[1], loop |-> b, pos |-> p, gen |-> ListOf(i).gen,
                 value |-> ListOf(i).elems[p], vars |-> Len(One(own[i])[1])]
<1>1. /\ scopes' = [scopes EXCEPT ![i] = Append(@, e)] /\ Goes(i, pc[i] + 1)
      /\ UNCHANGED <<state, own, text, shared>>
  BY Zenon DEF Enters
<1>2. e = f
  BY OneValue
<1> HIDE DEF e, f
<1>3. scopes'[i] = Append(scopes[i], f)
  BY <1>1, <1>2 DEF TypeOK
<1>4. One(scopes[i])' = One(Append(scopes[i], f))
  BY <1>3 DEF One
<1>5. One(scopes[i])' = [One(scopes[i]) EXCEPT ![1] = Append(@, f)]
  BY <1>4, OneValue
<1>6. Solo(i)!Goes(1, One(pc[i])[1] + 1)
  BY <1>1, SoloGoes, OneValue
<1>7. prog' = prog
  BY <1>1 DEF Goes
<1> QED
  BY <1>1, <1>5, <1>6, <1>7, SameShared, SameOwn, Zenon DEF Solo!Enters, f

LEMMA SoloListElement ==
    ASSUME TypeOK, Places, Joined, NEW i \in Children, ListElement(i)
    PROVE  Solo(i)!ListElement(1)
<1>1. Runs(i) /\ At(i, "element") /\ Ready(i, "element")
  BY Zenon DEF ListElement, Ready, At
<1>2. ListOf(i) = list
  BY <1>1, SeesList
<1>3. Solo(i)!Tag(1) = Tag(i) /\ Solo(i)!Ready(1, "element")
  BY <1>1, View
<1>4. \/ Tag(i).arg < Len(list.elems) /\ Enters(i, FALSE, Tag(i).arg + 1)
      \/ Tag(i).arg >= Len(list.elems) /\ Swallowed(i)
  BY Zenon DEF ListElement
<1>5. \/ Tag(i).arg < Len(list.elems) /\ Solo(i)!Enters(1, FALSE, Tag(i).arg + 1)
      \/ Tag(i).arg >= Len(list.elems) /\ Solo(i)!Swallowed(1)
  BY <1>1, <1>2, <1>4, SoloEnters, SoloSwallowed
<1> QED
  BY <1>2, <1>3, <1>5, Zenon DEF Solo!ListElement

LEMMA SoloListElements ==
    ASSUME TypeOK, Places, Joined, NEW i \in Children, ListElements(i)
    PROVE  Solo(i)!ListElements(1)
<1>1. Runs(i) /\ At(i, "elements") /\ Ready(i, "elements")
  BY Zenon DEF ListElements, Ready, At
<1>2. ListOf(i) = list
  BY <1>1, SeesList
<1>3. Solo(i)!Ready(1, "elements") /\ One(prog[i])[1] = prog[i]
  BY <1>1, View, OneValue
<1>4. CASE list.elems # <<>> /\ Enters(i, TRUE, 1)
  <2>1. Solo(i)!Enters(1, TRUE, 1)
    BY <1>1, <1>2, <1>4, SoloEnters
  <2> QED
    BY <1>2, <1>3, <1>4, <2>1 DEF Solo!ListElements
<1>5. CASE /\ list.elems = <<>> /\ Goes(i, Len(prog[i]) + 1)
           /\ UNCHANGED <<state, own, scopes, text, shared>>
  <2>1. Solo(i)!Goes(1, Len(prog[i]) + 1) /\ prog' = prog
    BY <1>1, <1>5, SoloGoes DEF Goes
  <2> QED
    BY <1>2, <1>3, <1>5, <2>1, SameShared, SameOwn DEF Solo!ListElements
<1> QED
  BY <1>4, <1>5, Zenon DEF ListElements

LEMMA SoloNextElement ==
    ASSUME TypeOK, Places, Joined, ~undefined', NEW i \in Children, NextElement(i)
    PROVE  Solo(i)!NextElement(1)
<1> DEFINE s == Inner(i)
           p == s.pos + 1
           valid == s.gen = list.gen /\ p <= Len(list.elems) + 1
<1>1. Loops(i) /\ using[i] = Uses(i)
  BY Zenon DEF NextElement
<1>2. Runs(i) /\ ListOf(i) = list
  BY <1>1, SeesList DEF Loops, AtEnd
<1>3. /\ Solo(i)!Loops(1) /\ One(using[i])[1] = Solo(i)!Uses(1)
      /\ Solo(i)!Inner(1) = Inner(i) /\ Solo(i)!Outer(1) = Outer(i)
  BY <1>1, View, OneValue
<1>4. CASE /\ valid /\ p = Len(list.elems) + 1
           /\ scopes' = [scopes EXCEPT ![i] = Outer(i)]
           /\ Goes(i, pc[i])
           /\ UNCHANGED <<state, own, text, shared>>
  <2>1. Solo(i)!Goes(1, One(pc[i])[1]) /\ prog' = prog
    BY <1>2, <1>4, SoloGoes, OneValue DEF Goes
  <2>2. scopes'[i] = Outer(i)
    BY <1>4 DEF TypeOK
  <2>3. One(scopes[i])' = One(Outer(i))
    BY <2>2 DEF One
  <2>4. One(scopes[i])' = [One(scopes[i]) EXCEPT ![1] = Solo(i)!Outer(1)]
    BY <1>3, <2>3, OneValue
  <2> QED
    BY <1>2, <1>3, <1>4, <2>1, <2>4, SameShared, SameOwn DEF Solo!NextElement
<1>5. CASE /\ valid /\ p <= Len(list.elems)
           /\ scopes' = [scopes EXCEPT ![i] =
                           Append(Outer(i), [s EXCEPT !.pos = p, !.value = list.elems[p]])]
           /\ own' = [own EXCEPT ![i] = SubSeq(@, 1, s.vars)]
           /\ Goes(i, s.pc + 1)
           /\ UNCHANGED <<state, text, shared>>
  <2> DEFINE ss == Append(Outer(i), [s EXCEPT !.pos = p, !.value = list.elems[p]])
             vs == SubSeq(own[i], 1, s.vars)
  <2>1. Solo(i)!Goes(1, s.pc + 1) /\ prog' = prog
    BY <1>2, <1>5, SoloGoes DEF Goes
  <2> HIDE DEF ss
  <2>2. scopes'[i] = ss
    BY <1>5 DEF TypeOK, ss
  <2>3. own'[i] = vs
    BY <1>5 DEF TypeOK
  <2>4. One(scopes[i])' = One(ss) /\ One(own[i])' = One(vs)
    BY <2>2, <2>3 DEF One
  <2>5. One(scopes[i])' = [One(scopes[i]) EXCEPT ![1] = ss]
    BY <2>4, OneValue
  <2>6. One(own[i])' = [One(own[i]) EXCEPT ![1] = SubSeq(@, 1, s.vars)]
    <3>1. One(own[i])[1] = own[i]
      BY OneValue
    <3>2. [One(own[i]) EXCEPT ![1] = vs] = One(vs)
      BY OneValue, Zenon
    <3> QED
      BY <2>4, <3>1, <3>2
  <2>7. ss = Append(Solo(i)!Outer(1), [Solo(i)!Inner(1) EXCEPT !.pos = p,
                                         !.value = ListOf(i).elems[p]])
    BY <1>2, <1>3 DEF ss
  <2> QED
    BY <1>2, <1>3, <1>5, <2>1, <2>5, <2>6, <2>7, SameShared, SameOwn DEF Solo!NextElement
<1> QED
  BY <1>4, <1>5, Zenon DEF NextElement, Breaks

LEMMA SoloLeaveElement ==
    ASSUME TypeOK, Joined, NEW i \in Children, LeaveElement(i)
    PROVE  Solo(i)!LeaveElement(1)
<1>1. /\ AtEnd(i) /\ scopes[i] # <<>> /\ ~Inner(i).loop
      /\ scopes' = [scopes EXCEPT ![i] = Outer(i)] /\ Goes(i, pc[i])
      /\ UNCHANGED <<state, own, text, shared>>
  BY Zenon DEF LeaveElement
<1>2. Runs(i) /\ prog' = prog
  BY <1>1, Zenon DEF AtEnd, Goes
<1>3. scopes'[i] = Outer(i)
  BY <1>1 DEF TypeOK
<1>4. One(scopes[i])' = One(Outer(i))
  BY <1>3 DEF One
<1>5. One(scopes[i])' = [One(scopes[i]) EXCEPT ![1] = Solo(i)!Outer(1)]
  BY <1>4, OneValue, View
<1>6. Solo(i)!Goes(1, One(pc[i])[1])
  BY <1>1, <1>2, SoloGoes, OneValue
<1>7. One(scopes[i])[1] # <<>>
  BY <1>1, OneValue
<1> QED
  BY <1>1, <1>2, <1>5, <1>6, <1>7, View, SameShared, SameOwn DEF Solo!LeaveElement

LEMMA SoloValue ==
    ASSUME TypeOK, Joined, NEW i \in Children, Value(i)
    PROVE  Solo(i)!Value(1)
<1>1. /\ Ready(i, "value") /\ Goes(i, pc[i] + 1) /\ UNCHANGED <<state, own, scopes, shared>>
  BY Zenon DEF Value
<1>2. Runs(i) /\ prog' = prog
  BY <1>1, Zenon DEF Ready, At, Goes
<1>3. Solo(i)!Goes(1, One(pc[i])[1] + 1)
  BY <1>1, <1>2, SoloGoes, OneValue
<1>4. One(scopes[i])[1] = scopes[i] /\ Solo(i)!Inner(1) = Inner(i)
  BY OneValue, View
<1>5. One(text[i])' = IF One(scopes[i])[1] = <<>> THEN One(text[i])
                      ELSE [One(text[i]) EXCEPT ![1] = Append(@, Solo(i)!Inner(1).value)]
  <2>1. CASE scopes[i] = <<>>
    BY <1>4, <2>1, SameOwn DEF Value
  <2>2. CASE scopes[i] # <<>>
    <3>1. text'[i] = Append(text[i], Inner(i).value)
      BY <2>2 DEF Value, TypeOK
    <3>2. One(text[i])' = One(Append(text[i], Inner(i).value))
      BY <3>1 DEF One
    <3>3. One(text[i])[1] = text[i]
      BY OneValue
    <3>4. [One(text[i]) EXCEPT ![1] = Append(text[i], Inner(i).value)]
            = One(Append(text[i], Inner(i).value))
      BY OneValue, Zenon
    <3> QED
      BY <1>4, <2>2, <3>2, <3>3, <3>4
  <2> QED
    BY <2>1, <2>2
<1> QED
  BY <1>1, <1>2, <1>3, <1>5, View, SameShared, SameOwn DEF Solo!Value

LEMMA SoloReturn ==
    ASSUME TypeOK, Joined, NEW i \in Children, Return(i)
    PROVE  Solo(i)!Return(1)
<1>1. /\ AtEnd(i) /\ scopes[i] = <<>> /\ state' = [state EXCEPT ![i] = "ended"]
      /\ Goes(i, pc[i]) /\ UNCHANGED <<own, scopes, text, shared>>
  BY Zenon DEF Return
<1>2. Runs(i) /\ prog' = prog
  BY <1>1, Zenon DEF AtEnd, Goes
<1>3. state'[i] = "ended"
  BY <1>1 DEF TypeOK
<1>4. One(state[i])' = One("ended")
  BY <1>3 DEF One
<1>5. One(state[i])' = [One(state[i]) EXCEPT ![1] = "ended"]
  BY <1>4, OneValue
<1>6. Solo(i)!Goes(1, One(pc[i])[1])
  BY <1>1, <1>2, SoloGoes, OneValue
<1>7. One(scopes[i])[1] = <<>>
  BY <1>1, OneValue
<1> QED
  BY <1>1, <1>2, <1>5, <1>6, <1>7, View, SameShared, SameOwn DEF Solo!Return

\* The step of a child is a step of the same child alone.
LEMMA OwnStep ==
    ASSUME TypeOK, Places, Joined, ~undefined', NEW i \in Children, Child(i)
    PROVE  Solo(i)!Next
<1>1. ASSUME Throw(i) PROVE Solo(i)!Throw(1)
  <2>1. Ready(i, "throw") /\ Runs(i) /\ Swallowed(i)
    BY <1>1, Zenon DEF Throw, Ready, At
  <2> QED
    BY <2>1, View, SoloSwallowed DEF Solo!Throw
<1>2. ~Log(i)
  BY DEF Log, Breaks
<1>3. Solo(i)!Child(1)
  BY <1>2, SoloBegin, SoloGetValue, SoloSetValue, SoloVar, SoloListAdd, SoloListRemove,
     SoloListElement, SoloListElements, SoloNextElement, SoloLeaveElement, SoloValue,
     SoloReturn, <1>1, Zenon DEF Child, Solo!Child
<1> QED
  BY <1>3, View DEF Solo!Next

\* What one child writes, no other one reaches.
LEMMA NotReached ==
    ASSUME AllTame, NEW i \in Children, NEW j \in Children \ {i}, NEW u \in Touches(prog[j]),
           u.write
    PROVE  ~Reaches(prog[i], u.on)
<1> SUFFICES ASSUME NEW v \in Touches(prog[i]), v.on = u.on PROVE FALSE
  BY DEF Reaches
<1>1. Conflict(Touches(prog[j]), Touches(prog[i]))
  BY DEF Conflict
<1> QED
  BY <1>1 DEF AllTame, Independent

\* The step of a child leaves alone what another one has and sees.
LEMMA OthersKept ==
    ASSUME TypeOK, Places, AllTame, undefined' = undefined, NEW i \in Children,
           NEW j \in Children \ {i}, Child(j)
    PROVE  /\ prog' = prog /\ UNCHANGED frame
           /\ pc'[i] = pc[i] /\ using'[i] = using[i] /\ state'[i] = state[i]
           /\ text'[i] = text[i] /\ own'[i] = own[i] /\ scopes'[i] = scopes[i]
           /\ XOf(i)' = XOf(i) /\ ListOf(i)' = ListOf(i)
<1>0. j \in Children /\ j # i
  OBVIOUS
<1>1. Runs(j)
  BY Zenon DEF Child, Begin, GetValue, SetValue, Var, Throw, Log, ListAdd,
     ListRemove, ListElement, ListElements, NextElement, LeaveElement, Value, Return,
     Ready, At, AtEnd, Loops
<1>2. prog' = prog /\ UNCHANGED frame
  BY Zenon DEF Child, Begin, Breaks, GetValue, SetValue, Var, Throw, Log, ListAdd,
     ListRemove, ListElement, ListElements, NextElement, LeaveElement, Value, Return,
     Swallowed, Enters, Goes
<1>3. pc' = pc \/ \E v : pc' = [pc EXCEPT ![j] = v]
  BY Zenon DEF Child, Begin, Breaks, GetValue, SetValue, Var, Throw, Log, ListAdd,
     ListRemove, ListElement, ListElements, NextElement, LeaveElement, Value, Return,
     Swallowed, Enters, Goes
<1>4. using' = using \/ \E v : using' = [using EXCEPT ![j] = v]
  BY Zenon DEF Child, Begin, Breaks, GetValue, SetValue, Var, Throw, Log, ListAdd,
     ListRemove, ListElement, ListElements, NextElement, LeaveElement, Value, Return,
     Swallowed, Enters, Goes
<1>5. state' = state \/ \E v : state' = [state EXCEPT ![j] = v]
  BY Zenon DEF Child, Begin, Breaks, GetValue, SetValue, Var, Throw, Log, ListAdd,
     ListRemove, ListElement, ListElements, NextElement, LeaveElement, Value, Return,
     Swallowed, Enters, Goes
<1>6. text' = text \/ \E v : text' = [text EXCEPT ![j] = v]
  BY Zenon DEF Child, Begin, Breaks, GetValue, SetValue, Var, Throw, Log, ListAdd,
     ListRemove, ListElement, ListElements, NextElement, LeaveElement, Value, Return,
     Swallowed, Enters, Goes
<1>7. own' = own \/ \E v : own' = [own EXCEPT ![j] = v]
  BY Zenon DEF Child, Begin, Breaks, GetValue, SetValue, Var, Throw, Log, ListAdd,
     ListRemove, ListElement, ListElements, NextElement, LeaveElement, Value, Return,
     Swallowed, Enters, Goes
<1>8. scopes' = scopes \/ \E v : scopes' = [scopes EXCEPT ![j] = v]
  BY Zenon DEF Child, Begin, Breaks, GetValue, SetValue, Var, Throw, Log, ListAdd,
     ListRemove, ListElement, ListElements, NextElement, LeaveElement, Value, Return,
     Swallowed, Enters, Goes
<1>9. /\ pc'[i] = pc[i] /\ using'[i] = using[i] /\ state'[i] = state[i]
      /\ text'[i] = text[i] /\ own'[i] = own[i] /\ scopes'[i] = scopes[i]
  BY <1>0, <1>3, <1>4, <1>5, <1>6, <1>7, <1>8 DEF TypeOK
<1>10. XOf(i)' = XOf(i)
  <2>1. CASE UNCHANGED x
    BY <1>2, <2>1, SameShared
  <2>2. CASE SetValue(j) /\ own[j] = <<>>
    <3>1. At(j, "set")
      BY <2>2, Zenon DEF SetValue, Ready
    <3>2. ~AtEnd(j) /\ ~Loops(j) /\ Tag(j).tag = "set"
      BY <3>1, <1>0, Spines DEF At, AtEnd, Loops
    <3>3. Uses(j) = {[on |-> "x", write |-> Tag(j).tag = "set"]}
      BY <1>1, <2>2, <3>2 DEF Uses
    <3>4. [on |-> "x", write |-> Tag(j).tag = "set"] \in Touches(prog[j])
      BY <1>0, <1>1, <3>3, UsesDeclared, Zenon
    <3> DEFINE u == [on |-> "x", write |-> Tag(j).tag = "set"]
    <3>5. u.on = "x" /\ u.write
      BY <3>2
    <3>6. u \in Touches(prog[j])
      BY <3>4
    <3> HIDE DEF u
    <3>7. ~Reaches(prog[i], "x")
      BY <3>5, <3>6, NotReached
    <3> QED
      BY <1>2, <3>7 DEF XOf
  <2> QED
    BY <2>1, <2>2, Zenon DEF Child, Begin, Breaks, GetValue, SetValue, Var, Throw, Log,
       ListAdd, ListRemove, ListElement, ListElements, NextElement, LeaveElement, Value,
       Return, Swallowed, Enters, shared
<1>11. ListOf(i)' = ListOf(i)
  <2>1. CASE UNCHANGED list
    BY <1>2, <2>1, SameShared
  <2>2. CASE ListAdd(j) \/ ListRemove(j)
    <3>1. At(j, "add") \/ At(j, "remove")
      BY <2>2, Zenon DEF ListAdd, ListRemove, Ready
    <3>2. pc[j] \in 1..Len(prog[j]) /\ Tag(j).tag \in {"add", "remove"}
      BY <3>1, <1>0, Spines DEF At
    <3> DEFINE u == [on |-> "list", write |-> prog[j][pc[j]].tag \in {"add", "remove"}]
    <3>3. u.on = "list" /\ u.write
      BY <3>2 DEF Tag
    <3>4. u \in Touches(prog[j])
      BY <3>2, TouchesList DEF Tag
    <3> HIDE DEF u
    <3>5. ~Reaches(prog[i], "list")
      BY <3>3, <3>4, NotReached
    <3> QED
      BY <1>2, <3>5 DEF ListOf
  <2> QED
    BY <2>1, <2>2, Zenon DEF Child, Begin, Breaks, GetValue, SetValue, Var, Throw, Log,
       ListElement, ListElements, NextElement, LeaveElement, Value,
       Return, Swallowed, Enters, shared
<1> QED
  BY <1>2, <1>9, <1>10, <1>11

\* The step of a child is no step for another one.
LEMMA OtherStep ==
    ASSUME TypeOK, Places, AllTame, undefined' = undefined, NEW i \in Children,
           NEW j \in Children \ {i}, Child(j)
    PROVE  UNCHANGED Solo(i)!vars
<1>1. /\ prog' = prog /\ UNCHANGED frame
      /\ pc'[i] = pc[i] /\ using'[i] = using[i] /\ state'[i] = state[i]
      /\ text'[i] = text[i] /\ own'[i] = own[i] /\ scopes'[i] = scopes[i]
      /\ XOf(i)' = XOf(i) /\ ListOf(i)' = ListOf(i)
  BY OthersKept
<1>2. OutOf(i)' = OutOf(i) /\ ParentOf(i)' = ParentOf(i) /\ NextOf(i)' = NextOf(i)
  BY <1>1 DEF OutOf, ParentOf, NextOf, Collects, frame
<1>3. /\ UNCHANGED <<One(prog[i]), One(state[i]), One(pc[i]), One(own[i])>>
      /\ UNCHANGED <<One(scopes[i]), One(text[i]), One(using[i])>>
  BY <1>1 DEF One
<1> QED
  BY <1>1, <1>2, <1>3 DEF Solo!vars, Solo!frame, Solo!shared

\* A step of the caller is a step of the caller of child i alone, or none.
LEMMA CallerStep ==
    ASSUME TypeOK, Joined, Caller, NEW i \in Children
    PROVE  [Solo(i)!Next]_(Solo(i)!vars)
<1>1. UNCHANGED <<prog, pc, own, scopes, text, using, x, list, undefined>>
  BY DEF Caller, Launch, LaunchFails, AllLaunched, Collect, Leave, shared
<1>2. /\ UNCHANGED <<One(prog[i]), One(pc[i]), One(own[i]), One(scopes[i])>>
      /\ UNCHANGED <<One(text[i]), One(using[i]), Solo(i)!shared, undefined>>
  BY <1>1, SameShared DEF One, shared
<1>3. One(state[i])[1] = state[i] /\ One(text[i])[1] = text[i]
  BY OneValue
<1>4. /\ i \in Nat \ {0} /\ i <= N /\ N \in Nat /\ next \in Nat /\ text[i] \in Seq(Values)
      /\ i \in DOMAIN state
  BY AsyncAssumption DEF TypeOK, Children
<1>5. ASSUME UNCHANGED <<ParentOf(i), NextOf(i), OutOf(i), One(state[i])>>
      PROVE  UNCHANGED Solo(i)!vars
  BY <1>2, <1>5 DEF Solo!vars, Solo!frame
<1>6. UNCHANGED state => UNCHANGED One(state[i])
  BY SameOwn
<1>7. CASE Launch
  <2>1. /\ ~undefined /\ parent = "launch" /\ parent' = "launch" /\ next' = next + 1
        /\ state' = [state EXCEPT ![next] = "running"]
    BY <1>7 DEF Launch
  <2>2. ParentOf(i) = "launch" /\ ParentOf(i)' = "launch" /\ OutOf(i) = <<>> /\ OutOf(i)' = <<>>
    BY <2>1 DEF ParentOf, OutOf, Collects
  <2>3. CASE i = next
    <3>1. NextOf(i) = 1 /\ NextOf(i)' = 2
      BY <1>4, <2>1, <2>3 DEF NextOf
    <3>2. state'[i] = "running"
      BY <1>4, <2>1, <2>3
    <3>3. One(state[i])' = One("running")
      BY <3>2 DEF One
    <3>4. One(state[i])' = [One(state[i]) EXCEPT ![1] = "running"]
      BY <3>3, OneValue
    <3>5. Solo(i)!Launch
      BY <1>2, <2>1, <2>2, <3>1, <3>4 DEF Solo!Launch
    <3> QED
      BY <3>5 DEF Solo!Next, Solo!Caller
  <2>4. CASE i # next
    <3>1. state'[i] = state[i]
      BY <1>4, <2>1, <2>4
    <3>2. One(state[i])' = One(state[i])
      BY <3>1 DEF One
    <3>3. NextOf(i)' = NextOf(i)
      BY <1>4, <2>1, <2>4 DEF NextOf
    <3> QED
      BY <1>5, <2>2, <3>2, <3>3
  <2> QED
    BY <2>3, <2>4
<1>8. CASE LaunchFails
  <2>1. ParentOf(i)' = ParentOf(i) /\ NextOf(i)' = NextOf(i) /\ OutOf(i)' = OutOf(i)
    BY <1>8 DEF LaunchFails, ParentOf, NextOf, OutOf, Collects
  <2> QED
    BY <1>5, <1>6, <1>8, <2>1 DEF LaunchFails
<1>9. CASE AllLaunched
  <2>1. /\ ~undefined /\ parent = "launch" /\ next = N + 1 /\ parent' = "collect"
        /\ next' = 1 /\ state' = state
    BY <1>9 DEF AllLaunched
  <2>2. NextOf(i) = 2 /\ NextOf(i)' = 1
    BY <1>4, <2>1 DEF NextOf
  <2>3. ParentOf(i) = "launch" /\ ParentOf(i)' = "collect"
    BY <2>1 DEF ParentOf, Collects
  <2>4. OutOf(i) = <<>> /\ OutOf(i)' = <<>>
    BY <1>4, <2>1 DEF OutOf, Collects
  <2>5. Solo(i)!AllLaunched
    BY <1>2, <1>6, <2>1, <2>2, <2>3, <2>4 DEF Solo!AllLaunched
  <2> QED
    BY <2>5 DEF Solo!Next, Solo!Caller
<1>10. CASE Collect
  <2>1. /\ ~undefined /\ parent = "collect" /\ parent' = "collect" /\ next' = next + 1
        /\ state[next] = "ended" /\ state' = state /\ text' = text
    BY <1>10 DEF Collect
  <2>2. ParentOf(i) = "collect" /\ ParentOf(i)' = "collect"
    BY <2>1 DEF ParentOf, Collects
  <2>3. CASE i = next
    <3>1. NextOf(i) = 1 /\ NextOf(i)' = 2
      BY <1>4, <2>1, <2>3 DEF NextOf
    <3>2. OutOf(i) = <<>>
      BY <1>4, <2>3 DEF OutOf
    <3>3. OutOf(i)' = text[i]
      BY <1>4, <2>1, <2>3 DEF OutOf, Collects
    <3>4. OutOf(i)' = OutOf(i) \o One(text[i])[1]
      BY <1>3, <1>4, <3>2, <3>3, ConcatEmptySeq
    <3>5. One(state[i])[NextOf(i)] = "ended" /\ One(text[i])[NextOf(i)] = One(text[i])[1]
      BY <1>3, <2>1, <2>3, <3>1
    <3>6. Solo(i)!Collect
      BY <1>2, <1>6, <2>1, <2>2, <3>1, <3>4, <3>5 DEF Solo!Collect
    <3> QED
      BY <3>6 DEF Solo!Next, Solo!Caller
  <2>4. CASE i # next
    <3>1. i < next' <=> i < next
      BY <1>4, <2>1, <2>4
    <3>2. NextOf(i)' = NextOf(i) /\ OutOf(i)' = OutOf(i)
      BY <2>1, <3>1 DEF NextOf, OutOf, Collects
    <3> QED
      BY <1>5, <1>6, <2>1, <2>2, <3>2
  <2> QED
    BY <2>3, <2>4
<1>11. CASE Leave
  <2>1. ~undefined /\ UNCHANGED <<next, state, text>>
    BY <1>11 DEF Leave
  <2>2. NextOf(i)' = NextOf(i)
    BY <2>1 DEF NextOf
  <2>3. CASE parent = "collect" /\ next = N + 1 /\ parent' = "left"
    <3>1. NextOf(i) = 2
      BY <1>4, <2>3 DEF NextOf
    <3>2. ParentOf(i) = "collect" /\ ParentOf(i)' = "left" /\ OutOf(i)' = OutOf(i)
      BY <2>1, <2>3 DEF ParentOf, OutOf, Collects
    <3>3. Solo(i)!Leave
      BY <1>2, <1>6, <2>1, <2>2, <3>1, <3>2 DEF Solo!Leave
    <3> QED
      BY <3>3 DEF Solo!Next, Solo!Caller
  <2>4. CASE parent = "unwind" /\ parent' = "thrown"
    <3>1. ParentOf(i)' = ParentOf(i) /\ OutOf(i)' = OutOf(i)
      BY <2>4 DEF ParentOf, OutOf, Collects
    <3> QED
      BY <1>5, <1>6, <2>1, <2>2, <3>1
  <2> QED
    BY <1>11, <2>3, <2>4 DEF Leave
<1> QED
  BY <1>7, <1>8, <1>9, <1>10, <1>11 DEF Caller

\* Each step of the tag, for child i.
LEMMA AloneStep ==
    ASSUME IInv, IInv', AllTame, [Next]_vars, NEW i \in Children
    PROVE  [Solo(i)!Next]_(Solo(i)!vars)
<1>1. TypeOK /\ TypeOK' /\ Places /\ Joined /\ Sound /\ Sound'
  BY DEF IInv
<1>2. CASE Caller
  BY <1>1, <1>2, CallerStep
<1>3. ASSUME NEW j \in Children, Child(j) PROVE [Solo(i)!Next]_(Solo(i)!vars)
  <2>1. prog' = prog
    BY <1>3, Zenon DEF Child, Begin, Breaks, GetValue, SetValue, Var, Throw, Log, ListAdd,
       ListRemove, ListElement, ListElements, NextElement, LeaveElement, Value, Return,
       Swallowed, Enters, Goes
  <2>2. AllTame'
    BY <2>1 DEF AllTame, Independent
  <2>3. ~undefined /\ ~undefined'
    BY <1>1, <2>2 DEF Sound
  <2>4. CASE j = i
    BY <1>1, <1>3, <2>3, <2>4, OwnStep
  <2>5. CASE j # i
    <3>1. j \in Children \ {i}
      BY <2>5
    <3>2. undefined' = undefined
      BY <1>1, <2>3, Zenon DEF TypeOK
    <3> QED
      BY <1>1, <1>3, <3>1, <3>2, OtherStep
  <2> QED
    BY <2>4, <2>5
<1>4. CASE UNCHANGED vars
  <2>1. UNCHANGED <<prog, parent, next, state, pc, own, scopes, text, using, x, list, undefined>>
    BY <1>4 DEF vars, frame, shared
  <2>2. UNCHANGED <<ParentOf(i), NextOf(i), OutOf(i), XOf(i), ListOf(i)>>
    BY <2>1 DEF ParentOf, NextOf, OutOf, XOf, ListOf, Collects
  <2>3. /\ UNCHANGED <<One(prog[i]), One(state[i]), One(pc[i]), One(own[i])>>
        /\ UNCHANGED <<One(scopes[i]), One(text[i]), One(using[i])>>
    BY <2>1 DEF One
  <2> QED
    BY <2>1, <2>2, <2>3 DEF Solo!vars, Solo!frame, Solo!shared
<1> QED
  BY <1>2, <1>3, <1>4 DEF Next, Over

\* The tag begins for child i as if it had no other child.
LEMMA AloneInit ==
    ASSUME Init, NEW i \in Children
    PROVE  Solo(i)!Init
<1>1. Solo(i)!Children = 1..1
  BY DEF Solo!Children
<1>2. prog[i] \in Programs
  BY DEF Init
<1>3. One(prog[i]) \in [1..1 -> Programs]
  BY <1>2 DEF One
<1>4. XOf(i) = Given /\ ListOf(i) = [elems |-> Start, cap |-> Len(Start) + Spare, gen |-> 0]
  BY DEF Init, XOf, ListOf
<1>5. i \in Nat \ {0} /\ next = 1
  BY DEF Init, Children
<1>6. ParentOf(i) = "launch" /\ NextOf(i) = 1 /\ OutOf(i) = <<>>
  BY <1>5 DEF Init, ParentOf, NextOf, OutOf, Collects
<1>7. /\ One(state[i]) = [k \in 1..1 |-> "none"] /\ One(pc[i]) = [k \in 1..1 |-> 1]
      /\ One(own[i]) = [k \in 1..1 |-> <<>>] /\ One(scopes[i]) = [k \in 1..1 |-> <<>>]
      /\ One(text[i]) = [k \in 1..1 |-> <<>>] /\ One(using[i]) = [k \in 1..1 |-> {}]
  BY DEF Init, One
<1> QED
  BY <1>1, <1>3, <1>4, <1>6, <1>7 DEF Init, Solo!Init

\* A child whose text does not interfere with that of the others runs in the dbp:async as
\* in one that has no other child: for any number of children, any spines and any list,
\* the specification of the tag implements that of the tag with one child.
THEOREM ChildrenAlone == Spec => AsIfAlone
<1> DEFINE Steps == AllTame => \A i \in Children : [Solo(i)!Next]_(Solo(i)!vars)
           Begins == AllTame => \A i \in Children : Solo(i)!Init
<1>1. IInv /\ IInv' /\ [Next]_vars => Steps
  BY AloneStep
<1>2. Init => Begins
  BY AloneInit
<1> HIDE DEF Steps, Begins
<1>3. Spec => Begins /\ [][Steps]_vars
  BY <1>1, <1>2, Invariance, PTL DEF Spec
<1> QED
  BY <1>3 DEF Steps, Begins, AsIfAlone

--------------------------------------------------------------------------------
(* The recursive functions of the reference *)

\* Environment d where tag s of spine p ends: the variables declared inside it are gone,
\* and a loop goes through the rest of list l.
Narrowed(s, d) == [d EXCEPT !.own = SubSeq(@, 1, s.vars), !.elem = <<>>]
Leaves(p, l, s, d) ==
    IF s.loop THEN Each(Run(p)[Len(p) - s.pc], l, s.pos, Narrowed(s, d))[Len(l) - s.pos]
    ELSE Narrowed(s, d)

\* The same for the first k of the tags ss, from the inside to the outside.
LeavesAll(p, l, ss) ==
    LET up[k \in Nat] == IF k = 0 THEN [d \in Env |-> d]
                         ELSE [d \in Env |-> up[k - 1][Leaves(p, l, ss[k], d)]]
    IN  up

EachStep(content, l, a, v, j) == content[[v EXCEPT !.elem = <<l[a + j]>>]]
RunStep(p, v, n) ==
    [e \in Env |-> IF e.threw THEN e ELSE Execute(p[Len(p) - n + 1], v, e)]
LeaveStep(p, l, ss, v, k) == [d \in Env |-> v[Leaves(p, l, ss[k], d)]]
TurnStep(pp, v, n) ==
    LET e == Alone(pp[n], v.x, v.list)
    IN  [out |-> v.out \o Output(e), x |-> e.x, list |-> e.list]

\* The recursive functions have one form: a first value, and one made of the last.
First(c) ==
    IF c[1] = "gathered" THEN <<>>
    ELSE IF c[1] = "each" THEN c[5]
    ELSE IF c[1] = "turn" THEN [out |-> <<>>, x |-> Given, list |-> Start]
    ELSE [e \in Env |-> e]
Then(c, v, n) ==
    IF c[1] = "gathered" THEN v \o c[2][n]
    ELSE IF c[1] = "each" THEN EachStep(c[2], c[3], c[4], v, n)
    ELSE IF c[1] = "turn" THEN TurnStep(c[2], v, n)
    ELSE IF c[1] = "run" THEN RunStep(c[2], v, n)
    ELSE LeaveStep(c[2], c[3], c[4], v, n)

\* f lists the first values, up to k.
Lists(f, k, c) == f = [n \in 0..k |-> IF n = 0 THEN First(c) ELSE Then(c, f[n - 1], n)]
UpTo(k, c) == CHOOSE f : Lists(f, k, c)

\* The values of such a function.
LEMMA ListsValues ==
    ASSUME NEW c, NEW k \in Nat, NEW f, Lists(f, k, c)
    PROVE  /\ f[0] = First(c)
           /\ \A n \in Nat : n + 1 \in 0..k => f[n + 1] = Then(c, f[n], n + 1)
<1>1. \A n \in 0..k : f[n] = IF n = 0 THEN First(c) ELSE Then(c, f[n - 1], n)
  BY DEF Lists
<1>2. f[0] = First(c)
  BY <1>1
<1>3. ASSUME NEW n \in Nat, n + 1 \in 0..k
      PROVE  f[n + 1] = Then(c, f[n], n + 1)
  <2>1. n + 1 # 0 /\ (n + 1) - 1 = n
    OBVIOUS
  <2>2. f[n + 1] = IF n + 1 = 0 THEN First(c) ELSE Then(c, f[(n + 1) - 1], n + 1)
    BY <1>1, <1>3, Zenon
  <2> QED
    BY <2>1, <2>2
<1> QED
  BY <1>2, <1>3

\* There is one for every bound, by induction on the bound,
LEMMA ListsExists ==
    ASSUME NEW c
    PROVE  \A k \in Nat : \E f : Lists(f, k, c)
<1> DEFINE S == {k \in Nat : \E f : Lists(f, k, c)}
<1>1. 0 \in S
  <2> DEFINE g == [n \in 0..0 |-> First(c)]
  <2>1. Lists(g, 0, c)
    BY DEF Lists
  <2> QED
    BY <2>1
<1>2. ASSUME NEW k \in Nat, k \in S
      PROVE  k + 1 \in S
  <2>1. PICK f : Lists(f, k, c)
    BY <1>2
  <2> DEFINE g == [n \in 0..(k + 1) |-> IF n = k + 1 THEN Then(c, f[k], k + 1) ELSE f[n]]
             h == [n \in 0..(k + 1) |-> IF n = 0 THEN First(c) ELSE Then(c, g[n - 1], n)]
  <2>2. \A n \in 0..k : f[n] = IF n = 0 THEN First(c) ELSE Then(c, f[n - 1], n)
    BY <2>1 DEF Lists
  <2>3. ASSUME NEW n \in 0..(k + 1)
        PROVE  g[n] = IF n = 0 THEN First(c) ELSE Then(c, g[n - 1], n)
    <3>1. CASE n = 0
      BY <2>2, <3>1
    <3>2. CASE n = k + 1
      <4>1. n - 1 = k /\ k # k + 1 /\ k \in 0..(k + 1) /\ n # 0
        BY <3>2
      <4> QED
        BY <3>2, <4>1
    <3>3. CASE n \in 1..k
      <4>1. /\ n \in 0..k /\ n # k + 1 /\ n # 0 /\ n - 1 # k + 1
            /\ n - 1 \in 0..(k + 1)
        BY <3>3
      <4>2. f[n] = Then(c, f[n - 1], n)
        BY <2>2, <4>1
      <4> QED
        BY <4>1, <4>2
    <3> QED
      BY <3>1, <3>2, <3>3
  <2>4. /\ DOMAIN g = 0..(k + 1) /\ DOMAIN h = 0..(k + 1)
        /\ g = [n \in DOMAIN g |-> g[n]] /\ h = [n \in DOMAIN h |-> h[n]]
    OBVIOUS
  <2>5. \A n \in 0..(k + 1) : g[n] = h[n]
    BY <2>3
  <2> HIDE DEF g, h
  <2>6. g = h
    BY <2>4, <2>5
  <2>7. Lists(g, k + 1, c)
    BY <2>6 DEF Lists, h
  <2> QED
    BY <2>7
<1>3. \A k \in Nat : k \in S
  <2> HIDE DEF S
  <2> QED
    BY <1>1, <1>2, NatSetInduction
<1> QED
  BY <1>3

\* and only one: two of them agree where both are defined.
LEMMA ListsSame ==
    ASSUME NEW c, NEW k \in Nat, NEW l \in Nat, NEW f, NEW g,
           Lists(f, k, c), Lists(g, l, c), k <= l
    PROVE  \A n \in 0..k : f[n] = g[n]
<1> DEFINE S == {n \in Nat : n \in 0..k => f[n] = g[n]}
<1>1. f[0] = First(c) /\ g[0] = First(c)
  BY ListsValues
<1>2. /\ \A n \in Nat : n + 1 \in 0..k => f[n + 1] = Then(c, f[n], n + 1)
      /\ \A n \in Nat : n + 1 \in 0..l => g[n + 1] = Then(c, g[n], n + 1)
  BY ListsValues
<1>3. 0 \in S
  BY <1>1
<1>4. ASSUME NEW n \in Nat, n \in S
      PROVE  n + 1 \in S
  <2> SUFFICES ASSUME n + 1 \in 0..k PROVE f[n + 1] = g[n + 1]
    OBVIOUS
  <2>1. n \in 0..k /\ n + 1 \in 0..l
    OBVIOUS
  <2>2. f[n + 1] = Then(c, f[n], n + 1) /\ g[n + 1] = Then(c, g[n], n + 1)
    BY <1>2, <2>1, Zenon
  <2>3. f[n] = g[n]
    BY <1>4, <2>1
  <2> QED
    BY <2>2, <2>3
<1>5. \A n \in Nat : n \in S
  <2> HIDE DEF S
  <2> QED
    BY <1>3, <1>4, NatSetInduction
<1> QED
  BY <1>5

Recurs(g, c) == g = [n \in Nat |-> IF n = 0 THEN First(c) ELSE Then(c, g[n - 1], n)]

\* They add up to a function on all numbers, so that CHOOSE finds it.
LEMMA RecursionExists ==
    ASSUME NEW c
    PROVE  \E g : Recurs(g, c)
<1>1. \A k \in Nat : Lists(UpTo(k, c), k, c)
  BY ListsExists, Zenon DEF UpTo
<1> DEFINE h == [n \in Nat |-> UpTo(n, c)[n]]
           H == [n \in Nat |-> IF n = 0 THEN First(c) ELSE Then(c, h[n - 1], n)]
<1>2. ASSUME NEW n \in Nat
      PROVE  h[n] = IF n = 0 THEN First(c) ELSE Then(c, h[n - 1], n)
  <2>1. CASE n = 0
    <3>1. UpTo(0, c)[0] = First(c)
      BY <1>1, ListsValues
    <3> QED
      BY <2>1, <3>1
  <2>2. CASE n # 0
    <3> DEFINE m == n - 1
               f == UpTo(m, c)
               g == UpTo(n, c)
    <3>1. m \in Nat /\ m + 1 = n /\ m <= n /\ m \in 0..m /\ m + 1 \in 0..n
      BY <2>2
    <3>2. Lists(f, m, c) /\ Lists(g, n, c)
      BY <1>1, <3>1
    <3>3. h[n] = g[n] /\ h[n - 1] = f[m]
      BY <3>1
    <3> HIDE DEF f, g, m, h
    <3>4. f[m] = g[m]
      BY <3>1, <3>2, ListsSame
    <3>5. g[m + 1] = Then(c, g[m], m + 1)
      BY <3>1, <3>2, ListsValues
    <3>6. g[n] = Then(c, f[m], n)
      BY <3>1, <3>4, <3>5
    <3> QED
      BY <2>2, <3>3, <3>6
  <2> QED
    BY <2>1, <2>2
<1>3. h = H
  <2>1. /\ DOMAIN h = Nat /\ DOMAIN H = Nat
        /\ h = [n \in DOMAIN h |-> h[n]] /\ H = [n \in DOMAIN H |-> H[n]]
    OBVIOUS
  <2>2. \A n \in Nat : h[n] = H[n]
    BY <1>2
  <2> HIDE DEF h, H
  <2> QED
    BY <2>1, <2>2
<1>4. Recurs(h, c)
  <2> HIDE DEF h
  <2> QED
    BY <1>3 DEF Recurs
<1> QED
  BY <1>4

\* What a function defined by recursion returns.
LEMMA RecursionValues ==
    ASSUME NEW c, NEW g, Recurs(g, c)
    PROVE  g[0] = First(c) /\ \A n \in Nat : g[n + 1] = Then(c, g[n], n + 1)
<1>1. \A n \in Nat : g[n] = IF n = 0 THEN First(c) ELSE Then(c, g[n - 1], n)
  BY DEF Recurs
<1>2. ASSUME NEW n \in Nat
      PROVE  g[n + 1] = Then(c, g[n], n + 1)
  <2>1. n + 1 \in Nat /\ n + 1 # 0 /\ (n + 1) - 1 = n
    OBVIOUS
  <2>2. g[n + 1] = IF n + 1 = 0 THEN First(c) ELSE Then(c, g[(n + 1) - 1], n + 1)
    BY <1>1, <2>1, Zenon
  <2> QED
    BY <2>1, <2>2, Zenon
<1>3. g[0] = First(c)
  BY <1>1
<1> QED
  BY <1>2, <1>3

\* What the definitions of the recursive functions say of them.
LEMMA GatheredValues ==
    ASSUME NEW ts
    PROVE  /\ Gathered(ts)[0] = <<>>
           /\ \A n \in Nat : Gathered(ts)[n + 1] = Gathered(ts)[n] \o ts[n + 1]
<1> DEFINE c == <<"gathered", ts>>
           G == Gathered(ts)
           o == <<>>
<1>1. First(c) = o
  BY DEF First
<1>2. ASSUME NEW v, NEW n PROVE Then(c, v, n) = v \o ts[n]
  BY DEF Then
<1>3. PICK g : Recurs(g, c)
  BY RecursionExists
<1> HIDE DEF c, o
<1>4. ASSUME NEW f
      PROVE  Recurs(f, c) <=> f = [n \in Nat |-> IF n = 0 THEN o
                                                 ELSE f[n - 1] \o ts[n]]
  BY <1>1, <1>2, Zenon DEF Recurs
<1>5. Recurs(G, c)
  BY <1>3, <1>4, Zenon DEF Gathered, o
<1> HIDE DEF G
<1>6. G[0] = First(c) /\ \A n \in Nat : G[n + 1] = Then(c, G[n], n + 1)
  BY <1>5, RecursionValues
<1> QED
  BY <1>1, <1>2, <1>6 DEF G, o

LEMMA EachValues ==
    ASSUME NEW content, NEW l, NEW a, NEW e
    PROVE  /\ Each(content, l, a, e)[0] = e
           /\ \A j \in Nat : Each(content, l, a, e)[j + 1]
                              = EachStep(content, l, a, Each(content, l, a, e)[j], j + 1)
<1> DEFINE c == <<"each", content, l, a, e>>
           G == Each(content, l, a, e)
           o == e
<1>1. First(c) = o
  BY DEF First
<1>2. ASSUME NEW v, NEW n PROVE Then(c, v, n) = EachStep(content, l, a, v, n)
  BY DEF Then
<1>3. PICK g : Recurs(g, c)
  BY RecursionExists
<1> HIDE DEF c, o
<1>4. ASSUME NEW f
      PROVE  Recurs(f, c) <=> f = [j \in Nat |-> IF j = 0 THEN o
                                                 ELSE EachStep(content, l, a, f[j - 1], j)]
  BY <1>1, <1>2, Zenon DEF Recurs
<1>5. Recurs(G, c)
  BY <1>3, <1>4, Zenon DEF Each, o, EachStep
<1> HIDE DEF G
<1>6. G[0] = First(c) /\ \A n \in Nat : G[n + 1] = Then(c, G[n], n + 1)
  BY <1>5, RecursionValues
<1> QED
  BY <1>1, <1>2, <1>6 DEF G, o

LEMMA RunValues ==
    ASSUME NEW p
    PROVE  /\ Run(p)[0] = [e \in Env |-> e]
           /\ \A n \in Nat : Run(p)[n + 1] = RunStep(p, Run(p)[n], n + 1)
<1> DEFINE c == <<"run", p>>
           G == Run(p)
           o == [e \in Env |-> e]
<1>1. First(c) = o
  BY DEF First
<1>2. ASSUME NEW v, NEW n PROVE Then(c, v, n) = RunStep(p, v, n)
  BY DEF Then
<1>3. PICK g : Recurs(g, c)
  BY RecursionExists
<1> HIDE DEF c, o
<1>4. ASSUME NEW f
      PROVE  Recurs(f, c) <=> f = [n \in Nat |-> IF n = 0 THEN o
                                                 ELSE RunStep(p, f[n - 1], n)]
  BY <1>1, <1>2, Zenon DEF Recurs
<1>5. Recurs(G, c)
  BY <1>3, <1>4, Zenon DEF Run, o, RunStep
<1> HIDE DEF G
<1>6. G[0] = First(c) /\ \A n \in Nat : G[n + 1] = Then(c, G[n], n + 1)
  BY <1>5, RecursionValues
<1> QED
  BY <1>1, <1>2, <1>6 DEF G, o

LEMMA LeavesAllValues ==
    ASSUME NEW p, NEW l, NEW ss
    PROVE  /\ LeavesAll(p, l, ss)[0] = [d \in Env |-> d]
           /\ \A k \in Nat : LeavesAll(p, l, ss)[k + 1]
                              = LeaveStep(p, l, ss, LeavesAll(p, l, ss)[k], k + 1)
<1> DEFINE c == <<"leaves", p, l, ss>>
           G == LeavesAll(p, l, ss)
           o == [d \in Env |-> d]
<1>1. First(c) = o
  BY DEF First
<1>2. ASSUME NEW v, NEW n PROVE Then(c, v, n) = LeaveStep(p, l, ss, v, n)
  BY DEF Then
<1>3. PICK g : Recurs(g, c)
  BY RecursionExists
<1> HIDE DEF c, o
<1>4. ASSUME NEW f
      PROVE  Recurs(f, c) <=> f = [k \in Nat |-> IF k = 0 THEN o
                                                 ELSE LeaveStep(p, l, ss, f[k - 1], k)]
  BY <1>1, <1>2, Zenon DEF Recurs
<1>5. Recurs(G, c)
  BY <1>3, <1>4, Zenon DEF LeavesAll, o, LeaveStep
<1> HIDE DEF G
<1>6. G[0] = First(c) /\ \A n \in Nat : G[n + 1] = Then(c, G[n], n + 1)
  BY <1>5, RecursionValues
<1> QED
  BY <1>1, <1>2, <1>6 DEF G, o

LEMMA InTurnValues ==
    ASSUME NEW pp
    PROVE  /\ InTurn(pp)[0] = [out |-> <<>>, x |-> Given, list |-> Start]
           /\ \A n \in Nat : InTurn(pp)[n + 1] = TurnStep(pp, InTurn(pp)[n], n + 1)
<1> DEFINE c == <<"turn", pp>>
           G == InTurn(pp)
           o == [out |-> <<>>, x |-> Given, list |-> Start]
<1>1. First(c) = o
  BY DEF First
<1>2. ASSUME NEW v, NEW n PROVE Then(c, v, n) = TurnStep(pp, v, n)
  BY DEF Then
<1>3. PICK g : Recurs(g, c)
  BY RecursionExists
<1> HIDE DEF c, o
<1>4. ASSUME NEW f
      PROVE  Recurs(f, c) <=> f = [n \in Nat |-> IF n = 0 THEN o
                                                 ELSE TurnStep(pp, f[n - 1], n)]
  BY <1>1, <1>2, Zenon DEF Recurs
<1>5. Recurs(G, c)
  BY <1>3, <1>4, Zenon DEF InTurn, o, TurnStep
<1> HIDE DEF G
<1>6. G[0] = First(c) /\ \A n \in Nat : G[n + 1] = Then(c, G[n], n + 1)
  BY <1>5, RecursionValues
<1> QED
  BY <1>1, <1>2, <1>6 DEF G, o

--------------------------------------------------------------------------------
(* The execution of a spine *)

\* What the content of a tag may do: it gives back the variables it was given, and
\* nothing happens in it after an exception.
Contents ==
    {f \in [Env -> Env] : \A e \in Env : /\ Len(f[e].own) = Len(e.own)
                                         /\ e.threw => f[e] = e}

\* What is in an environment.
LEMMA EnvFields ==
    ASSUME NEW e \in Env
    PROVE  /\ e.out \in Seq(Values) /\ e.own \in Seq(Values) /\ e.elem \in Seq(Values)
           /\ e.threw \in BOOLEAN /\ e.x \in Values /\ e.list \in Seq(Values)
           /\ Len(e.own) \in Nat /\ Len(e.list) \in Nat
           /\ \A s \in Seq(Values) : /\ [e EXCEPT !.out = s] \in Env
                                     /\ [e EXCEPT !.own = s] \in Env
                                     /\ [e EXCEPT !.elem = s] \in Env
                                     /\ [e EXCEPT !.list = s] \in Env
           /\ \A v \in Values : [e EXCEPT !.x = v] \in Env
           /\ [e EXCEPT !.threw = TRUE] \in Env
<1>1. /\ e.out \in Seq(Values) /\ e.own \in Seq(Values) /\ e.elem \in Seq(Values)
      /\ e.threw \in BOOLEAN /\ e.x \in Values /\ e.list \in Seq(Values)
  BY DEF Env
<1>2. Len(e.own) \in Nat /\ Len(e.list) \in Nat
  BY <1>1, LenProperties
<1>3. \A s \in Seq(Values) : /\ [e EXCEPT !.out = s] \in Env
                             /\ [e EXCEPT !.own = s] \in Env
                             /\ [e EXCEPT !.elem = s] \in Env
                             /\ [e EXCEPT !.list = s] \in Env
  BY DEF Env
<1>4. (\A v \in Values : [e EXCEPT !.x = v] \in Env) /\ [e EXCEPT !.threw = TRUE] \in Env
  BY DEF Env
<1> QED
  BY <1>1, <1>2, <1>3, <1>4

\* Execute, tag by tag.
LEMMA ExecuteGet ==
    ASSUME NEW c, c.tag = "get", NEW content, NEW e
    PROVE  Execute(c, content, e) =
             content[[e EXCEPT !.out = Append(@, IF e.own = <<>> THEN e.x
                                                 ELSE e.own[Len(e.own)])]]
BY DEF Execute

LEMMA ExecuteSet ==
    ASSUME NEW c, c.tag = "set", NEW content, NEW e
    PROVE  Execute(c, content, e) =
             content[IF e.own = <<>> THEN [e EXCEPT !.x = c.arg]
                     ELSE [e EXCEPT !.own = [@ EXCEPT ![Len(e.own)] = c.arg]]]
BY DEF Execute

LEMMA ExecuteVar ==
    ASSUME NEW c, c.tag = "var", NEW content, NEW e
    PROVE  Execute(c, content, e) =
             [content[[e EXCEPT !.own = Append(@, c.arg)]]
                EXCEPT !.own = SubSeq(@, 1, Len(e.own))]
BY DEF Execute

LEMMA ExecuteValue ==
    ASSUME NEW c, c.tag = "value", NEW content, NEW e
    PROVE  Execute(c, content, e) = content[[e EXCEPT !.out = @ \o e.elem]]
BY DEF Execute

LEMMA ExecuteAdd ==
    ASSUME NEW c, c.tag = "add", NEW content, NEW e
    PROVE  Execute(c, content, e) = content[[e EXCEPT !.list = Append(@, c.arg)]]
BY DEF Execute

LEMMA ExecuteRemove ==
    ASSUME NEW c, c.tag = "remove", NEW content, NEW e
    PROVE  Execute(c, content, e) = content[[e EXCEPT !.list = Without(@, c.arg)]]
BY DEF Execute

LEMMA ExecuteElement ==
    ASSUME NEW c, c.tag = "element", NEW content, NEW e
    PROVE  Execute(c, content, e) =
             IF c.arg < Len(e.list) THEN content[[e EXCEPT !.elem = <<e.list[c.arg + 1]>>]]
             ELSE [e EXCEPT !.threw = TRUE]
BY DEF Execute

LEMMA ExecuteElements ==
    ASSUME NEW c, c.tag = "elements", NEW content, NEW e
    PROVE  Execute(c, content, e) = Each(content, e.list, 0, e)[Len(e.list)]
BY DEF Execute

LEMMA ExecuteThrow ==
    ASSUME NEW c, c.tag \in {"throw", "log"}, NEW content, NEW e
    PROVE  Execute(c, content, e) = [e EXCEPT !.threw = TRUE]
BY DEF Execute

\* dbp:list_remove leaves a list of texts.
LEMMA WithoutType ==
    ASSUME NEW l \in Seq(Values), NEW v \in Nat
    PROVE  Without(l, v) \in Seq(Values)
<1>1. Len(l) \in Nat /\ \A j \in 1..Len(l) : l[j] \in Values
  BY LenProperties, ElementOfSeq
<1>2. CASE Len(l) = 0
  <2>1. 1..(Len(l) - 1) = 1..0
    BY <1>2
  <2>2. Without(l, v) \in [1..0 -> Values]
    BY <2>1 DEF Without
  <2> QED
    BY <2>2, SeqDef
<1>3. CASE Len(l) # 0
  <2> DEFINE n == Len(l) - 1
  <2>1. n \in Nat /\ \A j \in 1..n : j \in 1..Len(l) /\ j + 1 \in 1..Len(l)
    BY <1>1, <1>3
  <2>2. Without(l, v) \in [1..n -> Values]
    BY <1>1, <2>1 DEF Without
  <2> HIDE DEF n
  <2> QED
    BY <2>1, <2>2, SeqDef
<1> QED
  BY <1>2, <1>3

\* A loop over a content is a content.
LEMMA EachTypes ==
    ASSUME NEW content \in Contents, NEW l \in Seq(Values), NEW a \in Nat, NEW e \in Env,
           NEW m \in Nat, a + m <= Len(l), NEW d, d = Each(content, l, a, e)[m]
    PROVE  /\ d \in Env /\ Len(d.own) = Len(e.own)
           /\ e.threw => /\ d.threw
                         /\ d.out = e.out /\ d.x = e.x /\ d.list = e.list
<1> DEFINE f == Each(content, l, a, e)
           P(j) == /\ f[j] \in Env /\ Len(f[j].own) = Len(e.own)
                   /\ e.threw => /\ f[j].threw
                                 /\ f[j].out = e.out /\ f[j].x = e.x /\ f[j].list = e.list
           S == {j \in Nat : a + j <= Len(l) => P(j)}
<1>1. f[0] = e /\ \A j \in Nat : f[j + 1] = EachStep(content, l, a, f[j], j + 1)
  BY EachValues
<1>2. Len(l) \in Nat /\ \A j \in 1..Len(l) : <<l[j]>> \in Seq(Values)
  BY LenProperties, ElementOfSeq
<1> HIDE DEF f
<1>3. 0 \in S
  BY <1>1
<1>4. ASSUME NEW j \in Nat, j \in S PROVE j + 1 \in S
  <2> SUFFICES ASSUME a + (j + 1) <= Len(l) PROVE P(j + 1)
    OBVIOUS
  <2>1. P(j)
    BY <1>2, <1>4
  <2> DEFINE g == [f[j] EXCEPT !.elem = <<l[a + (j + 1)]>>]
  <2>2. a + (j + 1) \in 1..Len(l)
    BY <1>2
  <2>3. <<l[a + (j + 1)]>> \in Seq(Values)
    BY <1>2, <2>2
  <2>4. g \in Env
    BY <2>1, <2>3, EnvFields
  <2>5. /\ g.own = f[j].own /\ g.threw = f[j].threw /\ g.out = f[j].out
        /\ g.x = f[j].x /\ g.list = f[j].list
    BY <2>1 DEF Env
  <2>6. f[j + 1] = content[g]
    BY <1>1 DEF EachStep
  <2> HIDE DEF g
  <2>7. content[g] \in Env /\ Len(content[g].own) = Len(g.own) /\ (g.threw => content[g] = g)
    BY <2>4 DEF Contents
  <2> QED
    BY <2>1, <2>5, <2>6, <2>7
<1>5. \A j \in Nat : j \in S
  <2> HIDE DEF S
  <2> QED
    BY <1>3, <1>4, NatSetInduction
<1> QED
  BY <1>5 DEF f

\* A tag of a spine.
SpineTag(c) ==
    /\ c \in [tag : Tags, arg : Values \cup Nat]
    /\ c.tag \in {"set", "var", "add"} => c.arg \in Values
    /\ c.tag \in {"remove", "element"} => c.arg \in Nat

LEMMA SpineTags ==
    ASSUME NEW p \in Programs
    PROVE  Len(p) \in Nat /\ \A k \in 1..Len(p) : SpineTag(p[k])
<1>1. p \in Seq([tag : Tags, arg : Values \cup Nat])
  BY AsyncAssumption
<1> QED
  BY <1>1, AsyncAssumption, LenProperties, ElementOfSeq, ZenonT(30) DEF SpineTag

\* A tag around a content is a content,
LEMMA ExecuteTypes ==
    ASSUME NEW c, SpineTag(c), NEW content \in Contents, NEW e \in Env
    PROVE  /\ Execute(c, content, e) \in Env
           /\ Len(Execute(c, content, e).own) = Len(e.own)
<1> DEFINE v == c.arg
<1>1. /\ c.tag \in Tags
      /\ c.tag \in {"set", "var", "add"} => v \in Values
      /\ c.tag \in {"remove", "element"} => v \in Nat
  BY DEF SpineTag
<1>2. /\ e.out \in Seq(Values) /\ e.own \in Seq(Values) /\ e.elem \in Seq(Values)
      /\ e.threw \in BOOLEAN /\ e.x \in Values /\ e.list \in Seq(Values)
      /\ Len(e.own) \in Nat /\ Len(e.list) \in Nat
  BY EnvFields
<1>3. ASSUME NEW d \in Env, Len(d.own) = Len(e.own), Execute(c, content, e) = content[d]
      PROVE  Execute(c, content, e) \in Env /\ Len(Execute(c, content, e).own) = Len(e.own)
  BY <1>3 DEF Contents
<1>4. CASE c.tag = "get"
  <2> DEFINE w == IF e.own = <<>> THEN e.x ELSE e.own[Len(e.own)]
             s == Append(e.out, w)
  <2>1. w \in Values
    <3>1. CASE e.own = <<>>
      BY <1>2, <3>1
    <3>2. CASE e.own # <<>>
      <4>1. Len(e.own) \in 1..Len(e.own)
        BY <1>2, <3>2, EmptySeq
      <4> QED
        BY <1>2, <3>2, <4>1, ElementOfSeq
    <3> QED
      BY <3>1, <3>2
  <2>2. s \in Seq(Values)
    BY <1>2, <2>1, AppendProperties
  <2>3. Execute(c, content, e) = content[[e EXCEPT !.out = s]]
    BY <1>4 DEF Execute
  <2>4. [e EXCEPT !.out = s] \in Env /\ [e EXCEPT !.out = s].own = e.own
    <3> HIDE DEF s
    <3> QED
      BY <2>2, EnvFields DEF Env
  <2> QED
    BY <1>3, <2>3, <2>4
<1>5. CASE c.tag = "set"
  <2>1. CASE e.own = <<>>
    <3>1. [e EXCEPT !.x = v] \in Env /\ [e EXCEPT !.x = v].own = e.own
      BY <1>1, <1>5, EnvFields DEF Env
    <3>2. Execute(c, content, e) = content[[e EXCEPT !.x = v]]
      BY <1>5, <2>1, ExecuteSet, ZenonT(30)
    <3> QED
      BY <1>3, <3>1, <3>2
  <2>2. CASE e.own # <<>>
    <3> DEFINE s == [e.own EXCEPT ![Len(e.own)] = v]
    <3>1. s \in Seq(Values) /\ Len(s) = Len(e.own)
      <4>1. Len(e.own) \in 1..Len(e.own)
        BY <1>2, <2>2, EmptySeq
      <4> QED
        BY <1>1, <1>2, <1>5, <4>1, ExceptSeq
    <3>2. Execute(c, content, e) = content[[e EXCEPT !.own = s]]
      BY <1>5, <2>2, ExecuteSet
    <3> HIDE DEF s
    <3>3. [e EXCEPT !.own = s] \in Env /\ [e EXCEPT !.own = s].own = s
      BY <3>1, EnvFields DEF Env
    <3> QED
      BY <1>3, <3>1, <3>2, <3>3
  <2> QED
    BY <2>1, <2>2
<1>6. CASE c.tag = "var"
  <2> DEFINE f == [e EXCEPT !.own = Append(@, v)]
             d == content[f]
             s == SubSeq(d.own, 1, Len(e.own))
  <2>1. Append(e.own, v) \in Seq(Values) /\ Len(Append(e.own, v)) = Len(e.own) + 1
    BY <1>1, <1>2, <1>6, AppendProperties
  <2>2. f \in Env /\ f.own = Append(e.own, v)
    BY <2>1, EnvFields DEF Env
  <2> HIDE DEF f
  <2>3. d \in Env /\ Len(d.own) = Len(e.own) + 1
    BY <2>1, <2>2 DEF Contents
  <2>4. d.own \in Seq(Values)
    BY <2>3, EnvFields
  <2>5. s \in Seq(Values) /\ Len(s) = Len(e.own)
    BY <1>2, <2>3, <2>4, SubSeqProperties
  <2>6. Execute(c, content, e) = [d EXCEPT !.own = s]
    BY <1>6, ExecuteVar DEF f
  <2> HIDE DEF d, s
  <2>7. [d EXCEPT !.own = s] \in Env /\ [d EXCEPT !.own = s].own = s
    BY <2>3, <2>5, EnvFields DEF Env
  <2> QED
    BY <2>5, <2>6, <2>7
<1>7. CASE c.tag = "value"
  <2> DEFINE s == e.out \o e.elem
  <2>1. s \in Seq(Values)
    BY <1>2, ConcatProperties
  <2>2. Execute(c, content, e) = content[[e EXCEPT !.out = s]]
    BY <1>7 DEF Execute
  <2> HIDE DEF s
  <2>3. [e EXCEPT !.out = s] \in Env /\ [e EXCEPT !.out = s].own = e.own
    BY <2>1, EnvFields DEF Env
  <2> QED
    BY <1>3, <2>2, <2>3
<1>8. ASSUME NEW s \in Seq(Values), Execute(c, content, e) = content[[e EXCEPT !.list = s]]
      PROVE  Execute(c, content, e) \in Env /\ Len(Execute(c, content, e).own) = Len(e.own)
  <2>1. [e EXCEPT !.list = s] \in Env /\ [e EXCEPT !.list = s].own = e.own
    BY EnvFields DEF Env
  <2> QED
    BY <1>3, <1>8, <2>1
<1>9. CASE c.tag = "add"
  <2>1. Append(e.list, v) \in Seq(Values)
    BY <1>1, <1>2, <1>9, AppendProperties
  <2> QED
    BY <1>8, <1>9, <2>1, ExecuteAdd
<1>10. CASE c.tag = "remove"
  <2>1. Without(e.list, v) \in Seq(Values)
    BY <1>1, <1>2, <1>10, WithoutType
  <2> QED
    BY <1>8, <1>10, <2>1, ExecuteRemove
<1>11. ASSUME Execute(c, content, e) = [e EXCEPT !.threw = TRUE]
       PROVE  Execute(c, content, e) \in Env /\ Len(Execute(c, content, e).own) = Len(e.own)
  BY <1>11, EnvFields DEF Env
<1>12. CASE c.tag = "element"
  <2>1. CASE v < Len(e.list)
    <3>1. v + 1 \in 1..Len(e.list)
      BY <1>1, <1>2, <1>12, <2>1
    <3>2. <<e.list[v + 1]>> \in Seq(Values)
      BY <1>2, <3>1, ElementOfSeq
    <3> DEFINE s == <<e.list[v + 1]>>
    <3>3. Execute(c, content, e) = content[[e EXCEPT !.elem = s]]
      BY <1>12, <2>1, ExecuteElement
    <3>4. s \in Seq(Values)
      BY <3>2
    <3> HIDE DEF s
    <3>5. [e EXCEPT !.elem = s] \in Env /\ [e EXCEPT !.elem = s].own = e.own
      BY <3>4, EnvFields DEF Env
    <3> QED
      BY <1>3, <3>3, <3>5
  <2>2. CASE ~(v < Len(e.list))
    <3>1. Execute(c, content, e) = [e EXCEPT !.threw = TRUE]
      BY <1>12, <2>2, ExecuteElement, Zenon
    <3> QED
      BY <1>11, <3>1
  <2> QED
    BY <2>1, <2>2
<1>13. CASE c.tag = "elements"
  <2>1. Execute(c, content, e) = Each(content, e.list, 0, e)[Len(e.list)]
    BY <1>13, ExecuteElements
  <2>2. 0 + Len(e.list) <= Len(e.list) /\ 0 \in Nat
    BY <1>2
  <2> QED
    <3> DEFINE d == Each(content, e.list, 0, e)[Len(e.list)]
    <3>1. d \in Env /\ Len(d.own) = Len(e.own)
      BY <1>2, <2>2, EachTypes, SMTT(30)
    <3> QED
      BY <2>1, <3>1
<1>14. CASE c.tag \in {"throw", "log"}
  BY <1>11, <1>14, ExecuteThrow
<1>15. c.tag \in Tags
  BY <1>1
<1> QED
  BY <1>4, <1>5, <1>6, <1>7, <1>9, <1>10, <1>12, <1>13, <1>14, <1>15 DEF Tags

\* and so is a spine.
LEMMA RunTypes ==
    ASSUME NEW p \in Programs
    PROVE  \A n \in 0..Len(p) : Run(p)[n] \in Contents
<1> DEFINE S == {n \in Nat : n <= Len(p) => Run(p)[n] \in Contents}
<1>1. Len(p) \in Nat
  BY AsyncAssumption, LenProperties
<1>2. 0 \in S
  <2>1. Run(p)[0] = [e \in Env |-> e]
    BY RunValues
  <2> QED
    BY <2>1 DEF Contents
<1>3. ASSUME NEW n \in Nat, n \in S PROVE n + 1 \in S
  <2> SUFFICES ASSUME n + 1 <= Len(p) PROVE Run(p)[n + 1] \in Contents
    OBVIOUS
  <2> DEFINE r == Run(p)[n]
             k == Len(p) - (n + 1) + 1
             g == [e \in Env |-> IF e.threw THEN e ELSE Execute(p[k], r, e)]
  <2>1. r \in Contents
    BY <1>1, <1>3
  <2>2. k \in 1..Len(p)
    BY <1>1
  <2>3. Run(p)[n + 1] = g
    BY RunValues, ZenonT(30) DEF RunStep
  <2> HIDE DEF r, k
  <2>4. \A e \in Env : /\ g[e] \in Env /\ Len(g[e].own) = Len(e.own)
                       /\ e.threw => g[e] = e
    BY <2>1, <2>2, ExecuteTypes, SpineTags
  <2>5. g \in [Env -> Env]
    BY <2>4
  <2> HIDE DEF g
  <2> QED
    BY <2>3, <2>4, <2>5 DEF Contents
<1>4. \A n \in Nat : n \in S
  <2> HIDE DEF S
  <2> QED
    BY <1>2, <1>3, NatSetInduction
<1> QED
  BY <1>1, <1>4

--------------------------------------------------------------------------------
(* The tags around a position *)

\* A loop is its first turn and a loop over the rest.
LEMMA EachShift ==
    ASSUME NEW content, NEW l, NEW a \in Nat, NEW e, NEW b, b = EachStep(content, l, a, e, 1)
    PROVE  \A j \in Nat : Each(content, l, a, e)[j + 1] = Each(content, l, a + 1, b)[j]
<1> DEFINE f == Each(content, l, a, e)
           g == Each(content, l, a + 1, b)
           S == {j \in Nat : f[j + 1] = g[j]}
<1>1. /\ f[0] = e /\ \A j \in Nat : f[j + 1] = EachStep(content, l, a, f[j], j + 1)
      /\ g[0] = b /\ \A j \in Nat : g[j + 1] = EachStep(content, l, a + 1, g[j], j + 1)
  BY EachValues
<1> HIDE DEF f, g
<1>2. f[0 + 1] = EachStep(content, l, a, f[0], 0 + 1)
  BY <1>1, Zenon
<1>3. 0 \in S
  BY <1>1, <1>2
<1>4. ASSUME NEW j \in Nat, j \in S PROVE j + 1 \in S
  <2>1. a + ((j + 1) + 1) = (a + 1) + (j + 1) /\ j + 1 \in Nat
    OBVIOUS
  <2>2. f[(j + 1) + 1] = EachStep(content, l, a, f[j + 1], (j + 1) + 1)
    BY <1>1, <2>1, Zenon
  <2>3. g[j + 1] = EachStep(content, l, a + 1, g[j], j + 1)
    BY <1>1
  <2>4. f[j + 1] = g[j]
    BY <1>4
  <2> QED
    BY <2>1, <2>2, <2>3, <2>4 DEF EachStep
<1>5. \A j \in Nat : j \in S
  <2> HIDE DEF S
  <2> QED
    BY <1>3, <1>4, NatSetInduction
<1> QED
  BY <1>5 DEF f, g

\* Tag s is a tag of spine p whose end an environment with n variables can reach.
Fits(p, l, s, n) ==
    /\ s \in Scope /\ s.pc \in 1..Len(p) /\ s.vars <= n
    /\ s.loop => s.pos <= Len(l)

\* The end of a tag gives an environment.
LEMMA NarrowedType ==
    ASSUME NEW s \in Scope, NEW d \in Env, s.vars <= Len(d.own)
    PROVE  /\ Narrowed(s, d) \in Env /\ Narrowed(s, d).own = SubSeq(d.own, 1, s.vars)
           /\ Len(Narrowed(s, d).own) = s.vars
           /\ Narrowed(s, d).out = d.out /\ Narrowed(s, d).threw = d.threw
           /\ Narrowed(s, d).x = d.x /\ Narrowed(s, d).list = d.list
<1> DEFINE o == SubSeq(d.own, 1, s.vars)
<1>1. d.own \in Seq(Values) /\ Len(d.own) \in Nat /\ s.vars \in Nat
  BY EnvFields DEF Scope
<1>2. o \in Seq(Values) /\ Len(o) = s.vars
  BY <1>1, SubSeqProperties
<1>3. <<>> \in Seq(Values)
  BY EmptySeq
<1>4. Narrowed(s, d) = [d EXCEPT !.own = o, !.elem = <<>>]
  BY DEF Narrowed
<1> HIDE DEF o
<1>5. Narrowed(s, d) \in Env /\ Narrowed(s, d).own = o
  BY <1>2, <1>3, <1>4 DEF Env
<1>6. /\ Narrowed(s, d).out = d.out /\ Narrowed(s, d).threw = d.threw
      /\ Narrowed(s, d).x = d.x /\ Narrowed(s, d).list = d.list
  BY <1>4 DEF Env
<1> QED
  BY <1>2, <1>5, <1>6 DEF o

LEMMA LeavesType ==
    ASSUME NEW p \in Programs, NEW l \in Seq(Values), NEW s, NEW d \in Env,
           Fits(p, l, s, Len(d.own))
    PROVE  /\ Leaves(p, l, s, d) \in Env /\ Len(Leaves(p, l, s, d).own) = s.vars
           /\ d.threw => Leaves(p, l, s, d).threw
<1> DEFINE f == Narrowed(s, d)
           r == Run(p)[Len(p) - s.pc]
           m == Len(l) - s.pos
<1>1. f \in Env /\ Len(f.own) = s.vars /\ f.threw = d.threw
  BY NarrowedType DEF Fits
<1>2. CASE ~s.loop
  BY <1>1, <1>2 DEF Leaves
<1>3. CASE s.loop
  <2>1. Len(p) \in Nat /\ Len(l) \in Nat
    BY SpineTags, LenProperties
  <2>2. s.pc \in 1..Len(p) /\ s.pos \in Nat /\ s.pos <= Len(l)
    BY <1>3 DEF Fits, Scope
  <2>3. Len(p) - s.pc \in 0..Len(p) /\ m \in Nat /\ s.pos + m <= Len(l)
    BY <2>1, <2>2
  <2>4. r \in Contents
    BY <2>3, RunTypes
  <2>5. Leaves(p, l, s, d) = Each(r, l, s.pos, f)[m]
    BY <1>3 DEF Leaves
  <2> HIDE DEF r, m, f
  <2> QED
    BY <1>1, <2>2, <2>3, <2>4, <2>5, EachTypes
<1> QED
  BY <1>2, <1>3

SameLeaves(p, l, m, ss, tt, k) ==
    \A j \in 1..k : \A d \in Env : Leaves(p, l, ss[j], d) = Leaves(p, m, tt[j], d)

\* Only the tags around the child count, and only the list that the loops see.
LEMMA LeavesSame ==
    ASSUME NEW p, NEW l, NEW m, NEW ss, NEW tt, NEW k \in Nat,
           SameLeaves(p, l, m, ss, tt, k)
    PROVE  LeavesAll(p, l, ss)[k] = LeavesAll(p, m, tt)[k]
<1> DEFINE f == LeavesAll(p, l, ss)
           g == LeavesAll(p, m, tt)
           S == {n \in Nat : n <= k => f[n] = g[n]}
<1>1. /\ f[0] = [d \in Env |-> d]
      /\ \A n \in Nat : f[n + 1] = LeaveStep(p, l, ss, f[n], n + 1)
      /\ g[0] = [d \in Env |-> d]
      /\ \A n \in Nat : g[n + 1] = LeaveStep(p, m, tt, g[n], n + 1)
  BY LeavesAllValues
<1> HIDE DEF f, g
<1>2. 0 \in S
  BY <1>1
<1>3. ASSUME NEW n \in Nat, n \in S PROVE n + 1 \in S
  <2> SUFFICES ASSUME n + 1 <= k PROVE f[n + 1] = g[n + 1]
    OBVIOUS
  <2>1. n + 1 \in 1..k /\ f[n] = g[n]
    BY <1>3
  <2>2. \A d \in Env : Leaves(p, l, ss[n + 1], d) = Leaves(p, m, tt[n + 1], d)
    BY <2>1 DEF SameLeaves
  <2>3. LeaveStep(p, l, ss, f[n], n + 1) = LeaveStep(p, m, tt, g[n], n + 1)
    BY <2>1, <2>2 DEF LeaveStep
  <2> QED
    BY <1>1, <2>3
<1>4. \A n \in Nat : n \in S
  <2> HIDE DEF S
  <2> QED
    BY <1>2, <1>3, NatSetInduction
<1> QED
  BY <1>4 DEF f, g

\* Environment d at the end of the content of all the tags ss.
Result(p, l, ss, d) == LeavesAll(p, l, ss)[Len(ss)][d]

\* A child outside of all tags is done;
LEMMA ResultOutside ==
    ASSUME NEW p, NEW l, NEW d \in Env
    PROVE  Result(p, l, <<>>, d) = d
<1>1. Len(<<>>) = 0
  BY EmptySeq
<1>2. LeavesAll(p, l, <<>>)[0] = [e \in Env |-> e]
  BY LeavesAllValues
<1> QED
  BY <1>1, <1>2 DEF Result

\* inside of a tag it leaves that tag first.
LEMMA ResultInside ==
    ASSUME NEW p, NEW l, NEW ss \in Seq(Scope), NEW s, NEW d \in Env
    PROVE  Result(p, l, Append(ss, s), d) = Result(p, l, ss, Leaves(p, l, s, d))
<1> DEFINE tt == Append(ss, s)
           n == Len(ss)
<1>1. n \in Nat /\ Len(tt) = n + 1 /\ tt[n + 1] = s /\ \A j \in 1..n : tt[j] = ss[j]
  BY LenProperties DEF Scope
<1> HIDE DEF tt, n
<1>2. LeavesAll(p, l, tt)[n + 1] = LeaveStep(p, l, tt, LeavesAll(p, l, tt)[n], n + 1)
  <2> DEFINE f == LeavesAll(p, l, tt)
  <2>1. f[0] = [e \in Env |-> e] /\ \A k \in Nat : f[k + 1] = LeaveStep(p, l, tt, f[k], k + 1)
    BY LeavesAllValues
  <2> QED
    BY <1>1, <2>1
<1>3. LeavesAll(p, l, tt)[n] = LeavesAll(p, l, ss)[n]
  <2>1. SameLeaves(p, l, l, tt, ss, n)
    BY <1>1 DEF SameLeaves
  <2>2. n \in Nat
    BY <1>1
  <2> QED
    BY <2>1, <2>2, LeavesSame
<1>4. Result(p, l, tt, d) = LeavesAll(p, l, ss)[n][Leaves(p, l, s, d)]
  BY <1>1, <1>2, <1>3 DEF Result, LeaveStep
<1> QED
  BY <1>4 DEF Result, tt, n

LEMMA LeavesAllNext ==
    ASSUME NEW p, NEW l, NEW ss, NEW n \in Nat
    PROVE  LeavesAll(p, l, ss)[n + 1] = LeaveStep(p, l, ss, LeavesAll(p, l, ss)[n], n + 1)
<1> DEFINE f == LeavesAll(p, l, ss)
<1>1. f[0] = [d \in Env |-> d] /\ \A k \in Nat : f[k + 1] = LeaveStep(p, l, ss, f[k], k + 1)
  BY LeavesAllValues
<1> HIDE DEF f
<1>2. f[n + 1] = LeaveStep(p, l, ss, f[n], n + 1)
  BY <1>1
<1> QED
  BY <1>2 DEF f

LEMMA ResultUnfold ==
    ASSUME NEW p, NEW l, NEW ss \in Seq(Scope), ss # <<>>, NEW d \in Env
    PROVE  Result(p, l, ss, d) =
             LeavesAll(p, l, ss)[Len(ss) - 1][Leaves(p, l, ss[Len(ss)], d)]
<1> DEFINE n == Len(ss) - 1
<1>1. n \in Nat /\ n + 1 = Len(ss)
  BY LenProperties, EmptySeq
<1> HIDE DEF n
<1> DEFINE f == LeavesAll(p, l, ss)
<1>2. f[n + 1] = LeaveStep(p, l, ss, f[n], n + 1)
  BY <1>1, LeavesAllNext
<1> HIDE DEF f
<1>3. f[Len(ss)][d] = f[n][Leaves(p, l, ss[Len(ss)], d)]
  BY <1>1, <1>2 DEF LeaveStep
<1> QED
  BY <1>3 DEF Result, n, f

\* The end of the innermost tag makes environments the same that differ in what is
\* declared inside it.
LEMMA ResultAlike ==
    ASSUME NEW p, NEW l, NEW ss \in Seq(Scope), NEW d \in Env, NEW f \in Env,
           d.out = f.out, d.threw = f.threw,
           ss # <<>> => Narrowed(ss[Len(ss)], d) = Narrowed(ss[Len(ss)], f)
    PROVE  Output(Result(p, l, ss, d)) = Output(Result(p, l, ss, f))
<1>1. CASE ss = <<>>
  BY <1>1, ResultOutside DEF Output
<1>2. CASE ss # <<>>
  <2>1. Leaves(p, l, ss[Len(ss)], d) = Leaves(p, l, ss[Len(ss)], f)
    BY <1>2 DEF Leaves
  <2> QED
    BY <1>2, <2>1, ResultUnfold
<1> QED
  BY <1>1, <1>2

\* The tags ss are tags of spine p around a position with n variables.
AllFit(p, l, ss, n) ==
    /\ \A k \in 1..Len(ss) : Fits(p, l, ss[k], n)
    /\ \A j, k \in 1..Len(ss) : j <= k => ss[j].vars <= ss[k].vars

\* An exception leaves all the tags around the child.
LEMMA ResultThrew ==
    ASSUME NEW p \in Programs, NEW l \in Seq(Values), NEW ss \in Seq(Scope), NEW d \in Env,
           AllFit(p, l, ss, Len(d.own)), d.threw
    PROVE  Output(Result(p, l, ss, d)) = <<>>
<1> DEFINE Inside(k, e) == /\ e \in Env /\ e.threw
                           /\ \A j \in 1..k : Fits(p, l, ss[j], Len(e.own))
           f == LeavesAll(p, l, ss)
           S == {k \in Nat : k <= Len(ss) => \A e : Inside(k, e) => f[k][e].threw}
<1>1. Len(ss) \in Nat
  BY LenProperties
<1>2. f[0] = [e \in Env |-> e] /\ \A k \in Nat : f[k + 1] = LeaveStep(p, l, ss, f[k], k + 1)
  BY LeavesAllValues
<1> HIDE DEF f
<1>3. 0 \in S
  BY <1>2
<1>4. ASSUME NEW k \in Nat, k \in S PROVE k + 1 \in S
  <2> SUFFICES ASSUME k + 1 <= Len(ss), NEW e, Inside(k + 1, e) PROVE f[k + 1][e].threw
    OBVIOUS
  <2> DEFINE s == ss[k + 1]
             g == Leaves(p, l, s, e)
  <2>1. /\ k + 1 \in 1..Len(ss) /\ k + 1 \in 1..(k + 1)
        /\ \A j \in 1..k : j \in 1..(k + 1) /\ j \in 1..Len(ss) /\ j <= k + 1
    BY <1>1
  <2>2. Fits(p, l, s, Len(e.own)) /\ e \in Env /\ e.threw
    BY <2>1
  <2>3. g \in Env /\ Len(g.own) = s.vars /\ g.threw
    BY <2>2, LeavesType
  <2>4. \A j \in 1..k : Fits(p, l, ss[j], s.vars)
    BY <2>1 DEF AllFit, Fits
  <2>5. Inside(k, g)
    BY <2>3, <2>4
  <2>6. f[k + 1][e] = f[k][g]
    <3>1. f[k + 1] = LeaveStep(p, l, ss, f[k], k + 1)
      BY <1>2
    <3>2. LeaveStep(p, l, ss, f[k], k + 1)[e] = f[k][g]
      BY <2>2 DEF LeaveStep
    <3> QED
      BY <3>1, <3>2
  <2>7. f[k][g].threw
    BY <1>1, <1>4, <2>1, <2>5
  <2> QED
    BY <2>6, <2>7
<1>5. \A k \in Nat : k \in S
  <2> HIDE DEF S
  <2> QED
    BY <1>3, <1>4, NatSetInduction
<1>6. Inside(Len(ss), d)
  BY DEF AllFit
<1>7. f[Len(ss)][d].threw
  <2> HIDE DEF Inside
  <2> QED
    BY <1>1, <1>5, <1>6
<1> QED
  BY <1>7 DEF Result, Output, f

\* Where there is no loop around the child, the list may change.
LEMMA ResultNoLoops ==
    ASSUME NEW p, NEW l, NEW m, NEW ss \in Seq(Scope), \A k \in 1..Len(ss) : ~ss[k].loop,
           NEW d
    PROVE  Result(p, l, ss, d) = Result(p, m, ss, d)
<1> DEFINE n == Len(ss)
<1>1. n \in Nat
  BY LenProperties
<1>2. SameLeaves(p, l, m, ss, ss, n)
  BY DEF SameLeaves, Leaves
<1> HIDE DEF n
<1>3. LeavesAll(p, l, ss)[n] = LeavesAll(p, m, ss)[n]
  BY <1>1, <1>2, LeavesSame
<1> QED
  BY <1>3 DEF Result, n

--------------------------------------------------------------------------------
(* What a child still has to do *)

\* The environment of a child with variables o inside the tags ss, with output t.
ElemOf(ss) == IF ss = <<>> THEN <<>> ELSE <<ss[Len(ss)].value>>
Here(o, ss, t, y, l) ==
    [out |-> t, own |-> o, elem |-> ElemOf(ss), threw |-> FALSE, x |-> y, list |-> l]

\* What a child at tag q of spine p gives in the end.
Finish(p, q, o, ss, t, y, l) ==
    Output(Result(p, l, ss, Run(p)[Len(p) - q + 1][Here(o, ss, t, y, l)]))

\* The position of a child is an environment.
LEMMA HereType ==
    ASSUME NEW o \in Seq(Values), NEW ss \in Seq(Scope), NEW t \in Seq(Values),
           NEW y \in Values, NEW l \in Seq(Values)
    PROVE  Here(o, ss, t, y, l) \in Env
<1>1. ElemOf(ss) \in Seq(Values)
  <2>1. CASE ss = <<>>
    BY <2>1, EmptySeq DEF ElemOf
  <2>2. CASE ss # <<>>
    <3>1. Len(ss) \in 1..Len(ss)
      BY <2>2, LenProperties, EmptySeq
    <3>2. ss[Len(ss)] \in Scope
      BY <3>1, ElementOfSeq
    <3> QED
      BY <2>2, <3>2 DEF ElemOf, Scope
  <2> QED
    BY <2>1, <2>2
<1> QED
  BY <1>1 DEF Here, Env

\* The rest of the spine leaves the variables that the child has.
LEMMA RunHere ==
    ASSUME NEW p \in Programs, NEW q \in 1..Len(p), NEW e \in Env, ~e.threw
    PROVE  /\ Len(p) - q \in 0..Len(p)
           /\ Run(p)[Len(p) - q + 1][e] = Execute(p[q], Run(p)[Len(p) - q], e)
           /\ Len(p) - (q + 1) + 1 = Len(p) - q
<1> DEFINE n == Len(p) - q
           f == Run(p)
<1>1. Len(p) \in Nat
  BY SpineTags
<1>2. n \in Nat /\ n \in 0..Len(p) /\ Len(p) - (n + 1) + 1 = q /\ Len(p) - (q + 1) + 1 = n
  BY <1>1
<1>3. f[0] = [d \in Env |-> d] /\ \A k \in Nat : f[k + 1] = RunStep(p, f[k], k + 1)
  BY RunValues
<1> HIDE DEF f
<1>4. f[n + 1] = RunStep(p, f[n], n + 1)
  BY <1>2, <1>3
<1>5. RunStep(p, f[n], n + 1)[e] = Execute(p[q], f[n], e)
  <2> HIDE DEF n
  <2> QED
    BY <1>2 DEF RunStep
<1>6. f[n + 1][e] = Execute(p[q], f[n], e)
  BY <1>4, <1>5
<1> QED
  BY <1>2, <1>6 DEF f

\* At the end of a spine there is nothing to run.
LEMMA RunEnd ==
    ASSUME NEW p \in Programs, NEW e \in Env
    PROVE  Run(p)[Len(p) - (Len(p) + 1) + 1][e] = e
<1> DEFINE f == Run(p)
<1>1. Len(p) \in Nat
  BY SpineTags
<1>2. Len(p) - (Len(p) + 1) + 1 = 0
  BY <1>1
<1>3. f[0] = [d \in Env |-> d] /\ \A k \in Nat : f[k + 1] = RunStep(p, f[k], k + 1)
  BY RunValues
<1> HIDE DEF f
<1>4. f[0][e] = e
  BY <1>3
<1> QED
  BY <1>2, <1>4 DEF f

\* The first variables of the first variables.
LEMMA Prefix ==
    ASSUME NEW S, NEW s \in Seq(S), NEW m \in Nat, NEW n \in Nat, m <= n, n <= Len(s)
    PROVE  /\ SubSeq(SubSeq(s, 1, n), 1, m) = SubSeq(s, 1, m)
           /\ SubSeq(s, 1, n) \in Seq(S) /\ Len(SubSeq(s, 1, n)) = n
           /\ \A j \in 1..n : SubSeq(s, 1, n)[j] = s[j]
<1>1. Len(s) \in Nat
  BY LenProperties
<1>2. ASSUME NEW u \in Seq(S), NEW k \in Nat, k <= Len(u)
      PROVE  /\ SubSeq(u, 1, k) \in Seq(S) /\ Len(SubSeq(u, 1, k)) = k
             /\ \A j \in 1..k : SubSeq(u, 1, k)[j] = u[j]
  <2>1. \A j \in 1..k : u[j] \in S
    BY <1>2, ElementOfSeq, LenProperties
  <2> QED
    BY <1>2, <2>1, LenProperties
<1>3. /\ SubSeq(s, 1, n) \in Seq(S) /\ Len(SubSeq(s, 1, n)) = n
      /\ \A j \in 1..n : SubSeq(s, 1, n)[j] = s[j]
  BY <1>2
<1>4. /\ SubSeq(s, 1, m) \in Seq(S) /\ Len(SubSeq(s, 1, m)) = m
      /\ \A j \in 1..m : SubSeq(s, 1, m)[j] = s[j]
  BY <1>1, <1>2
<1> DEFINE u == SubSeq(s, 1, n)
<1>5. /\ SubSeq(u, 1, m) \in Seq(S) /\ Len(SubSeq(u, 1, m)) = m
      /\ \A j \in 1..m : SubSeq(u, 1, m)[j] = u[j]
  <2> HIDE DEF u
  <2>1. u \in Seq(S) /\ Len(u) = n
    BY <1>3 DEF u
  <2> QED
    BY <1>2, <2>1
<1>6. \A j \in 1..m : SubSeq(u, 1, m)[j] = SubSeq(s, 1, m)[j]
  BY <1>3, <1>4, <1>5
<1>7. SubSeq(u, 1, m) = SubSeq(s, 1, m)
  <2> DEFINE v == SubSeq(u, 1, m)
             w == SubSeq(s, 1, m)
  <2>1. v \in Seq(S) /\ w \in Seq(S) /\ Len(v) = Len(w) /\ \A j \in 1..Len(v) : v[j] = w[j]
    BY <1>4, <1>5, <1>6
  <2> HIDE DEF v, w
  <2>2. v = w
    BY <2>1, SeqEqual
  <2> QED
    BY <2>2 DEF v, w
<1> QED
  BY <1>3, <1>7

\* Two environments are the same outside of a tag when they differ in what was declared
\* inside it.
LEMMA NarrowedAlike ==
    ASSUME NEW s \in Scope, NEW d \in Env, NEW f \in Env, d.out = f.out, d.threw = f.threw,
           d.x = f.x, d.list = f.list, SubSeq(d.own, 1, s.vars) = SubSeq(f.own, 1, s.vars)
    PROVE  Narrowed(s, d) = Narrowed(s, f)
<1> DEFINE o == SubSeq(d.own, 1, s.vars)
<1>1. ASSUME NEW e \in Env, SubSeq(e.own, 1, s.vars) = o
      PROVE  Narrowed(s, e) = [out |-> e.out, own |-> o, elem |-> <<>>, threw |-> e.threw,
                               x |-> e.x, list |-> e.list]
  <2>1. Narrowed(s, e) = [e EXCEPT !.own = o, !.elem = <<>>]
    BY <1>1 DEF Narrowed
  <2> HIDE DEF o
  <2> QED
    BY <2>1 DEF Env
<1> HIDE DEF o
<1>2. SubSeq(d.own, 1, s.vars) = o /\ SubSeq(f.own, 1, s.vars) = o
  BY DEF o
<1> QED
  BY <1>1, <1>2

\* The last of the tags around the child.
LEMMA ScopesLast ==
    ASSUME NEW ss \in Seq(Scope), ss # <<>>
    PROVE  Len(ss) \in 1..Len(ss) /\ ss[Len(ss)] \in Scope /\ ss[Len(ss)].vars \in Nat
<1>1. Len(ss) \in 1..Len(ss)
  BY LenProperties, EmptySeq
<1>2. ss[Len(ss)] \in Scope
  BY <1>1, ElementOfSeq
<1> QED
  BY <1>1, <1>2 DEF Scope

\* Around the tags ss an environment is what it is with fewer variables, as long as those
\* are there that were declared around the innermost tag.
LEMMA ResultFewer ==
    ASSUME NEW p, NEW l, NEW ss \in Seq(Scope), NEW d \in Env, NEW f \in Env,
           d.out = f.out, d.threw = f.threw, d.x = f.x, d.list = f.list,
           NEW n \in Nat, n <= Len(d.own), f.own = SubSeq(d.own, 1, n),
           ss # <<>> => ss[Len(ss)].vars <= n
    PROVE  Output(Result(p, l, ss, d)) = Output(Result(p, l, ss, f))
<1>1. ss # <<>> => Narrowed(ss[Len(ss)], d) = Narrowed(ss[Len(ss)], f)
  <2> SUFFICES ASSUME ss # <<>> PROVE Narrowed(ss[Len(ss)], d) = Narrowed(ss[Len(ss)], f)
    OBVIOUS
  <2> DEFINE s == ss[Len(ss)]
             m == s.vars
  <2>1. s \in Scope /\ m \in Nat /\ m <= n
    BY ScopesLast
  <2>2. d.own \in Seq(Values)
    BY EnvFields
  <2> HIDE DEF m
  <2>3. SubSeq(d.own, 1, m) = SubSeq(f.own, 1, m)
    BY <2>1, <2>2, Prefix
  <2> HIDE DEF s
  <2>4. Narrowed(s, d) = Narrowed(s, f)
    BY <2>1, <2>3, NarrowedAlike DEF m
  <2> QED
    BY <2>4 DEF s
<1> QED
  BY <1>1, ResultAlike
\* A position of spine p: the tags around it, its variables and output, and the shared data.
Position(p, o, ss, t, y, l) ==
    /\ p \in Programs /\ o \in Seq(Values) /\ ss \in Seq(Scope) /\ t \in Seq(Values)
    /\ y \in Values /\ l \in Seq(Values) /\ AllFit(p, l, ss, Len(o))

\* The environment of a position.
LEMMA HereFields ==
    ASSUME NEW p, NEW o, NEW ss, NEW t, NEW y, NEW l, Position(p, o, ss, t, y, l)
    PROVE  /\ Here(o, ss, t, y, l) \in Env
           /\ Here(o, ss, t, y, l).out = t /\ Here(o, ss, t, y, l).own = o
           /\ Here(o, ss, t, y, l).elem = ElemOf(ss) /\ ~Here(o, ss, t, y, l).threw
           /\ Here(o, ss, t, y, l).x = y /\ Here(o, ss, t, y, l).list = l
           /\ Len(o) \in Nat /\ Len(l) \in Nat /\ Len(p) \in Nat
           /\ ss # <<>> => ss[Len(ss)] \in Scope /\ ss[Len(ss)].vars <= Len(o)
<1>1. Here(o, ss, t, y, l) \in Env
  BY HereType DEF Position
<1>2. Len(o) \in Nat /\ Len(l) \in Nat /\ Len(p) \in Nat
  BY SpineTags, LenProperties DEF Position
<1>3. ss # <<>> => ss[Len(ss)] \in Scope /\ ss[Len(ss)].vars <= Len(o)
  BY ScopesLast DEF Position, AllFit, Fits
<1> QED
  BY <1>1, <1>2, <1>3 DEF Here

\* A step changes one field of the environment.
LEMMA HereOut ==
    ASSUME NEW o, NEW ss, NEW t, NEW y, NEW l, NEW v
    PROVE  [Here(o, ss, t, y, l) EXCEPT !.out = v] = Here(o, ss, v, y, l)
<1> DEFINE a == ElemOf(ss)
           b == FALSE
           e == Here(o, ss, t, y, l)
<1>1. e = [out |-> t, own |-> o, elem |-> a, threw |-> b, x |-> y, list |-> l]
  BY DEF Here
<1>2. Here(o, ss, v, y, l) =
        [out |-> v, own |-> o, elem |-> a, threw |-> b, x |-> y, list |-> l]
  BY DEF Here
<1> HIDE DEF a, b, e
<1>3. [e EXCEPT !.out = v] = Here(o, ss, v, y, l)
  BY <1>1, <1>2
<1> QED
  BY <1>3 DEF e

LEMMA HereOwn ==
    ASSUME NEW o, NEW ss, NEW t, NEW y, NEW l, NEW v
    PROVE  [Here(o, ss, t, y, l) EXCEPT !.own = v] = Here(v, ss, t, y, l)
<1> DEFINE a == ElemOf(ss)
           b == FALSE
           e == Here(o, ss, t, y, l)
<1>1. e = [out |-> t, own |-> o, elem |-> a, threw |-> b, x |-> y, list |-> l]
  BY DEF Here
<1>2. Here(v, ss, t, y, l) =
        [out |-> t, own |-> v, elem |-> a, threw |-> b, x |-> y, list |-> l]
  BY DEF Here
<1> HIDE DEF a, b, e
<1>3. [e EXCEPT !.own = v] = Here(v, ss, t, y, l)
  BY <1>1, <1>2
<1> QED
  BY <1>3 DEF e

LEMMA HereX ==
    ASSUME NEW o, NEW ss, NEW t, NEW y, NEW l, NEW v
    PROVE  [Here(o, ss, t, y, l) EXCEPT !.x = v] = Here(o, ss, t, v, l)
<1> DEFINE a == ElemOf(ss)
           b == FALSE
           e == Here(o, ss, t, y, l)
<1>1. e = [out |-> t, own |-> o, elem |-> a, threw |-> b, x |-> y, list |-> l]
  BY DEF Here
<1>2. Here(o, ss, t, v, l) =
        [out |-> t, own |-> o, elem |-> a, threw |-> b, x |-> v, list |-> l]
  BY DEF Here
<1> HIDE DEF a, b, e
<1>3. [e EXCEPT !.x = v] = Here(o, ss, t, v, l)
  BY <1>1, <1>2
<1> QED
  BY <1>3 DEF e

LEMMA HereList ==
    ASSUME NEW o, NEW ss, NEW t, NEW y, NEW l, NEW v
    PROVE  [Here(o, ss, t, y, l) EXCEPT !.list = v] = Here(o, ss, t, y, v)
<1> DEFINE a == ElemOf(ss)
           b == FALSE
           e == Here(o, ss, t, y, l)
<1>1. e = [out |-> t, own |-> o, elem |-> a, threw |-> b, x |-> y, list |-> l]
  BY DEF Here
<1>2. Here(o, ss, t, y, v) =
        [out |-> t, own |-> o, elem |-> a, threw |-> b, x |-> y, list |-> v]
  BY DEF Here
<1> HIDE DEF a, b, e
<1>3. [e EXCEPT !.list = v] = Here(o, ss, t, y, v)
  BY <1>1, <1>2
<1> QED
  BY <1>3 DEF e

\* A tag without an end of its own.
LEMMA FinishStep ==
    ASSUME NEW p, NEW q \in 1..Len(p), NEW o, NEW ss, NEW t, NEW y, NEW l,
           Position(p, o, ss, t, y, l), NEW u, NEW v, NEW w,
           Execute(p[q], Run(p)[Len(p) - q], Here(o, ss, t, y, l)) =
             Run(p)[Len(p) - q][Here(u, ss, v, w, l)]
    PROVE  Finish(p, q, o, ss, t, y, l) = Finish(p, q + 1, u, ss, v, w, l)
<1> DEFINE e == Here(o, ss, t, y, l)
<1>1. e \in Env /\ ~e.threw /\ p \in Programs
  BY HereFields DEF Position
<1> HIDE DEF e
<1>2. Run(p)[Len(p) - q + 1][e] = Execute(p[q], Run(p)[Len(p) - q], e)
      /\ Len(p) - (q + 1) + 1 = Len(p) - q
  BY <1>1, RunHere
<1> QED
  BY <1>2 DEF Finish, e

\* Each tag whose content begins at once: what the child gives is the same
\* before and behind the tag.
LEMMA FinishGet ==
    ASSUME NEW p, NEW q \in 1..Len(p), NEW o, NEW ss, NEW t, NEW y, NEW l,
           Position(p, o, ss, t, y, l), p[q].tag = "get"
    PROVE  Finish(p, q, o, ss, t, y, l) =
             Finish(p, q + 1, o, ss, Append(t, IF o = <<>> THEN y ELSE o[Len(o)]), y, l)
<1> DEFINE c == Run(p)[Len(p) - q]
           e == Here(o, ss, t, y, l)
           v == Append(t, IF o = <<>> THEN y ELSE o[Len(o)])
<1>1. e.own = o /\ e.x = y /\ e.out = t
  BY HereFields
<1> HIDE DEF c, e
<1>2. Execute(p[q], c, e) = c[[e EXCEPT !.out = v]]
  BY <1>1 DEF Execute
<1> HIDE DEF v
<1>3. [e EXCEPT !.out = v] = Here(o, ss, v, y, l)
  BY HereOut DEF e
<1>4. Execute(p[q], c, e) = c[Here(o, ss, v, y, l)]
  BY <1>2, <1>3
<1>5. Finish(p, q, o, ss, t, y, l) = Finish(p, q + 1, o, ss, v, y, l)
  BY <1>4, FinishStep DEF c, e
<1> QED
  BY <1>5 DEF v

LEMMA FinishSet ==
    ASSUME NEW p, NEW q \in 1..Len(p), NEW o, NEW ss, NEW t, NEW y, NEW l,
           Position(p, o, ss, t, y, l), p[q].tag = "set", o = <<>>
    PROVE  Finish(p, q, o, ss, t, y, l) = Finish(p, q + 1, o, ss, t, p[q].arg, l)
<1> DEFINE c == Run(p)[Len(p) - q]
           e == Here(o, ss, t, y, l)
           v == p[q].arg
<1>1. e = Here(o, ss, t, y, l) /\ e.own = o /\ e.x = y /\ e.out = t
  BY HereFields
<1> HIDE DEF e, c
<1>2. Execute(p[q], c, e) = c[[e EXCEPT !.x = v]]
  BY <1>1 DEF Execute
<1> HIDE DEF v
<1>3. [e EXCEPT !.x = v] = Here(o, ss, t, v, l)
  BY HereX, SMT DEF e
<1>4. Execute(p[q], c, e) = c[Here(o, ss, t, v, l)]
  BY <1>2, <1>3
<1>5. Finish(p, q, o, ss, t, y, l) = Finish(p, q + 1, o, ss, t, v, l)
  BY <1>4, FinishStep DEF c, e
<1> QED
  BY <1>5 DEF v

LEMMA FinishSetOwn ==
    ASSUME NEW p, NEW q \in 1..Len(p), NEW o, NEW ss, NEW t, NEW y, NEW l,
           Position(p, o, ss, t, y, l), p[q].tag = "set", o # <<>>
    PROVE  Finish(p, q, o, ss, t, y, l) =
             Finish(p, q + 1, [o EXCEPT ![Len(o)] = p[q].arg], ss, t, y, l)
<1> DEFINE c == Run(p)[Len(p) - q]
           e == Here(o, ss, t, y, l)
           u == [o EXCEPT ![Len(o)] = p[q].arg]
<1>1. e = Here(o, ss, t, y, l) /\ e.own = o /\ e.x = y /\ e.out = t
  BY HereFields
<1> HIDE DEF e, c
<1>2. Execute(p[q], c, e) = c[[e EXCEPT !.own = u]]
  BY <1>1 DEF Execute
<1> HIDE DEF u
<1>3. [e EXCEPT !.own = u] = Here(u, ss, t, y, l)
  BY HereOwn, SMT DEF e
<1>4. Execute(p[q], c, e) = c[Here(u, ss, t, y, l)]
  BY <1>2, <1>3
<1>5. Finish(p, q, o, ss, t, y, l) = Finish(p, q + 1, u, ss, t, y, l)
  BY <1>4, FinishStep DEF c, e
<1> QED
  BY <1>5 DEF u

LEMMA FinishValue ==
    ASSUME NEW p, NEW q \in 1..Len(p), NEW o, NEW ss, NEW t, NEW y, NEW l,
           Position(p, o, ss, t, y, l), p[q].tag = "value"
    PROVE  Finish(p, q, o, ss, t, y, l) =
             IF ss = <<>> THEN Finish(p, q + 1, o, ss, t, y, l)
             ELSE Finish(p, q + 1, o, ss, Append(t, ss[Len(ss)].value), y, l)
<1> DEFINE c == Run(p)[Len(p) - q]
           e == Here(o, ss, t, y, l)
           v == IF ss = <<>> THEN t ELSE Append(t, ss[Len(ss)].value)
<1>1. /\ e = Here(o, ss, t, y, l) /\ e.out = t /\ e.elem = ElemOf(ss)
      /\ t \in Seq(Values) /\ ss \in Seq(Scope)
  BY HereFields DEF Position
<1> HIDE DEF e, c
<1>2. t \o ElemOf(ss) = v
  <2>1. CASE ss = <<>>
    BY <1>1, <2>1, ConcatEmptySeq DEF ElemOf
  <2>2. CASE ss # <<>>
    <3> DEFINE a == ss[Len(ss)].value
    <3>1. ss[Len(ss)] \in Scope
      BY <1>1, <2>2, ScopesLast
    <3>2. a \in Values
      BY <3>1 DEF Scope
    <3> HIDE DEF a
    <3>3. t \o <<a>> = Append(t, a)
      BY <1>1, <3>2
    <3> QED
      BY <2>2, <3>3 DEF ElemOf, a
  <2> QED
    BY <2>1, <2>2
<1>3. Execute(p[q], c, e) = c[[e EXCEPT !.out = v]]
  BY <1>1, <1>2 DEF Execute
<1> HIDE DEF v
<1>4. [e EXCEPT !.out = v] = Here(o, ss, v, y, l)
  BY HereOut, SMT DEF e
<1>5. Execute(p[q], c, e) = c[Here(o, ss, v, y, l)]
  BY <1>3, <1>4
<1>6. Finish(p, q, o, ss, t, y, l) = Finish(p, q + 1, o, ss, v, y, l)
  BY <1>5, FinishStep DEF c, e
<1> QED
  BY <1>6 DEF v

LEMMA FinishVar ==
    ASSUME NEW p, NEW q \in 1..Len(p), NEW o, NEW ss, NEW t, NEW y, NEW l,
           Position(p, o, ss, t, y, l), p[q].tag = "var"
    PROVE  Finish(p, q, o, ss, t, y, l) = Finish(p, q + 1, Append(o, p[q].arg), ss, t, y, l)
<1> DEFINE c == Run(p)[Len(p) - q]
           e == Here(o, ss, t, y, l)
           u == Append(o, p[q].arg)
           f == Here(u, ss, t, y, l)
           d == c[f]
           g == [d EXCEPT !.own = SubSeq(@, 1, Len(o))]
<1>1. /\ e \in Env /\ ~e.threw /\ e.own = o /\ p \in Programs
      /\ Len(o) \in Nat /\ (ss # <<>> => ss[Len(ss)].vars <= Len(o))
      /\ o \in Seq(Values) /\ ss \in Seq(Scope) /\ t \in Seq(Values) /\ y \in Values
      /\ l \in Seq(Values)
  BY HereFields DEF Position
<1>2. /\ Len(p) - q \in 0..Len(p) /\ Len(p) - (q + 1) + 1 = Len(p) - q
      /\ Run(p)[Len(p) - q + 1][e] = Execute(p[q], c, e)
  BY <1>1, RunHere
<1>3. c \in Contents
  BY <1>1, <1>2, RunTypes
<1>4. u \in Seq(Values) /\ Len(u) = Len(o) + 1
  <2>1. p[q].arg \in Values
    BY <1>1, SpineTags DEF SpineTag
  <2> QED
    BY <1>1, <2>1, AppendProperties
<1> HIDE DEF u, c, e
<1>5. f \in Env /\ f.own = u
  BY <1>1, <1>4, HereType DEF Here
<1>0. [e EXCEPT !.own = u] = f
  BY HereOwn, SMT DEF e, f
<1>6. Execute(p[q], c, e) = g
  BY <1>0, <1>1 DEF Execute, u
<1> HIDE DEF f
<1>7. d \in Env /\ Len(d.own) = Len(o) + 1
  BY <1>3, <1>4, <1>5 DEF Contents
<1> HIDE DEF d
<1>8. SubSeq(d.own, 1, Len(o)) \in Seq(Values)
  <2>1. d.own \in Seq(Values)
    BY <1>7, EnvFields
  <2> QED
    BY <1>1, <1>7, <2>1, Prefix
<1>9. /\ g \in Env /\ g.own = SubSeq(d.own, 1, Len(o)) /\ d.out = g.out
      /\ d.threw = g.threw /\ d.x = g.x /\ d.list = g.list
  BY <1>7, <1>8, EnvFields DEF Env
<1> HIDE DEF g
<1>10. Output(Result(p, l, ss, d)) = Output(Result(p, l, ss, g))
  <2> DEFINE n == Len(o)
  <2>1. n \in Nat /\ n <= Len(d.own) /\ g.own = SubSeq(d.own, 1, n)
    BY <1>1, <1>7, <1>9
  <2>2. ss \in Seq(Scope) /\ (ss # <<>> => ss[Len(ss)].vars <= n)
    BY <1>1
  <2> HIDE DEF n
  <2> QED
    BY <1>7, <1>9, <2>1, <2>2, ResultFewer
<1> QED
  BY <1>2, <1>6, <1>10 DEF Finish, c, d, e, f, u
\* dbp:list_add and dbp:list_remove, which no loop is around.
LEMMA FinishList ==
    ASSUME NEW p, NEW q \in 1..Len(p), NEW o, NEW ss, NEW t, NEW y, NEW l, NEW m,
           Position(p, o, ss, t, y, l), \A k \in 1..Len(ss) : ~ss[k].loop,
           Execute(p[q], Run(p)[Len(p) - q], Here(o, ss, t, y, l)) =
             Run(p)[Len(p) - q][Here(o, ss, t, y, m)]
    PROVE  Finish(p, q, o, ss, t, y, l) = Finish(p, q + 1, o, ss, t, y, m)
<1> DEFINE e == Here(o, ss, t, y, l)
           d == Run(p)[Len(p) - q][Here(o, ss, t, y, m)]
<1>1. e \in Env /\ ~e.threw /\ p \in Programs /\ ss \in Seq(Scope)
  BY HereFields DEF Position
<1> HIDE DEF e
<1>2. Run(p)[Len(p) - q + 1][e] = Execute(p[q], Run(p)[Len(p) - q], e)
      /\ Len(p) - (q + 1) + 1 = Len(p) - q
  BY <1>1, RunHere
<1>3. Finish(p, q, o, ss, t, y, l) = Output(Result(p, l, ss, d))
  BY <1>2 DEF Finish, e
<1>4. Finish(p, q + 1, o, ss, t, y, m) = Output(Result(p, m, ss, d))
  BY <1>2 DEF Finish
<1> HIDE DEF d
<1>5. Result(p, l, ss, d) = Result(p, m, ss, d)
  BY <1>1, ResultNoLoops
<1> QED
  BY <1>3, <1>4, <1>5

LEMMA FinishAdd ==
    ASSUME NEW p, NEW q \in 1..Len(p), NEW o, NEW ss, NEW t, NEW y, NEW l,
           Position(p, o, ss, t, y, l), p[q].tag = "add",
           \A k \in 1..Len(ss) : ~ss[k].loop
    PROVE  Finish(p, q, o, ss, t, y, l) =
             Finish(p, q + 1, o, ss, t, y, Append(l, p[q].arg))
<1> DEFINE c == Run(p)[Len(p) - q]
           e == Here(o, ss, t, y, l)
           m == Append(l, p[q].arg)
<1>1. e.list = l
  BY HereFields
<1> HIDE DEF c, e
<1>2. Execute(p[q], c, e) = c[[e EXCEPT !.list = m]]
  BY <1>1 DEF Execute
<1> HIDE DEF m
<1>3. [e EXCEPT !.list = m] = Here(o, ss, t, y, m)
  BY HereList DEF e
<1>4. Execute(p[q], c, e) = c[Here(o, ss, t, y, m)]
  BY <1>2, <1>3
<1>5. Finish(p, q, o, ss, t, y, l) = Finish(p, q + 1, o, ss, t, y, m)
  BY <1>4, FinishList DEF c, e
<1> QED
  BY <1>5 DEF m

\* erase, as the reference and as the child do it.
LEMMA WithoutIs ==
    ASSUME NEW l \in Seq(Values), NEW v \in Nat, v < Len(l)
    PROVE  Without(l, v) = SubSeq(l, 1, v) \o SubSeq(l, v + 2, Len(l))
<1> DEFINE a == SubSeq(l, 1, v)
           b == SubSeq(l, v + 2, Len(l))
           n == Len(l) - 1 - v
<1>1. Len(l) \in Nat /\ n \in Nat /\ \A j \in 1..Len(l) : l[j] \in Values
  BY LenProperties, ElementOfSeq
<1>2. a \in Seq(Values) /\ Len(a) = v /\ \A j \in 1..v : a[j] = l[j]
  BY <1>1, Prefix
<1>3. b \in Seq(Values) /\ Len(b) = n /\ \A j \in 1..n : b[j] = l[v + 1 + j]
  <2>1. \A j \in (v + 2)..Len(l) : l[j] \in Values
    BY <1>1
  <2>2. b \in Seq(Values)
    BY <1>1, <2>1, SubSeqProperties
  <2>3. Len(b) = n
    BY <1>1, <2>1, SubSeqProperties
  <2>4. \A j \in 1..n : b[j] = l[v + 1 + j]
    BY <1>1, <2>1, SubSeqProperties
  <2> QED
    BY <2>2, <2>3, <2>4
<1> HIDE DEF a, b
<1>4. /\ a \o b \in Seq(Values) /\ Len(a \o b) = v + n
      /\ \A j \in 1..(v + n) : (a \o b)[j] = IF j <= v THEN a[j] ELSE b[j - v]
  <2>1. /\ a \o b \in Seq(Values) /\ Len(a \o b) = Len(a) + Len(b)
        /\ \A j \in 1..(Len(a) + Len(b)) :
             (a \o b)[j] = IF j <= Len(a) THEN a[j] ELSE b[j - Len(a)]
    BY <1>2, <1>3, ConcatProperties
  <2> HIDE DEF n
  <2> QED
    BY <1>2, <1>3, <2>1
<1>5. v + n = Len(l) - 1
  BY <1>1
<1>6. Without(l, v) \in Seq(Values) /\ Len(Without(l, v)) = Len(l) - 1
  <2>1. Without(l, v) \in Seq(Values)
    BY WithoutType
  <2>2. Len(l) - 1 \in Nat /\ DOMAIN Without(l, v) = 1..(Len(l) - 1)
    BY <1>1 DEF Without
  <2> QED
    BY <2>1, <2>2
<1>7. ASSUME NEW j \in 1..(Len(l) - 1)
      PROVE  Without(l, v)[j] = (a \o b)[j]
  <2>1. Without(l, v)[j] = IF j <= v THEN l[j] ELSE l[j + 1]
    BY DEF Without
  <2>2. CASE j <= v
    BY <1>1, <1>2, <1>4, <1>5, <2>1, <2>2
  <2>3. CASE ~(j <= v)
    <3>1. j - v \in 1..n /\ v + 1 + (j - v) = j + 1
      BY <1>1, <1>5, <2>3
    <3>2. b[j - v] = l[j + 1]
      BY <1>3, <3>1
    <3> QED
      BY <1>1, <1>4, <1>5, <2>1, <2>3, <3>2
  <2> QED
    BY <2>2, <2>3
<1> DEFINE w == Without(l, v)
           z == a \o b
<1>8. /\ w \in Seq(Values) /\ z \in Seq(Values) /\ Len(w) = Len(z)
      /\ \A j \in 1..Len(w) : w[j] = z[j]
  BY <1>4, <1>5, <1>6, <1>7
<1> HIDE DEF w, z
<1>9. w = z
  BY <1>8, SeqEqual
<1> QED
  BY <1>9 DEF w, z, a, b

LEMMA FinishRemove ==
    ASSUME NEW p, NEW q \in 1..Len(p), NEW o, NEW ss, NEW t, NEW y, NEW l,
           Position(p, o, ss, t, y, l), p[q].tag = "remove", p[q].arg < Len(l),
           \A k \in 1..Len(ss) : ~ss[k].loop
    PROVE  Finish(p, q, o, ss, t, y, l) =
             Finish(p, q + 1, o, ss, t, y,
                    SubSeq(l, 1, p[q].arg) \o SubSeq(l, p[q].arg + 2, Len(l)))
<1> DEFINE c == Run(p)[Len(p) - q]
           e == Here(o, ss, t, y, l)
           m == Without(l, p[q].arg)
<1>1. e.list = l /\ l \in Seq(Values) /\ p \in Programs
  BY HereFields DEF Position
<1> HIDE DEF c, e
<1>2. Execute(p[q], c, e) = c[[e EXCEPT !.list = m]]
  BY <1>1 DEF Execute
<1>0. m = SubSeq(l, 1, p[q].arg) \o SubSeq(l, p[q].arg + 2, Len(l))
  <2> DEFINE v == p[q].arg
  <2>1. v \in Nat /\ v < Len(l)
    BY <1>1, SpineTags DEF SpineTag
  <2> HIDE DEF v
  <2>2. Without(l, v) = SubSeq(l, 1, v) \o SubSeq(l, v + 2, Len(l))
    BY <1>1, <2>1, WithoutIs
  <2> QED
    BY <2>2 DEF v
<1> HIDE DEF m
<1>3. [e EXCEPT !.list = m] = Here(o, ss, t, y, m)
  BY HereList DEF e
<1>4. Execute(p[q], c, e) = c[Here(o, ss, t, y, m)]
  BY <1>2, <1>3
<1>5. Finish(p, q, o, ss, t, y, l) = Finish(p, q + 1, o, ss, t, y, m)
  BY <1>4, FinishList DEF c, e
<1> QED
  BY <1>0, <1>5

\* The end of a dbp:list_element, or of a dbp:list_elements that has no element left.
LEMMA ResultEnd ==
    ASSUME NEW p \in Programs, NEW l \in Seq(Values), NEW ss \in Seq(Scope), NEW s \in Scope,
           NEW d \in Env, NEW f \in Env, s.loop => s.pos = Len(l), s.vars <= Len(d.own),
           ss # <<>> => ss[Len(ss)].vars <= s.vars,
           f.own = d.own, f.out = d.out, f.threw = d.threw, f.x = d.x, f.list = d.list
    PROVE  Output(Result(p, l, Append(ss, s), d)) = Output(Result(p, l, ss, f))
<1> DEFINE g == Narrowed(s, d)
           n == s.vars
<1>1. n \in Nat /\ Len(l) \in Nat
  BY LenProperties DEF Scope
<1>2. /\ g \in Env /\ g.own = SubSeq(d.own, 1, n) /\ g.out = d.out /\ g.threw = d.threw
      /\ g.x = d.x /\ g.list = d.list
  BY NarrowedType
<1>3. Leaves(p, l, s, d) = g
  <2>1. CASE ~s.loop
    BY <2>1 DEF Leaves
  <2>2. CASE s.loop
    <3> DEFINE r == Run(p)[Len(p) - s.pc]
    <3>1. Len(l) - s.pos = 0
      BY <1>1, <2>2
    <3>2. Each(r, l, s.pos, g)[0] = g
      BY EachValues
    <3> QED
      BY <2>2, <3>1, <3>2 DEF Leaves
  <2> QED
    BY <2>1, <2>2
<1>4. Result(p, l, Append(ss, s), d) = Result(p, l, ss, g)
  BY <1>3, ResultInside
<1> HIDE DEF g, n
<1>5. n <= Len(f.own) /\ g.own = SubSeq(f.own, 1, n) /\ (ss # <<>> => ss[Len(ss)].vars <= n)
  BY <1>2 DEF n
<1>6. g.out = f.out /\ g.threw = f.threw /\ g.x = f.x /\ g.list = f.list
  BY <1>2
<1>7. Output(Result(p, l, ss, f)) = Output(Result(p, l, ss, g))
  BY <1>1, <1>2, <1>5, <1>6, ResultFewer
<1> QED
  BY <1>4, <1>7

\* The element from before a loop has no influence on what the loop does.
LEMMA EachFresh ==
    ASSUME NEW content, NEW l, NEW a \in Nat, NEW e \in Env, NEW f \in Env, NEW j \in Nat,
           j # 0, f.out = e.out, f.own = e.own, f.threw = e.threw, f.x = e.x, f.list = e.list
    PROVE  Each(content, l, a, f)[j] = Each(content, l, a, e)[j]
<1> DEFINE b == EachStep(content, l, a, f, 1)
           w == <<l[a + 1]>>
<1>1. b = EachStep(content, l, a, e, 1)
  <2>1. [f EXCEPT !.elem = w] = [e EXCEPT !.elem = w]
    <3> HIDE DEF w
    <3> QED
      BY DEF Env
  <2> QED
    BY <2>1 DEF EachStep
<1> HIDE DEF b
<1>2. b = EachStep(content, l, a, f, 1)
  BY DEF b
<1>3. j - 1 \in Nat /\ (j - 1) + 1 = j
  OBVIOUS
<1>4. \A k \in Nat : Each(content, l, a, e)[k + 1] = Each(content, l, a + 1, b)[k]
  BY <1>1, EachShift
<1>5. \A k \in Nat : Each(content, l, a, f)[k + 1] = Each(content, l, a + 1, b)[k]
  BY <1>2, EachShift
<1> QED
  BY <1>3, <1>4, <1>5

\* The rest of a loop, once the content has been executed for one of the elements.
LEMMA LoopTail ==
    ASSUME NEW p \in Programs, NEW l \in Seq(Values), NEW ss \in Seq(Scope), NEW s,
           NEW b \in Env, Fits(p, l, s, Len(b.own)), s.loop, Len(b.own) = s.vars,
           ss # <<>> => ss[Len(ss)].vars <= s.vars
    PROVE  Output(Result(p, l, ss, Each(Run(p)[Len(p) - s.pc], l, s.pos, b)[Len(l) - s.pos]))
             = Output(Result(p, l, Append(ss, s), b))
<1> DEFINE c == Run(p)[Len(p) - s.pc]
           m == Len(l) - s.pos
           g == Narrowed(s, b)
<1>1. Len(l) \in Nat /\ s \in Scope /\ s.pos \in Nat /\ s.pos <= Len(l)
  BY LenProperties DEF Fits, Scope
<1>2. m \in Nat
  BY <1>1
<1>3. CASE m = 0
  <2>1. s.pos = Len(l)
    BY <1>1, <1>3
  <2>2. Each(c, l, s.pos, b)[m] = b
    <3>1. Each(c, l, s.pos, b)[0] = b
      BY EachValues
    <3> QED
      BY <1>3, <3>1
  <2>3. Output(Result(p, l, Append(ss, s), b)) = Output(Result(p, l, ss, b))
    BY <1>1, <2>1, ResultEnd DEF Fits
  <2> QED
    BY <2>2, <2>3
<1>4. CASE m # 0
  <2>1. /\ g \in Env /\ g.own = b.own /\ g.out = b.out /\ g.threw = b.threw
        /\ g.x = b.x /\ g.list = b.list
    <3>1. b.own \in Seq(Values)
      BY EnvFields
    <3>2. SubSeq(b.own, 1, Len(b.own)) = b.own
      <4> DEFINE u == SubSeq(b.own, 1, Len(b.own))
      <4>1. u \in Seq(Values) /\ Len(u) = Len(b.own) /\ \A j \in 1..Len(u) : u[j] = b.own[j]
        BY <3>1, Prefix, LenProperties
      <4> HIDE DEF u
      <4>2. u = b.own
        BY <3>1, <4>1, SeqEqual
      <4> QED
        BY <4>2 DEF u
    <3> QED
      BY <1>1, <3>1, <3>2, NarrowedType, LenProperties, SMTT(30)
  <2>2. Each(c, l, s.pos, g)[m] = Each(c, l, s.pos, b)[m]
    <3> DEFINE a == s.pos
    <3>1. a \in Nat /\ m \in Nat /\ m # 0
      BY <1>1, <1>2, <1>4
    <3>2. /\ g \in Env /\ g.own = b.own /\ g.out = b.out /\ g.threw = b.threw
          /\ g.x = b.x /\ g.list = b.list
      BY <2>1
    <3> HIDE DEF g, m, c, a
    <3>3. Each(c, l, a, g)[m] = Each(c, l, a, b)[m]
      BY <3>1, <3>2, EachFresh
    <3> QED
      BY <3>3 DEF a
  <2>3. Leaves(p, l, s, b) = Each(c, l, s.pos, g)[m]
    BY DEF Leaves
  <2>4. Result(p, l, Append(ss, s), b) = Result(p, l, ss, Leaves(p, l, s, b))
    BY ResultInside
  <2> QED
    BY <2>2, <2>3, <2>4
<1> QED
  BY <1>3, <1>4

\* The tag that was entered last.
LEMMA AppendLast ==
    ASSUME NEW ss \in Seq(Scope), NEW s \in Scope, NEW tt, tt = Append(ss, s)
    PROVE  tt \in Seq(Scope) /\ tt # <<>> /\ tt[Len(tt)] = s
<1>1. /\ Len(ss) \in Nat /\ tt \in Seq(Scope) /\ Len(tt) = Len(ss) + 1
      /\ tt[Len(ss) + 1] = s
  BY LenProperties, AppendProperties
<1>2. Len(tt) # 0
  BY <1>1
<1> QED
  BY <1>1, <1>2, EmptySeq

LEMMA HereElem ==
    ASSUME NEW o, NEW tt, NEW s, NEW t, NEW y, NEW l, tt # <<>>, tt[Len(tt)] = s,
           NEW e \in Env, e.out = t, e.own = o, ~e.threw, e.x = y, e.list = l
    PROVE  [e EXCEPT !.elem = <<s.value>>] = Here(o, tt, t, y, l)
<1> DEFINE v == <<s.value>>
           b == e.threw
<1>1. ElemOf(tt) = v
  BY DEF ElemOf
<1>2. b = FALSE
  BY DEF Env
<1>3. Here(o, tt, t, y, l) =
        [out |-> t, own |-> o, elem |-> v, threw |-> b, x |-> y, list |-> l]
  BY <1>1, <1>2, Zenon DEF Here
<1> HIDE DEF v, b
<1>4. [e EXCEPT !.elem = v] =
        [out |-> e.out, own |-> e.own, elem |-> v, threw |-> e.threw, x |-> e.x,
         list |-> e.list]
  BY SMTT(30) DEF Env
<1>5. [e EXCEPT !.elem = v] = Here(o, tt, t, y, l)
  BY <1>3, <1>4 DEF b
<1> QED
  BY <1>5 DEF v

\* The content of a tag.
LEMMA ContentBegins ==
    ASSUME NEW p \in Programs, NEW q \in 1..Len(p), NEW h \in Env, NEW d,
           d = Run(p)[Len(p) - q][h]
    PROVE  d \in Env /\ Len(d.own) = Len(h.own)
<1> DEFINE c == Run(p)[Len(p) - q]
<1>1. Len(p) - q \in 0..Len(p)
  BY SpineTags
<1>2. c \in Contents
  BY <1>1, RunTypes
<1> HIDE DEF c
<1>3. c[h] \in Env /\ Len(c[h].own) = Len(h.own)
  BY <1>2 DEF Contents
<1>4. d = c[h]
  BY DEF c
<1> QED
  BY <1>3, <1>4

\* dbp:list_element and dbp:list_elements begin.
LEMMA FinishElement ==
    ASSUME NEW p, NEW q \in 1..Len(p), NEW o, NEW ss, NEW t, NEW y, NEW l,
           Position(p, o, ss, t, y, l), p[q].tag = "element", p[q].arg < Len(l),
           NEW s \in Scope, ~s.loop, s.value = l[p[q].arg + 1], s.vars = Len(o)
    PROVE  Finish(p, q, o, ss, t, y, l) = Finish(p, q + 1, o, Append(ss, s), t, y, l)
<1> DEFINE c == Run(p)[Len(p) - q]
           e == Here(o, ss, t, y, l)
           tt == Append(ss, s)
           h == Here(o, tt, t, y, l)
           d == c[h]
<1>1. /\ e \in Env /\ e.out = t /\ e.own = o /\ ~e.threw /\ e.x = y /\ e.list = l
      /\ p \in Programs /\ ss \in Seq(Scope) /\ o \in Seq(Values) /\ t \in Seq(Values)
      /\ y \in Values /\ l \in Seq(Values) /\ Len(o) \in Nat
      /\ ss # <<>> => ss[Len(ss)].vars <= Len(o)
  <2>1. p \in Programs /\ ss \in Seq(Scope) /\ o \in Seq(Values) /\ t \in Seq(Values)
        /\ y \in Values /\ l \in Seq(Values)
    BY DEF Position
  <2> QED
    BY <2>1, HereFields
<1>0. tt \in Seq(Scope) /\ tt # <<>> /\ tt[Len(tt)] = s
  BY <1>1, AppendLast
<1> HIDE DEF tt
<1>2. /\ Run(p)[Len(p) - q + 1][e] = Execute(p[q], c, e)
      /\ Len(p) - (q + 1) + 1 = Len(p) - q
  BY <1>1, RunHere
<1>3. d \in Env /\ Len(d.own) = Len(o)
  <2>1. h \in Env /\ h.own = o
    BY <1>0, <1>1, HereType DEF Here
  <2> HIDE DEF h
  <2>2. d = Run(p)[Len(p) - q][h]
    OBVIOUS
  <2>3. p \in Programs /\ q \in 1..Len(p)
    BY <1>1
  <2> HIDE DEF d
  <2>4. d \in Env /\ Len(d.own) = Len(h.own)
    BY <2>1, <2>2, <2>3, ContentBegins
  <2> QED
    BY <2>1, <2>4
<1> HIDE DEF c, e
<1>4. [e EXCEPT !.elem = <<s.value>>] = h
  BY <1>0, <1>1, HereElem
<1> HIDE DEF h
<1>5. Execute(p[q], c, e) = c[[e EXCEPT !.elem = <<s.value>>]]
  BY <1>1 DEF Execute
<1>6. Execute(p[q], c, e) = d
  BY <1>4, <1>5
<1> HIDE DEF d
<1>7. Output(Result(p, l, Append(ss, s), d)) = Output(Result(p, l, ss, d))
  BY <1>1, <1>3, ResultEnd
<1> QED
  BY <1>2, <1>6, <1>7 DEF Finish, c, d, e, h, tt

LEMMA FinishElements ==
    ASSUME NEW p, NEW q \in 1..Len(p), NEW o, NEW ss, NEW t, NEW y, NEW l,
           Position(p, o, ss, t, y, l), p[q].tag = "elements", l # <<>>,
           NEW s \in Scope, s.pc = q, s.loop, s.pos = 1, s.value = l[1], s.vars = Len(o)
    PROVE  Finish(p, q, o, ss, t, y, l) = Finish(p, q + 1, o, Append(ss, s), t, y, l)
<1> DEFINE c == Run(p)[Len(p) - q]
           e == Here(o, ss, t, y, l)
           tt == Append(ss, s)
           h == Here(o, tt, t, y, l)
           d == c[h]
<1>1. /\ e \in Env /\ e.out = t /\ e.own = o /\ ~e.threw /\ e.x = y /\ e.list = l
      /\ p \in Programs /\ ss \in Seq(Scope) /\ o \in Seq(Values) /\ t \in Seq(Values)
      /\ y \in Values /\ l \in Seq(Values) /\ Len(o) \in Nat
      /\ ss # <<>> => ss[Len(ss)].vars <= Len(o)
  <2>1. p \in Programs /\ ss \in Seq(Scope) /\ o \in Seq(Values) /\ t \in Seq(Values)
        /\ y \in Values /\ l \in Seq(Values)
    BY DEF Position
  <2> QED
    BY <2>1, HereFields
<1>0. tt \in Seq(Scope) /\ tt # <<>> /\ tt[Len(tt)] = s
  BY <1>1, AppendLast
<1> HIDE DEF tt
<1>2. /\ Run(p)[Len(p) - q + 1][e] = Execute(p[q], c, e)
      /\ Len(p) - (q + 1) + 1 = Len(p) - q
  BY <1>1, RunHere
<1>3. d \in Env /\ Len(d.own) = Len(o)
  <2>1. h \in Env /\ h.own = o
    BY <1>0, <1>1, HereType DEF Here
  <2> HIDE DEF h
  <2>2. d = Run(p)[Len(p) - q][h]
    OBVIOUS
  <2>3. p \in Programs /\ q \in 1..Len(p)
    BY <1>1
  <2> HIDE DEF d
  <2>4. d \in Env /\ Len(d.own) = Len(h.own)
    BY <2>1, <2>2, <2>3, ContentBegins
  <2> QED
    BY <2>1, <2>4
<1>4. Len(l) - 1 \in Nat /\ (Len(l) - 1) + 1 = Len(l) /\ 1 <= Len(l)
  BY <1>1, LenProperties, EmptySeq
<1> HIDE DEF c, e
<1>5. [e EXCEPT !.elem = <<s.value>>] = h
  BY <1>0, <1>1, HereElem
<1> HIDE DEF h
<1>6. d = EachStep(c, l, 0, e, 1)
  <2>1. 0 + 1 = 1
    OBVIOUS
  <2>2. EachStep(c, l, 0, e, 1) = c[[e EXCEPT !.elem = <<s.value>>]]
    BY <2>1 DEF EachStep
  <2> QED
    BY <1>5, <2>2
<1>7. Execute(p[q], c, e) = Each(c, l, 0, e)[Len(l)]
  BY <1>1, ExecuteElements
<1> HIDE DEF d
<1>8. \A j \in Nat : Each(c, l, 0, e)[j + 1] = Each(c, l, 0 + 1, d)[j]
  BY <1>6, EachShift
<1>9. Execute(p[q], c, e) = Each(c, l, 1, d)[Len(l) - 1]
  BY <1>4, <1>7, <1>8
<1>10. Fits(p, l, s, Len(d.own))
  BY <1>1, <1>3, <1>4 DEF Fits
<1>11. Output(Result(p, l, ss, Each(c, l, 1, d)[Len(l) - 1]))
         = Output(Result(p, l, Append(ss, s), d))
  <2>1. Output(Result(p, l, ss, Each(Run(p)[Len(p) - s.pc], l, s.pos, d)[Len(l) - s.pos]))
             = Output(Result(p, l, Append(ss, s), d))
    <3>1. /\ ss # <<>> => ss[Len(ss)].vars <= s.vars
          /\ p \in Programs /\ ss \in Seq(Scope) /\ l \in Seq(Values)
      BY <1>1
    <3>2. d \in Env /\ Len(d.own) = s.vars /\ Fits(p, l, s, Len(d.own)) /\ s.loop
      BY <1>3, <1>10
    <3> QED
      BY <3>1, <3>2, LoopTail, SMTT(30)
  <2> QED
    BY <2>1 DEF c
<1> QED
  BY <1>2, <1>9, <1>11 DEF Finish, c, d, e, h, tt

LEMMA FinishElementsNone ==
    ASSUME NEW p, NEW q \in 1..Len(p), NEW o, NEW ss, NEW t, NEW y, NEW l,
           Position(p, o, ss, t, y, l), p[q].tag = "elements", l = <<>>
    PROVE  Finish(p, q, o, ss, t, y, l) = Finish(p, Len(p) + 1, o, ss, t, y, l)
<1> DEFINE c == Run(p)[Len(p) - q]
           e == Here(o, ss, t, y, l)
<1>1. e \in Env /\ ~e.threw /\ e.list = l
  BY HereFields
<1>0. p \in Programs
  BY DEF Position
<1>2. Run(p)[Len(p) - q + 1][e] = Execute(p[q], c, e)
  BY <1>0, <1>1, RunHere
<1> HIDE DEF c, e
<1>3. Len(l) = 0
  BY EmptySeq
<1>4. Execute(p[q], c, e) = Each(c, l, 0, e)[0]
  BY <1>1, <1>3, ExecuteElements
<1>5. Each(c, l, 0, e)[0] = e
  BY EachValues
<1>6. Run(p)[Len(p) - (Len(p) + 1) + 1][e] = e
  BY <1>0, <1>1, RunEnd
<1> QED
  BY <1>2, <1>4, <1>5, <1>6 DEF Finish, e

\* The next turn of a loop.
LEMMA FinishAgain ==
    ASSUME NEW p, NEW o, NEW ss \in Seq(Scope), NEW s \in Scope, NEW t, NEW y, NEW l,
           Position(p, o, Append(ss, s), t, y, l), s.loop, s.pos + 1 <= Len(l),
           ss # <<>> => ss[Len(ss)].vars <= s.vars,
           s.pc \in 1..Len(p), s.vars <= Len(o),
           NEW r \in Scope, r.pc = s.pc, r.loop, r.pos = s.pos + 1, r.value = l[r.pos],
           r.vars = s.vars
    PROVE  Finish(p, Len(p) + 1, o, Append(ss, s), t, y, l) =
             Finish(p, s.pc + 1, SubSeq(o, 1, s.vars), Append(ss, r), t, y, l)
<1> DEFINE q == s.pc
           c == Run(p)[Len(p) - q]
           tt == Append(ss, s)
           rr == Append(ss, r)
           e == Here(o, tt, t, y, l)
           u == SubSeq(o, 1, s.vars)
           g == Narrowed(s, e)
           h == Here(u, rr, t, y, l)
           d == c[h]
           a == s.pos
           k == Len(l) - a - 1
<1>1. /\ e \in Env /\ e.out = t /\ e.own = o /\ ~e.threw /\ e.x = y /\ e.list = l
      /\ p \in Programs /\ o \in Seq(Values) /\ t \in Seq(Values)
      /\ y \in Values /\ l \in Seq(Values) /\ Len(o) \in Nat /\ Len(p) \in Nat
      /\ Len(l) \in Nat /\ s.vars \in Nat /\ a \in Nat
  <2>1. /\ p \in Programs /\ o \in Seq(Values) /\ t \in Seq(Values)
        /\ y \in Values /\ l \in Seq(Values) /\ s.vars \in Nat /\ a \in Nat
    BY DEF Position, Scope
  <2>2. Position(p, o, tt, t, y, l)
    OBVIOUS
  <2> HIDE DEF tt
  <2> QED
    BY <2>1, <2>2, HereFields
<1>0. rr \in Seq(Scope) /\ rr # <<>> /\ rr[Len(rr)] = r
  BY AppendLast
<1> HIDE DEF tt, rr
<1>2. u \in Seq(Values) /\ Len(u) = s.vars
  BY <1>1, Prefix
<1>3. /\ g \in Env /\ g.own = u /\ g.out = t /\ ~g.threw /\ g.x = y /\ g.list = l
  <2>1. s.vars <= Len(e.own) /\ e \in Env
    BY <1>1
  <2> HIDE DEF e
  <2>2. /\ g \in Env /\ g.own = SubSeq(e.own, 1, s.vars)
        /\ g.out = e.out /\ g.threw = e.threw /\ g.x = e.x /\ g.list = e.list
    BY <2>1, NarrowedType
  <2> QED
    BY <1>1, <2>2
<1> HIDE DEF e, g, u
<1>4. Run(p)[Len(p) - (Len(p) + 1) + 1][e] = e
  BY <1>1, RunEnd
<1>5. d \in Env /\ Len(d.own) = Len(u)
  <2>1. h \in Env /\ h.own = u
    BY <1>0, <1>1, <1>2, HereType DEF Here
  <2> HIDE DEF h
  <2>2. d = Run(p)[Len(p) - q][h] /\ q \in 1..Len(p)
    OBVIOUS
  <2> HIDE DEF d, q
  <2> QED
    BY <1>1, <2>1, <2>2, ContentBegins
<1> HIDE DEF c
<1>6. [g EXCEPT !.elem = <<r.value>>] = h
  BY <1>0, <1>3, HereElem
<1> HIDE DEF h
<1>7. d = EachStep(c, l, a, g, 1)
  <2>1. EachStep(c, l, a, g, 1) = c[[g EXCEPT !.elem = <<r.value>>]]
    BY DEF EachStep
  <2> QED
    BY <1>6, <2>1
<1> HIDE DEF d
<1>8. k \in Nat /\ k + 1 = Len(l) - a /\ k = Len(l) - r.pos /\ a + 1 = r.pos
  <2>1. Len(l) \in Nat /\ a \in Nat /\ a + 1 <= Len(l) /\ r.pos = a + 1
    BY <1>1
  <2> HIDE DEF a
  <2> QED
    BY <2>1
<1>9. Leaves(p, l, s, e) = Each(c, l, a, g)[Len(l) - a]
  BY DEF Leaves, c, g
<1> HIDE DEF a, k
<1>10. \A j \in Nat : Each(c, l, a, g)[j + 1] = Each(c, l, a + 1, d)[j]
  <2>1. a \in Nat
    BY <1>1
  <2> QED
    BY <1>7, <2>1, EachShift
<1>11. Leaves(p, l, s, e) = Each(c, l, r.pos, d)[Len(l) - r.pos]
  BY <1>8, <1>9, <1>10
<1>12. Fits(p, l, r, Len(d.own))
  BY <1>1, <1>2, <1>5, <1>8 DEF Fits, a
<1>13. Output(Result(p, l, ss, Each(c, l, r.pos, d)[Len(l) - r.pos]))
         = Output(Result(p, l, Append(ss, r), d))
  <2>1. c = Run(p)[Len(p) - r.pc] /\ Len(d.own) = r.vars
    BY <1>2, <1>5 DEF c
  <2>2. ss # <<>> => ss[Len(ss)].vars <= r.vars
    OBVIOUS
  <2> HIDE DEF c, q
  <2> QED
    BY <1>1, <1>5, <1>12, <2>1, <2>2, LoopTail, SMTT(30)
<1>14. Result(p, l, Append(ss, s), e) = Result(p, l, ss, Leaves(p, l, s, e))
  BY <1>1, ResultInside
<1>15. Finish(p, Len(p) + 1, o, Append(ss, s), t, y, l)
         = Output(Result(p, l, Append(ss, s), e))
  BY <1>4 DEF Finish, e, tt
<1>16. Finish(p, q + 1, u, Append(ss, r), t, y, l) = Output(Result(p, l, Append(ss, r), d))
  <2>1. Len(p) - (q + 1) + 1 = Len(p) - q
    BY <1>1
  <2> HIDE DEF q
  <2> QED
    BY <2>1 DEF Finish, d, c, h, rr
<1> QED
  BY <1>11, <1>13, <1>14, <1>15, <1>16 DEF u

\* The end of the content of a dbp:list_element, or of the last turn of a loop.
LEMMA FinishLeave ==
    ASSUME NEW p, NEW o, NEW ss \in Seq(Scope), NEW s \in Scope, NEW t, NEW y, NEW l,
           Position(p, o, Append(ss, s), t, y, l), s.loop => s.pos = Len(l),
           ss # <<>> => ss[Len(ss)].vars <= s.vars, s.vars <= Len(o)
    PROVE  Finish(p, Len(p) + 1, o, Append(ss, s), t, y, l) =
             Finish(p, Len(p) + 1, o, ss, t, y, l)
<1> DEFINE tt == Append(ss, s)
           e == Here(o, tt, t, y, l)
           f == Here(o, ss, t, y, l)
<1>1. /\ e \in Env /\ e.out = t /\ e.own = o /\ ~e.threw /\ e.x = y /\ e.list = l
      /\ p \in Programs /\ l \in Seq(Values)
  <2>1. Position(p, o, tt, t, y, l)
    OBVIOUS
  <2> HIDE DEF tt
  <2>2. p \in Programs /\ l \in Seq(Values)
    BY <2>1 DEF Position
  <2> QED
    BY <2>1, <2>2, HereFields
<1>2. f \in Env
  BY HereType DEF Position
<1>3. f.out = t /\ f.own = o /\ ~f.threw /\ f.x = y /\ f.list = l
  BY DEF Here
<1> HIDE DEF e, f
<1>4. f.threw = e.threw
  BY <1>1, <1>2, <1>3 DEF Env
<1>5. Output(Result(p, l, Append(ss, s), e)) = Output(Result(p, l, ss, f))
  BY <1>1, <1>2, <1>3, <1>4, ResultEnd
<1>6. /\ Run(p)[Len(p) - (Len(p) + 1) + 1][e] = e
      /\ Run(p)[Len(p) - (Len(p) + 1) + 1][f] = f
  BY <1>1, <1>2, RunEnd
<1> QED
  BY <1>5, <1>6 DEF Finish, e, f

\* A tag that throws.
LEMMA FinishThrow ==
    ASSUME NEW p, NEW q \in 1..Len(p), NEW o, NEW ss, NEW t, NEW y, NEW l,
           Position(p, o, ss, t, y, l),
           \/ p[q].tag = "throw"
           \/ p[q].tag = "element" /\ ~(p[q].arg < Len(l))
    PROVE  Finish(p, q, o, ss, t, y, l) = <<>>
<1> DEFINE c == Run(p)[Len(p) - q]
           e == Here(o, ss, t, y, l)
           f == [e EXCEPT !.threw = TRUE]
<1>1. /\ e \in Env /\ e.own = o /\ ~e.threw /\ e.list = l /\ p \in Programs
      /\ l \in Seq(Values) /\ ss \in Seq(Scope) /\ AllFit(p, l, ss, Len(o))
  BY HereFields DEF Position
<1>2. Run(p)[Len(p) - q + 1][e] = Execute(p[q], c, e)
  BY <1>1, RunHere
<1> HIDE DEF c, e
<1>3. Execute(p[q], c, e) = f
  <2>1. CASE p[q].tag = "throw"
    BY <2>1 DEF Execute
  <2>2. CASE p[q].tag = "element" /\ ~(p[q].arg < Len(l))
    BY <1>1, <2>2, ExecuteElement, ZenonT(30)
  <2> QED
    BY <2>1, <2>2
<1>4. f \in Env /\ f.own = o /\ f.threw
  BY <1>1, EnvFields DEF Env
<1> HIDE DEF f
<1>5. Output(Result(p, l, ss, f)) = <<>>
  BY <1>1, <1>4, ResultThrew
<1> QED
  BY <1>2, <1>3, <1>5 DEF Finish, e

\* A child at its end that is inside no tag.
LEMMA FinishReturn ==
    ASSUME NEW p, NEW o, NEW t, NEW y, NEW l, Position(p, o, <<>>, t, y, l)
    PROVE  Finish(p, Len(p) + 1, o, <<>>, t, y, l) = t
<1> DEFINE e == Here(o, <<>>, t, y, l)
<1>1. e \in Env /\ e.out = t /\ ~e.threw
  <2> DEFINE ss == <<>>
  <2>1. Position(p, o, ss, t, y, l)
    OBVIOUS
  <2> HIDE DEF ss
  <2>2. /\ Here(o, ss, t, y, l) \in Env /\ Here(o, ss, t, y, l).out = t
        /\ ~Here(o, ss, t, y, l).threw
    BY <2>1, HereFields
  <2> QED
    BY <2>2 DEF ss
<1>0. p \in Programs
  BY DEF Position
<1> HIDE DEF e
<1>2. Run(p)[Len(p) - (Len(p) + 1) + 1][e] = e
  BY <1>0, <1>1, RunEnd
<1>3. Result(p, l, <<>>, e) = e
  BY <1>1, ResultOutside
<1>4. Output(e) = t
  BY <1>1 DEF Output
<1> QED
  BY <1>2, <1>3, <1>4 DEF Finish, e

--------------------------------------------------------------------------------
(* What a child computes *)

\* What child i gives when it goes on from where it is, and when it runs alone.
Rest(i) == Finish(prog[i], pc[i], own[i], scopes[i], text[i], XOf(i), ListOf(i).elems)
Promised(i) == Output(Alone(prog[i], Given, Start))
Owed(i) == IF state[i] = "ended" THEN text[i] = Promised(i) ELSE Rest(i) = Promised(i)
Computes == AllTame => \A i \in Children : Owed(i)

\* A child of a tag that does not interfere is at a position of its spine.
LEMMA ChildPosition ==
    ASSUME TypeOK, Places, Sound, AllTame, NEW i \in Children
    PROVE  Position(prog[i], own[i], scopes[i], text[i], XOf(i), ListOf(i).elems)
<1> DEFINE p == prog[i]
           ss == scopes[i]
           n == Len(own[i])
           l == ListOf(i).elems
<1>1. /\ p \in Programs /\ own[i] \in Seq(Values) /\ ss \in Seq(Scope)
      /\ text[i] \in Seq(Values) /\ x \in Values /\ list.elems \in Seq(Values)
  BY DEF TypeOK
<1>2. XOf(i) \in Values /\ l \in Seq(Values)
  BY <1>1, AsyncAssumption DEF XOf, ListOf
<1>3. Placed(p, pc[i], n, ss) /\ Iterates(ss, list)
  BY DEF Places, Sound
<1>4. \A k \in 1..Len(ss) : ss[k] \in Scope
  BY <1>1, Scopes
<1>5. ASSUME NEW k \in 1..Len(ss) PROVE Fits(p, l, ss[k], n)
  <2>1. ss[k].pc \in 1..Len(p) /\ ss[k].vars <= n
    BY <1>3 DEF Placed, Within
  <2>2. ASSUME ss[k].loop PROVE ss[k].pos <= Len(l)
    <3>1. p[ss[k].pc].tag = "elements"
      BY <1>3, <2>2 DEF Placed, Entered
    <3>2. \E u \in Touches(p) : u.on = "list"
      <4> DEFINE u == [on |-> "list", write |-> p[ss[k].pc].tag \in {"add", "remove"}]
      <4>1. u \in Touches(p)
        BY <2>1, <3>1, TouchesList
      <4>2. u.on = "list"
        OBVIOUS
      <4> QED
        BY <4>1, <4>2
    <3>3. l = list.elems
      BY <3>2 DEF ListOf, Reaches
    <3> QED
      BY <1>3, <2>2, <3>3 DEF Iterates
  <2> QED
    BY <1>4, <2>1, <2>2 DEF Fits
<1>6. \A j, k \in 1..Len(ss) : j <= k => ss[j].vars <= ss[k].vars
  BY <1>3 DEF Placed, Nested
<1>7. AllFit(p, l, ss, n)
  BY <1>5, <1>6 DEF AllFit
<1> QED
  BY <1>1, <1>2, <1>7 DEF Position

\* Child i takes a step and still owes what it owed.
StillOwes(i) == state'[i] # "ended" /\ Rest(i)' = Rest(i)

\* The state of child i where it has gone.
LEMMA RestNext ==
    ASSUME TypeOK, NEW i \in Children, prog' = prog, NEW q, Goes(i, q)
    PROVE  /\ pc'[i] = q
           /\ Rest(i)' = Finish(prog[i], q, own'[i], scopes'[i], text'[i], XOf(i)',
                                ListOf(i)'.elems)
<1>1. pc'[i] = q
  BY DEF Goes, TypeOK
<1> QED
  BY <1>1 DEF Rest

\* A child at a tag runs, and is inside its spine.
LEMMA AtTag ==
    ASSUME TypeOK, NEW i \in Children, NEW t, At(i, t)
    PROVE  /\ pc[i] \in 1..Len(prog[i]) /\ prog[i][pc[i]].tag = t /\ Tag(i) = prog[i][pc[i]]
           /\ state[i] = "running"
<1>1. Len(prog[i]) \in Nat /\ pc[i] \in Nat \ {0}
  BY Spines
<1> QED
  BY <1>1 DEF At, Runs, Tag

\* Each step of a child leaves what it gives in the end as it was.
LEMMA GetOwes ==
    ASSUME TypeOK, Places, Sound, AllTame, NEW i \in Children, GetValue(i)
    PROVE  StillOwes(i)
<1> DEFINE p == prog[i]
           q == pc[i]
           o == own[i]
           ss == scopes[i]
           t == text[i]
           y == XOf(i)
           l == ListOf(i).elems
<1>1. /\ Ready(i, "get") /\ Goes(i, q + 1) /\ UNCHANGED <<state, own, scopes, x, list>>
      /\ text' = [text EXCEPT ![i] = Append(@, IF o = <<>> THEN x ELSE o[Len(o)])]
  BY DEF GetValue, shared
<1>2. prog' = prog
  BY <1>1 DEF Goes
<1>3. At(i, "get") /\ q \in 1..Len(p) /\ p[q].tag = "get" /\ state[i] = "running"
  BY <1>1, AtTag DEF Ready
<1>4. o = <<>> => y = x
  BY <1>3, SeesVariable
<1>5. text'[i] = Append(t, IF o = <<>> THEN y ELSE o[Len(o)])
  BY <1>1, <1>4 DEF TypeOK
<1>6. XOf(i)' = y /\ ListOf(i)' = ListOf(i)
  BY <1>1, <1>2, SameShared
<1>7. Rest(i)' = Finish(p, q + 1, o, ss, text'[i], y, l)
  BY <1>1, <1>2, <1>6, RestNext
<1>8. Position(p, o, ss, t, y, l)
  BY ChildPosition
<1>9. Rest(i) = Finish(p, q, o, ss, t, y, l)
  BY DEF Rest
<1> HIDE DEF p, q, o, ss, t, y, l
<1>10. Finish(p, q, o, ss, t, y, l) =
         Finish(p, q + 1, o, ss, Append(t, IF o = <<>> THEN y ELSE o[Len(o)]), y, l)
  BY <1>3, <1>8, FinishGet
<1>11. state'[i] # "ended"
  BY <1>1, <1>3
<1> QED
  BY <1>5, <1>7, <1>9, <1>10, <1>11 DEF StillOwes

LEMMA SetOwes ==
    ASSUME TypeOK, Places, Sound, AllTame, NEW i \in Children, SetValue(i)
    PROVE  StillOwes(i)
<1> DEFINE p == prog[i]
           q == pc[i]
           o == own[i]
           ss == scopes[i]
           t == text[i]
           y == XOf(i)
           l == ListOf(i).elems
<1>1. /\ Ready(i, "set") /\ Goes(i, q + 1) /\ UNCHANGED <<state, scopes, text, list>>
      /\ IF o = <<>> THEN x' = Tag(i).arg /\ own' = own
         ELSE own' = [own EXCEPT ![i][Len(own[i])] = Tag(i).arg] /\ x' = x
  BY DEF SetValue
<1>2. prog' = prog
  BY <1>1 DEF Goes
<1>3. /\ At(i, "set") /\ q \in 1..Len(p) /\ p[q].tag = "set" /\ state[i] = "running"
      /\ Tag(i) = p[q]
  BY <1>1, AtTag DEF Ready
<1>4. ListOf(i)' = ListOf(i)
  BY <1>1, <1>2, SameShared
<1>5. state'[i] # "ended"
  BY <1>1, <1>3
<1>8. Position(p, o, ss, t, y, l)
  BY ChildPosition
<1>9. Rest(i) = Finish(p, q, o, ss, t, y, l)
  BY DEF Rest
<1>10. Rest(i)' = Finish(p, q + 1, own'[i], ss, t, XOf(i)', l)
  BY <1>1, <1>2, <1>4, RestNext
<1>11. CASE o = <<>>
  <2>1. own'[i] = o /\ XOf(i)' = p[q].arg
    BY <1>1, <1>2, <1>3, <1>11, SeesVariable
  <2> HIDE DEF p, q, o, ss, t, y, l
  <2>2. Finish(p, q, o, ss, t, y, l) = Finish(p, q + 1, o, ss, t, p[q].arg, l)
    BY <1>3, <1>8, <1>11, FinishSet
  <2> QED
    BY <1>5, <1>9, <1>10, <2>1, <2>2 DEF StillOwes
<1>12. CASE o # <<>>
  <2>1. own'[i] = [o EXCEPT ![Len(o)] = p[q].arg] /\ XOf(i)' = y
    <3>1. own' = [own EXCEPT ![i] = [own[i] EXCEPT ![Len(own[i])] = p[q].arg]] /\ x' = x
      BY <1>1, <1>3, <1>12
    <3>2. own \in [Children -> Seq(Values)]
      BY DEF TypeOK
    <3> QED
      BY <1>2, <3>1, <3>2, SameShared
  <2> HIDE DEF p, q, o, ss, t, y, l
  <2>2. Finish(p, q, o, ss, t, y, l) =
          Finish(p, q + 1, [o EXCEPT ![Len(o)] = p[q].arg], ss, t, y, l)
    BY <1>3, <1>8, <1>12, FinishSetOwn
  <2> QED
    BY <1>5, <1>9, <1>10, <2>1, <2>2 DEF StillOwes
<1> QED
  BY <1>11, <1>12

LEMMA VarOwes ==
    ASSUME TypeOK, Places, Sound, AllTame, NEW i \in Children, Var(i)
    PROVE  StillOwes(i)
<1> DEFINE p == prog[i]
           q == pc[i]
           o == own[i]
           ss == scopes[i]
           t == text[i]
           y == XOf(i)
           l == ListOf(i).elems
<1>1. /\ Ready(i, "var") /\ Goes(i, q + 1) /\ UNCHANGED <<state, scopes, text, x, list>>
      /\ own' = [own EXCEPT ![i] = Append(@, Tag(i).arg)]
  BY DEF Var, shared
<1>2. prog' = prog
  BY <1>1 DEF Goes
<1>3. /\ q \in 1..Len(p) /\ p[q].tag = "var" /\ state[i] = "running" /\ Tag(i) = p[q]
  BY <1>1, AtTag DEF Ready
<1>4. ListOf(i)' = ListOf(i) /\ XOf(i)' = y
  BY <1>1, <1>2, SameShared
<1>5. state'[i] # "ended"
  BY <1>1, <1>3
<1>6. own'[i] = Append(o, p[q].arg)
  BY <1>1, <1>3 DEF TypeOK
<1>8. Position(p, o, ss, t, y, l)
  BY ChildPosition
<1>9. Rest(i) = Finish(p, q, o, ss, t, y, l)
  BY DEF Rest
<1>10. Rest(i)' = Finish(p, q + 1, own'[i], ss, t, y, l)
  BY <1>1, <1>2, <1>4, RestNext
<1> HIDE DEF p, q, o, ss, t, y, l
<1>11. Finish(p, q, o, ss, t, y, l) = Finish(p, q + 1, Append(o, p[q].arg), ss, t, y, l)
  BY <1>3, <1>8, FinishVar
<1> QED
  BY <1>5, <1>6, <1>9, <1>10, <1>11 DEF StillOwes

LEMMA ValueOwes ==
    ASSUME TypeOK, Places, Sound, AllTame, NEW i \in Children, Value(i)
    PROVE  StillOwes(i)
<1> DEFINE p == prog[i]
           q == pc[i]
           o == own[i]
           ss == scopes[i]
           t == text[i]
           y == XOf(i)
           l == ListOf(i).elems
<1>1. /\ Ready(i, "value") /\ Goes(i, q + 1) /\ UNCHANGED <<state, own, scopes, x, list>>
      /\ text' = IF ss = <<>> THEN text
                 ELSE [text EXCEPT ![i] = Append(@, ss[Len(ss)].value)]
  BY DEF Value, shared, Inner
<1>2. prog' = prog
  BY <1>1 DEF Goes
<1>3. /\ q \in 1..Len(p) /\ p[q].tag = "value" /\ state[i] = "running"
  BY <1>1, AtTag DEF Ready
<1>4. ListOf(i)' = ListOf(i) /\ XOf(i)' = y
  BY <1>1, <1>2, SameShared
<1>5. state'[i] # "ended"
  BY <1>1, <1>3
<1>6. text'[i] = IF ss = <<>> THEN t ELSE Append(t, ss[Len(ss)].value)
  BY <1>1 DEF TypeOK
<1>8. Position(p, o, ss, t, y, l)
  BY ChildPosition
<1>9. Rest(i) = Finish(p, q, o, ss, t, y, l)
  BY DEF Rest
<1>10. Rest(i)' = Finish(p, q + 1, o, ss, text'[i], y, l)
  BY <1>1, <1>2, <1>4, RestNext
<1> HIDE DEF p, q, o, ss, t, y, l
<1>11. Finish(p, q, o, ss, t, y, l) =
         IF ss = <<>> THEN Finish(p, q + 1, o, ss, t, y, l)
         ELSE Finish(p, q + 1, o, ss, Append(t, ss[Len(ss)].value), y, l)
  BY <1>3, <1>8, FinishValue
<1> QED
  BY <1>5, <1>6, <1>9, <1>10, <1>11 DEF StillOwes

LEMMA AddOwes ==
    ASSUME TypeOK, Places, Sound, AllTame, NEW i \in Children, ListAdd(i)
    PROVE  StillOwes(i)
<1> DEFINE p == prog[i]
           q == pc[i]
           o == own[i]
           ss == scopes[i]
           t == text[i]
           y == XOf(i)
           l == ListOf(i).elems
<1>1. /\ Ready(i, "add") /\ Goes(i, q + 1) /\ UNCHANGED <<state, own, scopes, text, x>>
      /\ list'.elems = Append(list.elems, Tag(i).arg)
  BY DEF ListAdd
<1>2. prog' = prog
  BY <1>1 DEF Goes
<1>3. /\ At(i, "add") /\ q \in 1..Len(p) /\ p[q].tag = "add" /\ state[i] = "running"
      /\ Tag(i) = p[q]
  BY <1>1, AtTag DEF Ready
<1>4. ListOf(i)' = list' /\ ListOf(i) = list /\ XOf(i)' = y
  BY <1>1, <1>2, <1>3, SameShared, SeesList
<1>5. state'[i] # "ended"
  BY <1>1, <1>3
<1>6. ListOf(i)'.elems = Append(l, p[q].arg)
  BY <1>1, <1>3, <1>4
<1>7. \A k \in 1..Len(ss) : ~ss[k].loop
  BY <1>3, NoLoops
<1>8. Position(p, o, ss, t, y, l)
  BY ChildPosition
<1>9. Rest(i) = Finish(p, q, o, ss, t, y, l)
  BY DEF Rest
<1>10. Rest(i)' = Finish(p, q + 1, o, ss, t, y, ListOf(i)'.elems)
  BY <1>1, <1>2, <1>4, RestNext
<1> HIDE DEF p, q, o, ss, t, y, l
<1>11. Finish(p, q, o, ss, t, y, l) = Finish(p, q + 1, o, ss, t, y, Append(l, p[q].arg))
  BY <1>3, <1>7, <1>8, FinishAdd
<1> QED
  BY <1>5, <1>6, <1>9, <1>10, <1>11 DEF StillOwes

LEMMA RemoveOwes ==
    ASSUME TypeOK, Places, Sound, AllTame, NEW i \in Children, ListRemove(i), ~undefined'
    PROVE  StillOwes(i)
<1> DEFINE p == prog[i]
           q == pc[i]
           o == own[i]
           ss == scopes[i]
           t == text[i]
           y == XOf(i)
           l == ListOf(i).elems
<1>1. /\ Ready(i, "remove") /\ Goes(i, q + 1) /\ UNCHANGED <<state, own, scopes, text, x>>
      /\ Tag(i).arg < Len(list.elems)
      /\ list' = [list EXCEPT !.elems = SubSeq(@, 1, Tag(i).arg)
                                          \o SubSeq(@, Tag(i).arg + 2, Len(@))]
  BY DEF ListRemove, Breaks
<1>2. prog' = prog
  BY <1>1 DEF Goes
<1>3. /\ At(i, "remove") /\ q \in 1..Len(p) /\ p[q].tag = "remove" /\ state[i] = "running"
      /\ Tag(i) = p[q]
  BY <1>1, AtTag DEF Ready
<1>4. ListOf(i)' = list' /\ ListOf(i) = list /\ XOf(i)' = y
  BY <1>1, <1>2, <1>3, SameShared, SeesList
<1>5. state'[i] # "ended"
  BY <1>1, <1>3
<1>6. /\ ListOf(i)'.elems = SubSeq(l, 1, p[q].arg) \o SubSeq(l, p[q].arg + 2, Len(l))
      /\ p[q].arg < Len(l)
  BY <1>1, <1>3, <1>4 DEF TypeOK
<1>7. \A k \in 1..Len(ss) : ~ss[k].loop
  BY <1>3, NoLoops
<1>8. Position(p, o, ss, t, y, l)
  BY ChildPosition
<1>9. Rest(i) = Finish(p, q, o, ss, t, y, l)
  BY DEF Rest
<1>10. Rest(i)' = Finish(p, q + 1, o, ss, t, y, ListOf(i)'.elems)
  BY <1>1, <1>2, <1>4, RestNext
<1> HIDE DEF p, q, o, ss, t, y, l
<1>11. Finish(p, q, o, ss, t, y, l) =
         Finish(p, q + 1, o, ss, t, y,
                SubSeq(l, 1, p[q].arg) \o SubSeq(l, p[q].arg + 2, Len(l)))
  BY <1>3, <1>6, <1>7, <1>8, FinishRemove
<1> QED
  BY <1>5, <1>6, <1>9, <1>10, <1>11 DEF StillOwes

\* Child i ends, and gives what it owed.
Delivers(i) == state'[i] = "ended" /\ text'[i] = Rest(i)

\* A dbp:list_element(s) begins.
LEMMA EntersScope ==
    ASSUME TypeOK, NEW i \in Children, NEW loop \in BOOLEAN, NEW r \in 1..Len(list.elems),
           Enters(i, loop, r), NEW s,
           s = [pc |-> pc[i], loop |-> loop, pos |-> r, gen |-> list.gen,
                value |-> list.elems[r], vars |-> Len(own[i])]
    PROVE  s \in Scope /\ scopes'[i] = Append(scopes[i], s)
<1>1. pc[i] \in Nat /\ list.gen \in Nat /\ own[i] \in Seq(Values) /\ list.elems \in Seq(Values)
  BY DEF TypeOK
<1>2. Len(own[i]) \in Nat /\ list.elems[r] \in Values /\ r \in Nat
  BY <1>1, LenProperties, ElementOfSeq
<1>3. s \in Scope
  BY <1>1, <1>2 DEF Scope
<1>4. scopes' = [scopes EXCEPT ![i] = Append(scopes[i], s)]
  BY DEF Enters
<1> QED
  BY <1>3, <1>4 DEF TypeOK

\* dbp:list_element: the content, or the end of the child.
LEMMA ElementOwes ==
    ASSUME TypeOK, Places, Sound, AllTame, NEW i \in Children, ListElement(i)
    PROVE  StillOwes(i) \/ Delivers(i)
<1> DEFINE p == prog[i]
           q == pc[i]
           o == own[i]
           ss == scopes[i]
           t == text[i]
           y == XOf(i)
           l == ListOf(i).elems
           n == Tag(i).arg
<1>1. /\ Ready(i, "element")
      /\ \/ n < Len(list.elems) /\ Enters(i, FALSE, n + 1)
         \/ n >= Len(list.elems) /\ Swallowed(i)
  BY DEF ListElement
<1>2. prog' = prog /\ UNCHANGED <<x, list>>
  BY <1>1 DEF Enters, Swallowed, Goes, shared
<1>3. /\ At(i, "element") /\ q \in 1..Len(p) /\ p[q].tag = "element" /\ state[i] = "running"
      /\ Tag(i) = p[q]
  BY <1>1, AtTag DEF Ready
<1>4. ListOf(i)' = ListOf(i) /\ ListOf(i) = list /\ XOf(i)' = y
  BY <1>2, <1>3, SameShared, SeesList
<1>5. n \in Nat /\ Len(list.elems) \in Nat /\ n = p[q].arg
  BY <1>3, Spines, LenProperties DEF TypeOK
<1>8. Position(p, o, ss, t, y, l)
  BY ChildPosition
<1>9. Rest(i) = Finish(p, q, o, ss, t, y, l)
  BY DEF Rest
<1>10. CASE n < Len(list.elems) /\ Enters(i, FALSE, n + 1)
  <2> DEFINE s == [pc |-> pc[i], loop |-> FALSE, pos |-> n + 1, gen |-> list.gen,
                   value |-> list.elems[n + 1], vars |-> Len(own[i])]
  <2>1. n + 1 \in 1..Len(list.elems)
    BY <1>5, <1>10
  <2>2. ~s.loop /\ s.value = l[p[q].arg + 1] /\ s.vars = Len(o)
    BY <1>4, <1>5
  <2>3. s \in Scope /\ scopes'[i] = Append(ss, s)
    <3>1. s = [pc |-> pc[i], loop |-> FALSE, pos |-> n + 1, gen |-> list.gen,
               value |-> list.elems[n + 1], vars |-> Len(own[i])]
      OBVIOUS
    <3> HIDE DEF s, n
    <3> QED
      BY <1>10, <2>1, <3>1, EntersScope
  <2>4. Goes(i, q + 1) /\ UNCHANGED <<state, own, text>>
    BY <1>10 DEF Enters
  <2>5. Rest(i)' = Finish(p, q + 1, o, scopes'[i], t, y, l)
    BY <1>2, <1>4, <2>4, RestNext
  <2>6. state'[i] # "ended" /\ p[q].arg < Len(l)
    BY <1>3, <1>4, <1>5, <1>10, <2>4
  <2> HIDE DEF p, q, o, ss, t, y, l, s
  <2>7. Finish(p, q, o, ss, t, y, l) = Finish(p, q + 1, o, Append(ss, s), t, y, l)
    BY <1>3, <1>8, <2>2, <2>3, <2>6, FinishElement
  <2> QED
    BY <1>9, <2>3, <2>5, <2>6, <2>7 DEF StillOwes
<1>11. CASE n >= Len(list.elems) /\ Swallowed(i)
  <2>1. state'[i] = "ended" /\ text'[i] = <<>>
    BY <1>11 DEF Swallowed, TypeOK
  <2>2. ~(p[q].arg < Len(l))
    BY <1>4, <1>5, <1>11
  <2> HIDE DEF p, q, o, ss, t, y, l
  <2>3. Finish(p, q, o, ss, t, y, l) = <<>>
    BY <1>3, <1>8, <2>2, FinishThrow
  <2> QED
    BY <1>9, <2>1, <2>3 DEF Delivers
<1> QED
  BY <1>1, <1>10, <1>11

\* An exception and the end of the spine: the child delivers.
LEMMA ThrowOwes ==
    ASSUME TypeOK, Places, Sound, AllTame, NEW i \in Children, Throw(i)
    PROVE  Delivers(i)
<1> DEFINE p == prog[i]
           q == pc[i]
           o == own[i]
           ss == scopes[i]
           t == text[i]
           y == XOf(i)
           l == ListOf(i).elems
<1>1. Ready(i, "throw") /\ Swallowed(i)
  BY DEF Throw
<1>2. /\ q \in 1..Len(p) /\ p[q].tag = "throw"
  BY <1>1, AtTag DEF Ready
<1>3. state'[i] = "ended" /\ text'[i] = <<>>
  BY <1>1 DEF Swallowed, TypeOK
<1>8. Position(p, o, ss, t, y, l)
  BY ChildPosition
<1>9. Rest(i) = Finish(p, q, o, ss, t, y, l)
  BY DEF Rest
<1> HIDE DEF p, q, o, ss, t, y, l
<1>10. Finish(p, q, o, ss, t, y, l) = <<>>
  BY <1>2, <1>8, FinishThrow
<1> QED
  BY <1>3, <1>9, <1>10 DEF Delivers

LEMMA ReturnOwes ==
    ASSUME TypeOK, Places, Sound, AllTame, NEW i \in Children, Return(i)
    PROVE  Delivers(i)
<1> DEFINE p == prog[i]
           o == own[i]
           t == text[i]
           y == XOf(i)
           l == ListOf(i).elems
<1>1. pc[i] = Len(p) + 1 /\ scopes[i] = <<>>
  BY DEF Return, AtEnd
<1>2. state'[i] = "ended" /\ text'[i] = t
  BY DEF Return, TypeOK
<1>3. Position(p, o, <<>>, t, y, l)
  BY <1>1, ChildPosition
<1>4. Rest(i) = Finish(p, Len(p) + 1, o, <<>>, t, y, l)
  BY <1>1 DEF Rest
<1> HIDE DEF p, o, t, y, l
<1>5. Finish(p, Len(p) + 1, o, <<>>, t, y, l) = t
  BY <1>3, FinishReturn
<1> QED
  BY <1>2, <1>4, <1>5 DEF Delivers

\* dbp:list_elements: the first element, or the end of the content.
LEMMA ElementsOwes ==
    ASSUME TypeOK, Places, Sound, AllTame, NEW i \in Children, ListElements(i)
    PROVE  StillOwes(i)
<1> DEFINE p == prog[i]
           q == pc[i]
           o == own[i]
           ss == scopes[i]
           t == text[i]
           y == XOf(i)
           l == ListOf(i).elems
<1>1. /\ Ready(i, "elements")
      /\ \/ list.elems # <<>> /\ Enters(i, TRUE, 1)
         \/ /\ list.elems = <<>> /\ Goes(i, Len(p) + 1)
            /\ UNCHANGED <<state, own, scopes, text, shared>>
  BY DEF ListElements
<1>2. prog' = prog /\ UNCHANGED <<state, own, text, x, list>>
  BY <1>1 DEF Enters, Goes, shared
<1>3. /\ At(i, "elements") /\ q \in 1..Len(p) /\ p[q].tag = "elements"
      /\ state[i] = "running"
  BY <1>1, AtTag DEF Ready
<1>4. ListOf(i)' = ListOf(i) /\ ListOf(i) = list /\ XOf(i)' = y
  BY <1>2, <1>3, SameShared, SeesList
<1>5. state'[i] # "ended" /\ list.elems \in Seq(Values)
  BY <1>2, <1>3 DEF TypeOK
<1>8. Position(p, o, ss, t, y, l)
  BY ChildPosition
<1>9. Rest(i) = Finish(p, q, o, ss, t, y, l)
  BY DEF Rest
<1>10. CASE list.elems # <<>> /\ Enters(i, TRUE, 1)
  <2> DEFINE r == 1
             s == [pc |-> pc[i], loop |-> TRUE, pos |-> r, gen |-> list.gen,
                   value |-> list.elems[r], vars |-> Len(own[i])]
  <2>1. r \in 1..Len(list.elems)
    BY <1>5, <1>10, EmptySeq, LenProperties
  <2>2. s.loop /\ s.value = l[1] /\ s.vars = Len(o) /\ s.pc = q /\ s.pos = 1 /\ l # <<>>
    BY <1>4, <1>10
  <2>3. s \in Scope /\ scopes'[i] = Append(ss, s)
    <3>1. s = [pc |-> pc[i], loop |-> TRUE, pos |-> r, gen |-> list.gen,
               value |-> list.elems[r], vars |-> Len(own[i])]
      OBVIOUS
    <3>2. Enters(i, TRUE, r)
      BY <1>10
    <3> HIDE DEF s, r
    <3> QED
      BY <2>1, <3>1, <3>2, EntersScope
  <2>4. Goes(i, q + 1)
    BY <1>10 DEF Enters
  <2>5. Rest(i)' = Finish(p, q + 1, o, scopes'[i], t, y, l)
    BY <1>2, <1>4, <2>4, RestNext
  <2> HIDE DEF p, q, o, ss, t, y, l, s
  <2>6. Finish(p, q, o, ss, t, y, l) = Finish(p, q + 1, o, Append(ss, s), t, y, l)
    BY <1>3, <1>8, <2>2, <2>3, FinishElements
  <2> QED
    BY <1>5, <1>9, <2>3, <2>5, <2>6 DEF StillOwes
<1>11. CASE /\ list.elems = <<>> /\ Goes(i, Len(p) + 1)
            /\ UNCHANGED <<state, own, scopes, text, shared>>
  <2>1. Rest(i)' = Finish(p, Len(p) + 1, o, ss, t, y, l)
    BY <1>2, <1>4, <1>11, RestNext
  <2>2. l = <<>>
    BY <1>4, <1>11
  <2> HIDE DEF p, q, o, ss, t, y, l
  <2>3. Finish(p, q, o, ss, t, y, l) = Finish(p, Len(p) + 1, o, ss, t, y, l)
    BY <1>3, <1>8, <2>2, FinishElementsNone
  <2> QED
    BY <1>5, <1>9, <2>1, <2>3 DEF StillOwes
<1> QED
  BY <1>1, <1>10, <1>11

\* The innermost of the tags around child i, and those around it.
LEMMA InnerOuter ==
    ASSUME TypeOK, Places, NEW i \in Children, scopes[i] # <<>>
    PROVE  /\ scopes[i] = Append(Outer(i), Inner(i))
           /\ Outer(i) \in Seq(Scope) /\ Inner(i) \in Scope
           /\ Inner(i).pc \in 1..Len(prog[i]) /\ Inner(i).vars <= Len(own[i])
           /\ Outer(i) # <<>> => Outer(i)[Len(Outer(i))].vars <= Inner(i).vars
<1> DEFINE ss == scopes[i]
           cut == Outer(i)
           s == Inner(i)
           n == Len(ss)
<1>1. ss \in Seq(Scope)
  BY DEF TypeOK
<1>2. /\ n \in Nat \ {0} /\ n \in 1..n /\ cut \in Seq(Scope) /\ Len(cut) = n - 1
      /\ \A k \in 1..Len(cut) : k \in 1..n /\ k # n /\ cut[k] = ss[k]
  BY <1>1, Cut DEF Outer
<1>3. s = ss[n] /\ s \in Scope
  BY <1>1, <1>2, ElementOfSeq DEF Inner
<1>4. Placed(prog[i], pc[i], Len(own[i]), ss)
  BY DEF Places
<1> HIDE DEF cut, s, n, ss
<1>5. s.pc \in 1..Len(prog[i]) /\ s.vars <= Len(own[i])
  BY <1>2, <1>3, <1>4 DEF Placed, Within, n
<1>6. cut # <<>> => cut[Len(cut)].vars <= s.vars
  <2> SUFFICES ASSUME cut # <<>> PROVE cut[Len(cut)].vars <= s.vars
    OBVIOUS
  <2>1. Len(cut) \in 1..Len(cut)
    BY <1>2, LenProperties, EmptySeq
  <2>2. Len(cut) \in 1..n /\ cut[Len(cut)] = ss[Len(cut)] /\ Len(cut) <= n
    BY <1>2, <2>1
  <2>3. \A j, k \in 1..n : j <= k => ss[j].vars <= ss[k].vars
    BY <1>4 DEF Placed, Nested, n
  <2> QED
    BY <1>2, <1>3, <2>2, <2>3
<1>7. ss = Append(cut, s)
  <2> DEFINE tt == Append(cut, s)
  <2>1. /\ tt \in Seq(Scope) /\ Len(tt) = Len(cut) + 1 /\ tt[Len(cut) + 1] = s
        /\ \A k \in 1..Len(cut) : tt[k] = cut[k]
    BY <1>2, <1>3, AppendProperties, LenProperties
  <2> HIDE DEF tt
  <2>2. Len(tt) = n
    BY <1>2, <2>1
  <2>3. ASSUME NEW k \in 1..n PROVE tt[k] = ss[k]
    <3>1. CASE k = n
      BY <1>2, <1>3, <2>1, <3>1
    <3>2. CASE k # n
      <4>1. k \in 1..Len(cut)
        BY <1>2, <3>2
      <4> QED
        BY <1>2, <2>1, <4>1
    <3> QED
      BY <3>1, <3>2
  <2>4. Len(ss) = Len(tt) /\ \A k \in 1..Len(ss) : ss[k] = tt[k]
    BY <2>2, <2>3 DEF n
  <2>5. ss = tt
    BY <1>1, <2>1, <2>4, SeqEqual
  <2> QED
    BY <2>5 DEF tt
<1> QED
  BY <1>2, <1>3, <1>5, <1>6, <1>7 DEF cut, s, ss

\* The end of the content of dbp:list_element and dbp:list_elements.
LEMMA LeaveElementOwes ==
    ASSUME TypeOK, Places, Sound, AllTame, NEW i \in Children, LeaveElement(i)
    PROVE  StillOwes(i)
<1> DEFINE p == prog[i]
           o == own[i]
           cut == Outer(i)
           s == Inner(i)
           t == text[i]
           y == XOf(i)
           l == ListOf(i).elems
<1>1. /\ state[i] = "running" /\ pc[i] = Len(p) + 1 /\ scopes[i] # <<>> /\ ~s.loop
      /\ Goes(i, Len(p) + 1) /\ UNCHANGED <<state, own, text, x, list>>
      /\ scopes' = [scopes EXCEPT ![i] = cut]
  BY DEF LeaveElement, AtEnd, Runs, shared
<1>2. prog' = prog
  BY <1>1 DEF Goes
<1>3. scopes'[i] = cut /\ state'[i] # "ended"
  BY <1>1 DEF TypeOK
<1>4. ListOf(i)' = ListOf(i) /\ XOf(i)' = y
  BY <1>1, <1>2, SameShared
<1>5. /\ scopes[i] = Append(cut, s) /\ cut \in Seq(Scope) /\ s \in Scope
      /\ s.vars <= Len(o) /\ (cut # <<>> => cut[Len(cut)].vars <= s.vars)
  BY <1>1, InnerOuter
<1>6. Position(p, o, scopes[i], t, y, l)
  BY ChildPosition
<1>7. Rest(i) = Finish(p, Len(p) + 1, o, scopes[i], t, y, l)
  BY <1>1 DEF Rest
<1>8. Rest(i)' = Finish(p, Len(p) + 1, o, cut, t, y, l)
  BY <1>1, <1>2, <1>3, <1>4, RestNext
<1> HIDE DEF p, o, cut, s, t, y, l
<1>9. Position(p, o, Append(cut, s), t, y, l)
  BY <1>5, <1>6
<1>10. Finish(p, Len(p) + 1, o, Append(cut, s), t, y, l)
         = Finish(p, Len(p) + 1, o, cut, t, y, l)
  BY <1>1, <1>5, <1>9, FinishLeave
<1> QED
  BY <1>3, <1>5, <1>7, <1>8, <1>10 DEF StillOwes

LEMMA NextElementOwes ==
    ASSUME TypeOK, Places, Sound, AllTame, NEW i \in Children, NextElement(i), ~undefined'
    PROVE  StillOwes(i)
<1> DEFINE p == prog[i]
           o == own[i]
           cut == Outer(i)
           s == Inner(i)
           t == text[i]
           y == XOf(i)
           l == ListOf(i).elems
           last == /\ s.pos + 1 = Len(list.elems) + 1
                   /\ scopes' = [scopes EXCEPT ![i] = cut]
                   /\ Goes(i, pc[i]) /\ UNCHANGED <<state, own, text, shared>>
           r == [s EXCEPT !.pos = s.pos + 1, !.value = list.elems[s.pos + 1]]
           more == /\ s.pos + 1 <= Len(list.elems)
                   /\ scopes' = [scopes EXCEPT ![i] = Append(cut, r)]
                   /\ own' = [own EXCEPT ![i] = SubSeq(@, 1, s.vars)]
                   /\ Goes(i, s.pc + 1) /\ UNCHANGED <<state, text, shared>>
<1>1. Loops(i) /\ (last \/ more)
  BY DEF NextElement, Breaks
<1>2. /\ state[i] = "running" /\ pc[i] = Len(p) + 1 /\ scopes[i] # <<>> /\ s.loop
  BY <1>1 DEF Loops, AtEnd, Runs
<1>3. prog' = prog /\ UNCHANGED <<state, text, x, list>>
  BY <1>1 DEF Goes, shared
<1>4. ListOf(i)' = ListOf(i) /\ ListOf(i) = list /\ XOf(i)' = y
  BY <1>1, <1>3, SameShared, SeesList
<1>5. /\ scopes[i] = Append(cut, s) /\ cut \in Seq(Scope) /\ s \in Scope
      /\ s.vars <= Len(o) /\ (cut # <<>> => cut[Len(cut)].vars <= s.vars)
      /\ s.pc \in 1..Len(p)
  BY <1>2, InnerOuter
<1>6. Position(p, o, scopes[i], t, y, l)
  BY ChildPosition
<1>7. Rest(i) = Finish(p, Len(p) + 1, o, scopes[i], t, y, l)
  BY <1>2 DEF Rest
<1>8. Position(p, o, Append(cut, s), t, y, l)
  BY <1>5, <1>6
<1>9. state'[i] # "ended"
  BY <1>2, <1>3
<1>10. s.pos \in Nat /\ Len(l) \in Nat /\ l = list.elems /\ l \in Seq(Values)
  BY <1>4, <1>5, LenProperties DEF Scope, TypeOK
<1>11. CASE last
  <2>1. scopes'[i] = cut /\ own' = own /\ Goes(i, Len(p) + 1)
    BY <1>2, <1>11 DEF TypeOK
  <2>2. s.pos = Len(l)
    BY <1>10, <1>11
  <2>3. Rest(i)' = Finish(p, Len(p) + 1, o, cut, t, y, l)
    BY <1>3, <1>4, <2>1, RestNext
  <2> HIDE DEF p, o, cut, s, t, y, l
  <2>4. Finish(p, Len(p) + 1, o, Append(cut, s), t, y, l)
         = Finish(p, Len(p) + 1, o, cut, t, y, l)
    BY <1>5, <1>8, <2>2, FinishLeave
  <2> QED
    BY <1>5, <1>7, <1>9, <2>3, <2>4 DEF StillOwes
<1>12. CASE more
  <2>1. /\ scopes'[i] = Append(cut, r) /\ own'[i] = SubSeq(o, 1, s.vars) /\ Goes(i, s.pc + 1)
    BY <1>12 DEF TypeOK
  <2>2. s.pos + 1 \in 1..Len(l) /\ s.pos + 1 <= Len(l)
    BY <1>10, <1>12
  <2>3. list.elems[s.pos + 1] \in Values /\ s.pos + 1 \in Nat
    BY <1>10, <2>2, ElementOfSeq
  <2>4. /\ r \in Scope /\ r.pc = s.pc /\ r.loop /\ r.pos = s.pos + 1 /\ r.value = l[r.pos]
        /\ r.vars = s.vars
    <3> HIDE DEF s
    <3> QED
      BY <1>2, <1>5, <1>10, <2>3 DEF Scope
  <2>5. Rest(i)' = Finish(p, s.pc + 1, SubSeq(o, 1, s.vars), Append(cut, r), t, y, l)
    BY <1>3, <1>4, <2>1, RestNext
  <2> HIDE DEF p, o, cut, s, t, y, l, r
  <2>6. Finish(p, Len(p) + 1, o, Append(cut, s), t, y, l)
         = Finish(p, s.pc + 1, SubSeq(o, 1, s.vars), Append(cut, r), t, y, l)
    BY <1>2, <1>5, <1>8, <2>2, <2>4, FinishAgain, SMTT(30)
  <2> QED
    BY <1>5, <1>7, <1>9, <2>5, <2>6 DEF StillOwes
<1> QED
  BY <1>1, <1>11, <1>12

\* The begin of an access changes nothing.
LEMMA BeginOwes ==
    ASSUME TypeOK, NEW i \in Children, Begin(i), ~undefined'
    PROVE  StillOwes(i)
<1>1. UNCHANGED <<prog, state, pc, own, scopes, text, x, list>> /\ state[i] = "running"
  BY DEF Begin, Breaks, shared, Runs
<1>2. XOf(i)' = XOf(i) /\ ListOf(i)' = ListOf(i)
  BY <1>1, SameShared
<1> QED
  BY <1>1, <1>2 DEF StillOwes, Rest

\* A step of a child keeps what it owes, or delivers it.
LEMMA OwnOwes ==
    ASSUME TypeOK, Places, Sound, AllTame, ~undefined', NEW i \in Children, Child(i)
    PROVE  prog' = prog /\ state[i] = "running" /\ (StillOwes(i) \/ Delivers(i))
<1>1. prog' = prog
  BY Zenon DEF Child, Begin, Breaks, GetValue, SetValue, Var, Throw, Log, ListAdd,
     ListRemove, ListElement, ListElements, NextElement, LeaveElement, Value, Return,
     Swallowed, Enters, Goes
<1>2. Runs(i)
  BY Zenon DEF Child, Begin, GetValue, SetValue, Var, Throw, Log, ListAdd,
     ListRemove, ListElement, ListElements, NextElement, LeaveElement, Value, Return,
     Ready, At, AtEnd, Loops
<1>3. ~Log(i)
  BY DEF Log, Breaks
<1> QED
  BY <1>1, <1>2, <1>3, BeginOwes, GetOwes, SetOwes, VarOwes, ThrowOwes, AddOwes, RemoveOwes,
     ElementOwes, ElementsOwes, NextElementOwes, LeaveElementOwes, ValueOwes, ReturnOwes
     DEF Child, Runs

--------------------------------------------------------------------------------
(* What a spine depends on *)

WritesTo(p, o) == \E u \in Touches(p) : u.on = o /\ u.write

\* The same for spine p: the environments differ in what its text does not name.
Alike(p, d, f) ==
    /\ d.out = f.out /\ d.own = f.own /\ d.elem = f.elem /\ d.threw = f.threw
    /\ Reaches(p, "x") => d.x = f.x
    /\ Reaches(p, "list") => d.list = f.list

\* The shared data that spine p does not write are in g as they were in d.
Kept(p, d, g) ==
    /\ ~WritesTo(p, "x") => g.x = d.x
    /\ ~WritesTo(p, "list") => g.list = d.list

\* Environment d is one for tag q of spine p.
Aligned(p, q, d) == d.own = <<>> => Before(p, q, {"var"}) = {}

\* Content c, which begins with tag q of spine p, depends on and changes what the text
\* of the spine names.
Framed(p, q, c) ==
    \A d, f \in Env : Alike(p, d, f) /\ Aligned(p, q, d)
                        => Alike(p, c[d], c[f]) /\ Kept(p, d, c[d])

\* Two executions one after the other.
LEMMA KeptTwice ==
    ASSUME NEW p, NEW d, NEW g, NEW h, Kept(p, d, g), Kept(p, g, h)
    PROVE  Kept(p, d, h)
BY DEF Kept

\* The next tag of the spine.
LEMMA AlignedNext ==
    ASSUME NEW p, NEW q \in Nat \ {0}, NEW d \in Env, NEW g \in Env, Aligned(p, q, d),
           Len(g.own) = Len(d.own), p[q].tag # "var"
    PROVE  Aligned(p, q + 1, g)
<1>1. Before(p, q + 1, {"var"}) = Before(p, q, {"var"})
  BY BeforeNext
<1>2. d.own \in Seq(Values) /\ g.own \in Seq(Values)
  BY EnvFields
<1>3. g.own = <<>> => d.own = <<>>
  BY <1>2, EmptySeq
<1> QED
  BY <1>1, <1>3 DEF Aligned

\* A loop depends on no more than its content,
LEMMA EachFramed ==
    ASSUME NEW p, NEW q, NEW c \in Contents, Framed(p, q, c), NEW l \in Seq(Values),
           NEW d \in Env, NEW f \in Env, Alike(p, d, f), Aligned(p, q, d), NEW m \in 0..Len(l)
    PROVE  /\ Alike(p, Each(c, l, 0, d)[m], Each(c, l, 0, f)[m])
           /\ Kept(p, d, Each(c, l, 0, d)[m])
<1> DEFINE g == Each(c, l, 0, d)
           h == Each(c, l, 0, f)
           P(j) == Alike(p, g[j], h[j]) /\ Kept(p, d, g[j])
           S == {j \in Nat : j <= Len(l) => P(j)}
<1>1. /\ g[0] = d /\ \A j \in Nat : g[j + 1] = EachStep(c, l, 0, g[j], j + 1)
      /\ h[0] = f /\ \A j \in Nat : h[j + 1] = EachStep(c, l, 0, h[j], j + 1)
  BY EachValues
<1>2. Len(l) \in Nat /\ \A j \in 1..Len(l) : <<l[j]>> \in Seq(Values)
  BY LenProperties, ElementOfSeq
<1>3. ASSUME NEW j \in Nat, j <= Len(l)
      PROVE  /\ g[j] \in Env /\ Len(g[j].own) = Len(d.own)
             /\ h[j] \in Env /\ Len(h[j].own) = Len(f.own)
  <2>1. 0 + j <= Len(l) /\ 0 \in Nat
    BY <1>3
  <2>2. ASSUME NEW e \in Env, NEW a, a = Each(c, l, 0, e)[j]
        PROVE  a \in Env /\ Len(a.own) = Len(e.own)
    BY <2>1, <2>2, EachTypes
  <2> QED
    BY <2>2
<1> HIDE DEF g, h
<1>4. 0 \in S
  BY <1>1 DEF Kept
<1>5. ASSUME NEW j \in Nat, j \in S PROVE j + 1 \in S
  <2> SUFFICES ASSUME j + 1 <= Len(l) PROVE P(j + 1)
    OBVIOUS
  <2> DEFINE v == <<l[0 + (j + 1)]>>
             a == [g[j] EXCEPT !.elem = v]
             b == [h[j] EXCEPT !.elem = v]
  <2>1. j <= Len(l) /\ P(j)
    BY <1>2, <1>5
  <2>2. v \in Seq(Values)
    BY <1>2
  <2>3. g[j + 1] = c[a] /\ h[j + 1] = c[b]
    BY <1>1 DEF EachStep
  <2>4. g[j] \in Env /\ h[j] \in Env /\ Len(g[j].own) = Len(d.own)
    BY <1>3, <2>1
  <2> HIDE DEF v
  <2>5. a \in Env /\ b \in Env
    BY <2>2, <2>4, EnvFields
  <2>6. /\ a.own = g[j].own /\ a.threw = g[j].threw /\ a.out = g[j].out
        /\ a.x = g[j].x /\ a.list = g[j].list /\ a.elem = v
        /\ b.own = h[j].own /\ b.threw = h[j].threw /\ b.out = h[j].out
        /\ b.x = h[j].x /\ b.list = h[j].list /\ b.elem = v
    BY <2>4 DEF Env
  <2> HIDE DEF a, b
  <2>7. Alike(p, a, b) /\ Kept(p, g[j], a)
    BY <2>1, <2>6 DEF Alike, Kept
  <2>8. Aligned(p, q, a)
    <3>1. a.own \in Seq(Values) /\ d.own \in Seq(Values)
      BY <2>5, EnvFields
    <3>2. a.own = <<>> => d.own = <<>>
      BY <2>4, <2>6, <3>1, EmptySeq
    <3> QED
      BY <3>2 DEF Aligned
  <2>9. Alike(p, c[a], c[b]) /\ Kept(p, a, c[a])
    BY <2>5, <2>7, <2>8 DEF Framed
  <2>10. Kept(p, d, c[a])
    BY <2>1, <2>7, <2>9, KeptTwice
  <2> QED
    BY <2>3, <2>9, <2>10
<1>6. \A j \in Nat : j \in S
  <2> HIDE DEF S
  <2> QED
    BY <1>4, <1>5, NatSetInduction
<1>7. m \in Nat /\ m <= Len(l)
  BY <1>2
<1>8. P(m)
  <2> HIDE DEF P
  <2> QED
    BY <1>6, <1>7
<1> QED
  BY <1>8 DEF g, h

\* The text of a spine names what its tags use.
LEMMA Names ==
    ASSUME NEW p, NEW q \in 1..Len(p)
    PROVE  /\ p[q].tag \in {"add", "remove", "element", "elements"} => Reaches(p, "list")
           /\ p[q].tag \in {"add", "remove"} => WritesTo(p, "list")
           /\ p[q].tag \in {"get", "set"} /\ Before(p, q, {"var"}) = {} => Reaches(p, "x")
           /\ p[q].tag = "set" /\ Before(p, q, {"var"}) = {} => WritesTo(p, "x")
<1>1. ASSUME p[q].tag \in {"add", "remove", "element", "elements"}
      PROVE  Reaches(p, "list") /\ (p[q].tag \in {"add", "remove"} => WritesTo(p, "list"))
  <2> DEFINE u == [on |-> "list", write |-> p[q].tag \in {"add", "remove"}]
  <2>1. u \in Touches(p)
    BY <1>1, TouchesList
  <2>2. u.on = "list" /\ u.write = (p[q].tag \in {"add", "remove"})
    BY Zenon
  <2> HIDE DEF u
  <2> QED
    BY <2>1, <2>2 DEF Reaches, WritesTo
<1>2. ASSUME p[q].tag \in {"get", "set"}, Before(p, q, {"var"}) = {}
      PROVE  Reaches(p, "x") /\ (p[q].tag = "set" => WritesTo(p, "x"))
  <2> DEFINE u == [on |-> "x", write |-> p[q].tag = "set"]
  <2>1. u \in Touches(p)
    BY <1>2, TouchesVariable
  <2>2. u.on = "x" /\ u.write = (p[q].tag = "set")
    BY Zenon
  <2> HIDE DEF u
  <2> QED
    BY <2>1, <2>2 DEF Reaches, WritesTo
<1> QED
  BY <1>1, <1>2

\* a tag on no more than its content and what it names,
LEMMA ExecuteFramed ==
    ASSUME NEW p \in Programs, NEW q \in 1..Len(p), NEW c \in Contents, Framed(p, q + 1, c),
           NEW d \in Env, NEW f \in Env, Alike(p, d, f), Aligned(p, q, d)
    PROVE  /\ Alike(p, Execute(p[q], c, d), Execute(p[q], c, f))
           /\ Kept(p, d, Execute(p[q], c, d))
<1> DEFINE Goal == /\ Alike(p, Execute(p[q], c, d), Execute(p[q], c, f))
                   /\ Kept(p, d, Execute(p[q], c, d))
           v == p[q].arg
<1> HIDE DEF Goal
<1> SUFFICES Goal
  BY DEF Goal
<1>1. /\ p[q].tag \in Tags /\ q \in Nat \ {0}
      /\ p[q].tag \in {"set", "var", "add"} => v \in Values
      /\ p[q].tag \in {"remove", "element"} => v \in Nat
  BY SpineTags DEF SpineTag
<1>2. /\ d.out \in Seq(Values) /\ d.own \in Seq(Values) /\ d.elem \in Seq(Values)
      /\ d.x \in Values /\ d.list \in Seq(Values) /\ Len(d.own) \in Nat /\ Len(d.list) \in Nat
      /\ f.x \in Values /\ f.list \in Seq(Values)
  BY EnvFields
<1>3. /\ d.out = f.out /\ d.own = f.own /\ d.elem = f.elem /\ d.threw = f.threw
      /\ Reaches(p, "x") => d.x = f.x
      /\ Reaches(p, "list") => d.list = f.list
  BY DEF Alike
<1>4. ASSUME NEW a \in Env, NEW b \in Env, Alike(p, a, b), Kept(p, d, a),
             Len(a.own) = Len(d.own), p[q].tag # "var",
             Execute(p[q], c, d) = c[a], Execute(p[q], c, f) = c[b]
      PROVE  Goal
  <2>1. Aligned(p, q + 1, a)
    BY <1>1, <1>4, AlignedNext
  <2>2. Alike(p, c[a], c[b]) /\ Kept(p, a, c[a])
    BY <1>4, <2>1 DEF Framed
  <2>3. Kept(p, d, c[a])
    BY <1>4, <2>2, KeptTwice
  <2> QED
    BY <1>4, <2>2, <2>3 DEF Goal
<1>5. CASE p[q].tag = "get"
  <2> DEFINE s == Append(d.out, IF d.own = <<>> THEN d.x ELSE d.own[Len(d.own)])
             a == [d EXCEPT !.out = s]
             b == [f EXCEPT !.out = s]
  <2>1. d.own = <<>> => d.x = f.x
    BY <1>3, <1>5, Names DEF Aligned
  <2>2. Execute(p[q], c, d) = c[a]
    BY <1>5 DEF Execute
  <2>3. Execute(p[q], c, f) = c[b]
    <3>1. Execute(p[q], c, f) =
            c[[f EXCEPT !.out = Append(f.out, IF f.own = <<>> THEN f.x ELSE f.own[Len(f.own)])]]
      BY <1>5 DEF Execute
    <3>2. Append(f.out, IF f.own = <<>> THEN f.x ELSE f.own[Len(f.own)]) = s
      BY <1>3, <2>1
    <3> QED
      BY <3>1, <3>2, Zenon
  <2>4. s \in Seq(Values)
    <3>1. (IF d.own = <<>> THEN d.x ELSE d.own[Len(d.own)]) \in Values
      BY <1>2, ElementOfSeq, EmptySeq
    <3> QED
      BY <1>2, <3>1, AppendProperties
  <2> HIDE DEF s
  <2>5. a \in Env /\ b \in Env
    BY <2>4, EnvFields
  <2>6. /\ Alike(p, a, b) /\ Kept(p, d, a) /\ a.own = d.own
    BY <1>3 DEF Env, Alike, Kept
  <2> HIDE DEF a, b
  <2> QED
    BY <1>4, <1>5, <2>2, <2>3, <2>5, <2>6
<1>6. CASE p[q].tag = "set" /\ d.own = <<>>
  <2> DEFINE a == [d EXCEPT !.x = v]
             b == [f EXCEPT !.x = v]
  <2>1. WritesTo(p, "x")
    BY <1>6, Names DEF Aligned
  <2>2. Execute(p[q], c, d) = c[a]
    BY <1>6 DEF Execute
  <2>3. Execute(p[q], c, f) = c[b]
    BY <1>3, <1>6 DEF Execute
  <2> HIDE DEF v
  <2>5. a \in Env /\ b \in Env
    BY <1>1, <1>6, EnvFields
  <2>6. /\ Alike(p, a, b) /\ Kept(p, d, a) /\ a.own = d.own
    BY <1>3, <2>1 DEF Env, Alike, Kept
  <2> HIDE DEF a, b
  <2> QED
    BY <1>4, <1>6, <2>2, <2>3, <2>5, <2>6
<1>7. CASE p[q].tag = "set" /\ d.own # <<>>
  <2> DEFINE s == [d.own EXCEPT ![Len(d.own)] = v]
             a == [d EXCEPT !.own = s]
             b == [f EXCEPT !.own = s]
  <2>2. Execute(p[q], c, d) = c[a]
    BY <1>7 DEF Execute
  <2>3. Execute(p[q], c, f) = c[b]
    <3>1. Execute(p[q], c, f) = c[[f EXCEPT !.own = [f.own EXCEPT ![Len(f.own)] = v]]]
      BY <1>3, <1>7 DEF Execute
    <3>2. [f.own EXCEPT ![Len(f.own)] = v] = s
      BY <1>3
    <3> QED
      BY <3>1, <3>2, Zenon
  <2>4. s \in Seq(Values) /\ Len(s) = Len(d.own)
    <3>1. Len(d.own) \in 1..Len(d.own)
      BY <1>2, <1>7, EmptySeq
    <3> QED
      BY <1>1, <1>2, <1>7, <3>1, ExceptSeq
  <2> HIDE DEF s
  <2>5. a \in Env /\ b \in Env
    BY <2>4, EnvFields
  <2>6. Alike(p, a, b) /\ Kept(p, d, a) /\ a.own = s
    BY <1>3 DEF Env, Alike, Kept
  <2> HIDE DEF a, b
  <2> QED
    BY <1>4, <1>7, <2>2, <2>3, <2>4, <2>5, <2>6
<1>8. CASE p[q].tag = "value"
  <2> DEFINE s == d.out \o d.elem
             a == [d EXCEPT !.out = s]
             b == [f EXCEPT !.out = s]
  <2>2. Execute(p[q], c, d) = c[a]
    BY <1>8 DEF Execute
  <2>3. Execute(p[q], c, f) = c[b]
    <3>1. Execute(p[q], c, f) = c[[f EXCEPT !.out = f.out \o f.elem]]
      BY <1>8 DEF Execute
    <3>2. f.out \o f.elem = s
      BY <1>3
    <3> QED
      BY <3>1, <3>2, Zenon
  <2>4. s \in Seq(Values)
    BY <1>2, ConcatProperties
  <2> HIDE DEF s
  <2>5. a \in Env /\ b \in Env
    BY <2>4, EnvFields
  <2>6. /\ Alike(p, a, b) /\ Kept(p, d, a) /\ a.own = d.own
    BY <1>3 DEF Env, Alike, Kept
  <2> HIDE DEF a, b
  <2> QED
    BY <1>4, <1>8, <2>2, <2>3, <2>5, <2>6
<1>9. ASSUME p[q].tag \in {"add", "remove"}, NEW s \in Seq(Values),
             Execute(p[q], c, d) = c[[d EXCEPT !.list = s]],
             Execute(p[q], c, f) = c[[f EXCEPT !.list = s]]
      PROVE  Goal
  <2> DEFINE a == [d EXCEPT !.list = s]
             b == [f EXCEPT !.list = s]
  <2>1. WritesTo(p, "list")
    BY <1>9, Names
  <2>2. a \in Env /\ b \in Env
    BY <1>9, EnvFields
  <2>3. Alike(p, a, b) /\ Kept(p, d, a) /\ a.own = d.own
    BY <1>3, <2>1 DEF Env, Alike, Kept
  <2>4. Execute(p[q], c, d) = c[a] /\ Execute(p[q], c, f) = c[b]
    BY <1>9
  <2> HIDE DEF a, b
  <2> QED
    BY <1>4, <1>9, <2>2, <2>3, <2>4
<1>10. CASE p[q].tag = "add"
  <2> DEFINE s == Append(d.list, v)
  <2>1. d.list = f.list
    BY <1>3, <1>10, Names
  <2>2. s \in Seq(Values)
    BY <1>1, <1>2, <1>10, AppendProperties
  <2>3. Execute(p[q], c, d) = c[[d EXCEPT !.list = s]]
    BY <1>10, ExecuteAdd
  <2>4. Execute(p[q], c, f) = c[[f EXCEPT !.list = s]]
    BY <1>10, <2>1 DEF Execute
  <2> HIDE DEF s
  <2> QED
    BY <1>9, <1>10, <2>2, <2>3, <2>4
<1>11. CASE p[q].tag = "remove"
  <2> DEFINE s == Without(d.list, v)
  <2>1. d.list = f.list
    BY <1>3, <1>11, Names
  <2>2. s \in Seq(Values)
    BY <1>1, <1>2, <1>11, WithoutType
  <2>3. Execute(p[q], c, d) = c[[d EXCEPT !.list = s]]
    BY <1>11, ExecuteRemove
  <2>4. Execute(p[q], c, f) = c[[f EXCEPT !.list = s]]
    BY <1>11, <2>1 DEF Execute
  <2> HIDE DEF s
  <2> QED
    BY <1>9, <1>11, <2>2, <2>3, <2>4
<1>12. ASSUME Execute(p[q], c, d) = [d EXCEPT !.threw = TRUE],
              Execute(p[q], c, f) = [f EXCEPT !.threw = TRUE]
       PROVE  Goal
  <2> DEFINE a == [d EXCEPT !.threw = TRUE]
             b == [f EXCEPT !.threw = TRUE]
  <2>1. Alike(p, a, b) /\ Kept(p, d, a)
    BY <1>3 DEF Env, Alike, Kept
  <2>2. Execute(p[q], c, d) = a /\ Execute(p[q], c, f) = b
    BY <1>12
  <2> HIDE DEF a, b
  <2> QED
    BY <2>1, <2>2 DEF Goal
<1>13. CASE p[q].tag = "element"
  <2>1. d.list = f.list
    BY <1>3, <1>13, Names
  <2>2. CASE v < Len(d.list)
    <3> DEFINE s == <<d.list[v + 1]>>
               a == [d EXCEPT !.elem = s]
               b == [f EXCEPT !.elem = s]
    <3>1. s \in Seq(Values)
      <4>1. v + 1 \in 1..Len(d.list)
        BY <1>1, <1>2, <1>13, <2>2
      <4> QED
        BY <1>2, <4>1, ElementOfSeq
    <3>2. Execute(p[q], c, d) = c[a]
      BY <1>13, <2>2 DEF Execute
    <3>3. Execute(p[q], c, f) = c[b]
      BY <1>13, <2>1, <2>2 DEF Execute
    <3> HIDE DEF s
    <3>4. a \in Env /\ b \in Env
      BY <3>1, EnvFields
    <3>5. /\ Alike(p, a, b) /\ Kept(p, d, a) /\ a.own = d.own
      BY <1>3 DEF Env, Alike, Kept
    <3> HIDE DEF a, b
    <3> QED
      BY <1>4, <1>13, <3>2, <3>3, <3>4, <3>5
  <2>3. CASE ~(v < Len(d.list))
    <3>1. Execute(p[q], c, d) = [d EXCEPT !.threw = TRUE]
      BY <1>13, <2>3, ExecuteElement, Zenon
    <3>2. Execute(p[q], c, f) = [f EXCEPT !.threw = TRUE]
      BY <1>13, <2>1, <2>3, ExecuteElement, Zenon
    <3> QED
      BY <1>12, <3>1, <3>2
  <2> QED
    BY <2>2, <2>3
<1>14. CASE p[q].tag = "elements"
  <2> DEFINE l == d.list
             m == Len(d.list)
  <2>1. d.list = f.list
    BY <1>3, <1>14, Names
  <2>2. Aligned(p, q + 1, d)
    BY <1>1, <1>14, AlignedNext
  <2>3. l \in Seq(Values) /\ m \in 0..Len(l)
    BY <1>2
  <2>4. Execute(p[q], c, d) = Each(c, l, 0, d)[m]
    BY <1>14, ExecuteElements
  <2>5. Execute(p[q], c, f) = Each(c, l, 0, f)[m]
    BY <1>14, <2>1, ExecuteElements
  <2> HIDE DEF l, m
  <2>6. /\ Alike(p, Each(c, l, 0, d)[m], Each(c, l, 0, f)[m])
        /\ Kept(p, d, Each(c, l, 0, d)[m])
    BY <2>2, <2>3, EachFramed
  <2> QED
    BY <2>4, <2>5, <2>6 DEF Goal
<1>15. CASE p[q].tag \in {"throw", "log"}
  <2>1. Execute(p[q], c, d) = [d EXCEPT !.threw = TRUE]
    BY <1>15 DEF Execute
  <2>2. Execute(p[q], c, f) = [f EXCEPT !.threw = TRUE]
    BY <1>15 DEF Execute
  <2> QED
    BY <1>12, <2>1, <2>2
<1>16. CASE p[q].tag = "var"
  <2> DEFINE u == Append(d.own, v)
             a == [d EXCEPT !.own = u]
             b == [f EXCEPT !.own = u]
             n == Len(d.own)
             g == c[a]
             h == c[b]
  <2>1. u \in Seq(Values) /\ u # <<>>
    <3>1. u \in Seq(Values) /\ Len(u) = Len(d.own) + 1
      BY <1>1, <1>2, <1>16, AppendProperties
    <3>2. Len(u) # 0
      BY <1>2, <3>1
    <3> HIDE DEF u
    <3> QED
      BY <3>1, <3>2, EmptySeq
  <2>2. Execute(p[q], c, d) = [g EXCEPT !.own = SubSeq(@, 1, n)]
    BY <1>16 DEF Execute
  <2>3. Execute(p[q], c, f) = [h EXCEPT !.own = SubSeq(@, 1, n)]
    <3>1. Execute(p[q], c, f) =
            [c[[f EXCEPT !.own = Append(f.own, v)]] EXCEPT !.own = SubSeq(@, 1, Len(f.own))]
      BY <1>16 DEF Execute
    <3>2. Append(f.own, v) = u /\ Len(f.own) = n
      BY <1>3
    <3> QED
      BY <3>1, <3>2, Zenon
  <2> HIDE DEF u, n
  <2>4. a \in Env /\ b \in Env
    BY <2>1, EnvFields
  <2>5. Alike(p, a, b) /\ Kept(p, d, a) /\ a.own = u
    BY <1>3 DEF Env, Alike, Kept
  <2> HIDE DEF a, b
  <2>6. Aligned(p, q + 1, a)
    BY <2>1, <2>5 DEF Aligned
  <2>7. Alike(p, g, h) /\ Kept(p, a, g) /\ g \in Env /\ h \in Env
    BY <2>4, <2>5, <2>6 DEF Framed, Contents
  <2>8. Kept(p, d, g)
    BY <2>5, <2>7, KeptTwice
  <2> HIDE DEF g, h
  <2> DEFINE s == SubSeq(g.own, 1, n)
             gg == [g EXCEPT !.own = s]
             hh == [h EXCEPT !.own = s]
  <2>9. SubSeq(h.own, 1, n) = s
    BY <2>7 DEF Alike
  <2>10. Execute(p[q], c, d) = gg /\ Execute(p[q], c, f) = hh
    BY <2>2, <2>3, <2>9, Zenon
  <2> HIDE DEF s
  <2>11. Alike(p, gg, hh) /\ Kept(p, d, gg)
    BY <2>7, <2>8 DEF Env, Alike, Kept
  <2> HIDE DEF gg, hh
  <2> QED
    BY <2>10, <2>11 DEF Goal
<1> QED
  BY <1>1, <1>5, <1>6, <1>7, <1>8, <1>10, <1>11, <1>13, <1>14, <1>15, <1>16 DEF Tags

\* and the rest of a spine on no more than the text of the spine.
LEMMA RunFramed ==
    ASSUME NEW p \in Programs
    PROVE  Framed(p, 1, Run(p)[Len(p)])
<1> DEFINE r == Run(p)
           S == {n \in Nat : n <= Len(p) => Framed(p, Len(p) - n + 1, r[n])}
<1>1. Len(p) \in Nat
  BY SpineTags
<1>2. r[0] = [e \in Env |-> e] /\ \A n \in Nat : r[n + 1] = RunStep(p, r[n], n + 1)
  BY RunValues
<1>3. \A n \in 0..Len(p) : r[n] \in Contents
  BY RunTypes
<1> HIDE DEF r
<1>4. 0 \in S
  BY <1>2 DEF Framed, Kept
<1>5. ASSUME NEW n \in Nat, n \in S PROVE n + 1 \in S
  <2> SUFFICES ASSUME n + 1 <= Len(p) PROVE Framed(p, Len(p) - (n + 1) + 1, r[n + 1])
    OBVIOUS
  <2> DEFINE q == Len(p) - (n + 1) + 1
             c == r[n]
  <2>1. q \in 1..Len(p) /\ q + 1 = Len(p) - n + 1 /\ n \in 0..Len(p)
    BY <1>1
  <2>2. c \in Contents /\ Framed(p, q + 1, c)
    BY <1>1, <1>3, <1>5, <2>1
  <2>3. \A e \in Env : r[n + 1][e] = IF e.threw THEN e ELSE Execute(p[q], c, e)
    BY <1>2, ZenonT(30) DEF RunStep
  <2> HIDE DEF q, c
  <2>4. ASSUME NEW d \in Env, NEW f \in Env, Alike(p, d, f), Aligned(p, q, d)
        PROVE  Alike(p, r[n + 1][d], r[n + 1][f]) /\ Kept(p, d, r[n + 1][d])
    <3>1. d.threw = f.threw /\ d.threw \in BOOLEAN
      BY <2>4 DEF Alike, Env
    <3>2. CASE d.threw
      BY <2>3, <2>4, <3>1, <3>2 DEF Kept
    <3>3. CASE ~d.threw
      <4>1. /\ Alike(p, Execute(p[q], c, d), Execute(p[q], c, f))
            /\ Kept(p, d, Execute(p[q], c, d))
        BY <2>1, <2>2, <2>4, ExecuteFramed
      <4>2. r[n + 1][d] = Execute(p[q], c, d) /\ r[n + 1][f] = Execute(p[q], c, f)
        BY <2>3, <3>1, <3>3
      <4> QED
        BY <4>1, <4>2
    <3> QED
      BY <3>2, <3>3
  <2>5. Framed(p, q, r[n + 1])
    BY <2>4 DEF Framed
  <2> QED
    BY <2>5 DEF q
<1>6. \A n \in Nat : n \in S
  <2> HIDE DEF S
  <2> QED
    BY <1>4, <1>5, NatSetInduction
<1>7. Len(p) - Len(p) + 1 = 1
  BY <1>1
<1>8. Framed(p, Len(p) - Len(p) + 1, r[Len(p)])
  BY <1>1, <1>6
<1> QED
  BY <1>7, <1>8 DEF r

\* Child p that finds the shared data as y and l gives what it gives where they are z and
\* m, if its text names only what is the same.
LEMMA AloneFramed ==
    ASSUME NEW p \in Programs, NEW y \in Values, NEW z \in Values, NEW l \in Seq(Values),
           NEW m \in Seq(Values), Reaches(p, "x") => y = z, Reaches(p, "list") => l = m
    PROVE  /\ Output(Alone(p, y, l)) = Output(Alone(p, z, m))
           /\ Alone(p, y, l) \in Env
           /\ ~WritesTo(p, "x") => Alone(p, y, l).x = y
           /\ ~WritesTo(p, "list") => Alone(p, y, l).list = l
<1> DEFINE d == [out |-> <<>>, own |-> <<>>, elem |-> <<>>, threw |-> FALSE, x |-> y,
                 list |-> l]
           f == [out |-> <<>>, own |-> <<>>, elem |-> <<>>, threw |-> FALSE, x |-> z,
                 list |-> m]
           c == Run(p)[Len(p)]
<1>1. d \in Env /\ f \in Env
  BY EmptySeq DEF Env
<1>2. Alike(p, d, f)
  BY DEF Alike
<1>3. Aligned(p, 1, d)
  BY DEF Aligned, Before
<1>4. Framed(p, 1, c)
  BY RunFramed
<1>5. Alone(p, y, l) = c[d] /\ Alone(p, z, m) = c[f]
  BY DEF Alone
<1>6. d.x = y /\ d.list = l
  OBVIOUS
<1>7. c \in Contents
  BY RunTypes, SpineTags
<1> HIDE DEF c, d, f
<1>8. Alike(p, c[d], c[f]) /\ Kept(p, d, c[d]) /\ c[d] \in Env
  BY <1>1, <1>2, <1>3, <1>4, <1>7 DEF Framed, Contents
<1> QED
  BY <1>5, <1>6, <1>8 DEF Alike, Kept, Output

\* Children that do not interfere find what they use as the dbp:async has found it, and
\* give one after the other what each gives alone.
LEMMA TurnsAlone ==
    ASSUME NEW pp \in [Children -> Programs],
           \A i, j \in Children : i # j => ~Conflict(Touches(pp[i]), Touches(pp[j])),
           NEW ts, \A i \in Children : ts[i] = Output(Alone(pp[i], Given, Start))
    PROVE  InTurn(pp)[N].out = Gathered(ts)[N]
<1> DEFINE g == InTurn(pp)
           h == Gathered(ts)
           Fresh(n, o) == \A j \in 1..n : ~WritesTo(pp[j], o)
           P(n) == /\ g[n].out = h[n] /\ g[n].x \in Values /\ g[n].list \in Seq(Values)
                   /\ Fresh(n, "x") => g[n].x = Given
                   /\ Fresh(n, "list") => g[n].list = Start
           S == {n \in Nat : n <= N => P(n)}
<1>1. N \in Nat /\ Given \in Values /\ Start \in Seq(Values)
  BY AsyncAssumption
<1>2. /\ g[0] = [out |-> <<>>, x |-> Given, list |-> Start]
      /\ \A n \in Nat : g[n + 1] = TurnStep(pp, g[n], n + 1)
  BY InTurnValues
<1>3. h[0] = <<>> /\ \A n \in Nat : h[n + 1] = h[n] \o ts[n + 1]
  BY GatheredValues
<1> HIDE DEF g, h
<1>4. 0 \in S
  BY <1>1, <1>2, <1>3
<1>5. ASSUME NEW n \in Nat, n \in S PROVE n + 1 \in S
  <2> SUFFICES ASSUME n + 1 <= N PROVE P(n + 1)
    OBVIOUS
  <2> DEFINE i == n + 1
             p == pp[n + 1]
             y == g[n].x
             l == g[n].list
             e == Alone(p, y, l)
  <2>1. /\ i \in Children /\ p \in Programs
        /\ \A j \in 1..n : j \in Children /\ j # i /\ j \in 1..i
    BY <1>1 DEF Children
  <2>2. P(n)
    BY <1>1, <1>5
  <2>3. ASSUME NEW o, Reaches(p, o) PROVE Fresh(n, o)
    <3> SUFFICES ASSUME NEW j \in 1..n, NEW u \in Touches(pp[j]), u.on = o, u.write
                 PROVE  FALSE
      BY DEF WritesTo
    <3>1. PICK v \in Touches(p) : v.on = o
      BY <2>3 DEF Reaches
    <3>2. Conflict(Touches(pp[j]), Touches(pp[i]))
      BY <3>1 DEF Conflict
    <3> QED
      BY <2>1, <3>2
  <2>4. (Reaches(p, "x") => y = Given) /\ (Reaches(p, "list") => l = Start)
    BY <2>2, <2>3
  <2>5. y \in Values /\ l \in Seq(Values)
    BY <2>2
  <2>6. g[n + 1] = [out |-> g[n].out \o Output(e), x |-> e.x, list |-> e.list]
    BY <1>2 DEF TurnStep
  <2>7. ts[n + 1] = Output(Alone(p, Given, Start))
    BY <2>1
  <2> HIDE DEF p, y, l
  <2>8. /\ Output(e) = Output(Alone(p, Given, Start)) /\ e \in Env
        /\ ~WritesTo(p, "x") => e.x = y
        /\ ~WritesTo(p, "list") => e.list = l
    BY <1>1, <2>1, <2>4, <2>5, AloneFramed
  <2> HIDE DEF e
  <2>9. g[n + 1].out = h[n + 1] /\ g[n + 1].x = e.x /\ g[n + 1].list = e.list
    <3>1. h[n + 1] = h[n] \o ts[n + 1]
      BY <1>3
    <3>2. g[n].out = h[n]
      BY <2>2
    <3>3. Output(e) = ts[n + 1]
      BY <2>7, <2>8
    <3>4. /\ g[n + 1].out = g[n].out \o Output(e)
          /\ g[n + 1].x = e.x /\ g[n + 1].list = e.list
      BY <2>6
    <3> QED
      BY <3>1, <3>2, <3>3, <3>4, Zenon
  <2>10. e.x \in Values /\ e.list \in Seq(Values)
    BY <2>8, EnvFields
  <2>11. ASSUME NEW o, Fresh(n + 1, o) PROVE Fresh(n, o) /\ ~WritesTo(p, o)
    <3>1. n + 1 \in 1..(n + 1)
      OBVIOUS
    <3> QED
      BY <2>1, <2>11, <3>1 DEF p
  <2>12. Fresh(n + 1, "x") => g[n + 1].x = Given
    BY <2>2, <2>8, <2>9, <2>11 DEF y
  <2>13. Fresh(n + 1, "list") => g[n + 1].list = Start
    BY <2>2, <2>8, <2>9, <2>11 DEF l
  <2> QED
    BY <2>9, <2>10, <2>12, <2>13
<1>6. \A n \in Nat : n \in S
  <2> HIDE DEF S
  <2> QED
    BY <1>4, <1>5, NatSetInduction
<1>7. g[N].out = h[N]
  BY <1>1, <1>6
<1> QED
  BY <1>7 DEF g, h

--------------------------------------------------------------------------------
(* The order of the outputs *)

\* The first outputs depend on the first children only.
LEMMA GatheredSame ==
    ASSUME NEW ts, NEW us, NEW k \in Nat, \A n \in 1..k : ts[n] = us[n]
    PROVE  Gathered(ts)[k] = Gathered(us)[k]
<1> DEFINE f == Gathered(ts)
           g == Gathered(us)
           S == {n \in Nat : n \in 0..k => f[n] = g[n]}
<1>1. /\ f[0] = <<>> /\ \A n \in Nat : f[n + 1] = f[n] \o ts[n + 1]
      /\ g[0] = <<>> /\ \A n \in Nat : g[n + 1] = g[n] \o us[n + 1]
  BY GatheredValues
<1> HIDE DEF f, g
<1>2. 0 \in S
  BY <1>1
<1>3. ASSUME NEW n \in Nat, n \in S
      PROVE  n + 1 \in S
  <2> SUFFICES ASSUME n + 1 \in 0..k PROVE f[n + 1] = g[n + 1]
    OBVIOUS
  <2>1. f[n] = g[n] /\ ts[n + 1] = us[n + 1]
    BY <1>3
  <2>2. f[n + 1] = f[n] \o ts[n + 1] /\ g[n + 1] = g[n] \o us[n + 1]
    BY <1>1
  <2> QED
    BY <2>1, <2>2
<1>4. \A n \in Nat : n \in S
  <2> HIDE DEF S
  <2> QED
    BY <1>2, <1>3, NatSetInduction
<1>5. k \in S /\ k \in 0..k
  BY <1>4
<1> QED
  BY <1>5 DEF f, g

\* The caller appends what it takes.
LEMMA CallerInOrder ==
    ASSUME TypeOK, InOrder, Caller
    PROVE  InOrder'
<1> DEFINE G == Gathered(text)
<1>1. text' = text
  BY DEF Caller, Launch, LaunchFails, AllLaunched, Collect, Leave
<1>2. Gathered(text)' = G
  BY <1>1 DEF Gathered
<1>3. next \in Nat \ {0}
  BY AsyncAssumption DEF TypeOK
<1>4. G[0] = <<>> /\ \A n \in Nat : G[n + 1] = G[n] \o text[n + 1]
  BY GatheredValues
<1> HIDE DEF G
<1>5. CASE Launch \/ LaunchFails
  BY <1>5 DEF Launch, LaunchFails, InOrder, Collects
<1>6. CASE AllLaunched
  <2>1. out' = <<>> /\ next' - 1 = 0
    BY <1>6 DEF AllLaunched, InOrder, Collects
  <2> QED
    BY <1>2, <1>4, <1>6, <2>1 DEF AllLaunched, InOrder, Collects
<1>7. CASE Collect
  <2> DEFINE m == next - 1
  <2>1. m \in Nat /\ m + 1 = next /\ (next + 1) - 1 = m + 1
    BY <1>3
  <2>2. out' = out \o text[next] /\ next' = next + 1 /\ Collects /\ Collects'
    BY <1>7 DEF Collect, Collects
  <2>3. out = G[m]
    BY <2>2 DEF InOrder, Collects, G
  <2> HIDE DEF m
  <2>4. out' = G[m + 1]
    BY <1>4, <2>1, <2>2, <2>3
  <2> QED
    BY <1>2, <2>1, <2>2, <2>4 DEF InOrder, Collects
<1>8. CASE Leave
  <2>1. next' = next /\ out' = out /\ (Collects' <=> Collects)
    BY <1>8 DEF Leave, Collects
  <2> QED
    BY <1>2, <2>1 DEF InOrder, Collects, G
<1> QED
  BY <1>5, <1>6, <1>7, <1>8 DEF Caller

\* A child does not write any more where the caller has read.
LEMMA ChildInOrder ==
    ASSUME TypeOK, Joined, InOrder, NEW i \in Children, Child(i)
    PROVE  InOrder'
<1>1. UNCHANGED <<parent, next, out>>
  BY Zenon DEF Child, Begin, Breaks, GetValue, SetValue, Var, Throw, Log, ListAdd,
     ListRemove, ListElement, ListElements, NextElement, LeaveElement, Value, Return,
     Swallowed, Enters, Goes, frame
<1>2. text' = text \/ \E v : text' = [text EXCEPT ![i] = v]
  BY Zenon DEF Child, Begin, Breaks, GetValue, SetValue, Var, Throw, Log, ListAdd,
     ListRemove, ListElement, ListElements, NextElement, LeaveElement, Value, Return,
     Swallowed, Enters, Goes
<1>3. Runs(i)
  BY Zenon DEF Child, Begin, GetValue, SetValue, Var, Throw, Log, ListAdd,
     ListRemove, ListElement, ListElements, NextElement, LeaveElement, Value, Return,
     Ready, At, AtEnd, Loops
<1>4. Collects' <=> Collects
  BY <1>1 DEF Collects
<1>5. CASE ~Collects
  BY <1>1, <1>4, <1>5 DEF InOrder, Collects
<1>6. CASE Collects
  <2>1. /\ next \in Nat \ {0} /\ i \in Nat /\ next - 1 \in Nat /\ i >= next
        /\ next <= N + 1 /\ N \in Nat
    BY <1>3, <1>6, AsyncAssumption DEF TypeOK, Children, Joined, ChildrenJoined, Collects, Runs
  <2>2. \A n \in 1..(next - 1) : text'[n] = text[n]
    <3>1. \A n \in 1..(next - 1) : n \in Children /\ n # i
      BY <2>1 DEF Children
    <3>2. text \in [Children -> Seq(Values)]
      BY DEF TypeOK
    <3> QED
      BY <1>2, <3>1, <3>2
  <2>3. Gathered(text')[next - 1] = Gathered(text)[next - 1]
    BY <2>1, <2>2, GatheredSame
  <2>4. Gathered(text)' = Gathered(text')
    BY DEF Gathered
  <2> QED
    BY <1>1, <1>4, <1>6, <2>3, <2>4 DEF InOrder, Collects
<1> QED
  BY <1>5, <1>6

\* The output of the tag is that of its children in the order of the document, for any
\* number of them and whichever ends first.
THEOREM OutputInOrder == Spec => []InOrder
<1>1. Init => InOrder
  BY DEF Init, InOrder, Collects
<1>2. IInv /\ InOrder /\ [Next]_vars => InOrder'
  <2> SUFFICES ASSUME IInv, InOrder, [Next]_vars PROVE InOrder'
    OBVIOUS
  <2>1. TypeOK /\ Joined
    BY DEF IInv
  <2>2. CASE UNCHANGED vars
    BY <2>2 DEF vars, frame, InOrder, Collects, Gathered
  <2> QED
    BY <2>1, <2>2, CallerInOrder, ChildInOrder DEF Next, Over
<1> QED
  BY <1>1, <1>2, Invariance, PTL DEF Spec

--------------------------------------------------------------------------------
(* What all children compute *)

\* At first every child owes what it gives alone.
LEMMA OwedAtFirst ==
    ASSUME Init
    PROVE  Computes
<1> SUFFICES ASSUME AllTame, NEW i \in Children PROVE Owed(i)
  BY DEF Computes
<1> DEFINE p == prog[i]
           e == Here(<<>>, <<>>, <<>>, Given, Start)
<1>1. /\ p \in Programs /\ state[i] = "none" /\ pc[i] = 1 /\ own[i] = <<>> /\ scopes[i] = <<>>
      /\ text[i] = <<>>
  BY DEF Init
<1>2. XOf(i) = Given /\ ListOf(i).elems = Start
  BY DEF Init, XOf, ListOf
<1>3. Len(p) \in Nat /\ Len(p) - 1 + 1 = Len(p)
  BY <1>1, AsyncAssumption, LenProperties
<1>4. Run(p)[Len(p)] \in Contents
  BY <1>1, <1>3, RunTypes
<1>5. e \in Env
  BY AsyncAssumption, EmptySeq, HereType
<1>6. Alone(p, Given, Start) = Run(p)[Len(p)][e]
  BY DEF Alone, Here, ElemOf
<1>7. Rest(i) = Output(Result(p, Start, <<>>, Run(p)[Len(p)][e]))
  BY <1>1, <1>2, <1>3 DEF Rest, Finish
<1> HIDE DEF e
<1>8. Run(p)[Len(p)][e] \in Env
  BY <1>4, <1>5 DEF Contents
<1>9. Rest(i) = Promised(i)
  BY <1>6, <1>7, <1>8, ResultOutside DEF Promised
<1> QED
  BY <1>1, <1>9 DEF Owed

\* What child i gives alone does not change.
LEMMA SamePromise ==
    ASSUME NEW i \in Children, prog' = prog
    PROVE  Promised(i)' = Promised(i)
BY DEF Promised

\* What a child owes depends on its own state and on what it sees.
LEMMA SameOwed ==
    ASSUME NEW i \in Children, Owed(i), prog' = prog, pc'[i] = pc[i],
           state'[i] = "ended" <=> state[i] = "ended",
           text'[i] = text[i], own'[i] = own[i], scopes'[i] = scopes[i],
           XOf(i)' = XOf(i), ListOf(i)' = ListOf(i)
    PROVE  Owed(i)'
<1>1. Rest(i)' = Rest(i)
  BY DEF Rest
<1>2. Promised(i)' = Promised(i)
  BY SamePromise
<1> QED
  BY <1>1, <1>2 DEF Owed

\* A step of a child keeps what all of them owe,
LEMMA ChildOwed ==
    ASSUME IInv, IInv', AllTame, NEW j \in Children, Child(j), NEW i \in Children, Owed(i)
    PROVE  Owed(i)'
<1>1. TypeOK /\ TypeOK' /\ Places /\ Sound /\ Sound'
  BY DEF IInv
<1>2. prog' = prog
  BY Zenon DEF Child, Begin, Breaks, GetValue, SetValue, Var, Throw, Log, ListAdd,
     ListRemove, ListElement, ListElements, NextElement, LeaveElement, Value, Return,
     Swallowed, Enters, Goes
<1>3. AllTame'
  BY <1>2 DEF AllTame, Independent
<1>4. ~undefined /\ ~undefined'
  BY <1>1, <1>3 DEF Sound
<1>5. CASE j = i
  <2>1. Child(i)
    BY <1>5
  <2>2. state[i] = "running" /\ (StillOwes(i) \/ Delivers(i))
    BY <1>1, <1>4, <2>1, OwnOwes
  <2>3. Promised(i)' = Promised(i)
    BY <1>2, SamePromise
  <2> QED
    BY <2>2, <2>3 DEF Owed, StillOwes, Delivers
<1>6. CASE j # i
  <2>1. j \in Children \ {i}
    BY <1>6
  <2>2. undefined' = undefined
    BY <1>1, <1>4, Zenon DEF TypeOK
  <2> QED
    BY <1>1, <2>1, <2>2, OthersKept, SameOwed
<1> QED
  BY <1>5, <1>6

\* so does a step of the caller,
LEMMA CallerOwed ==
    ASSUME TypeOK, Joined, Caller, NEW i \in Children, Owed(i)
    PROVE  Owed(i)'
<1>1. UNCHANGED <<prog, pc, own, scopes, text, x, list>>
  BY DEF Caller, Launch, LaunchFails, AllLaunched, Collect, Leave, shared
<1>2. state'[i] = "ended" <=> state[i] = "ended"
  <2>1. CASE Launch
    <3>1. /\ parent = "launch" /\ next \in Children /\ state' = [state EXCEPT ![next] = "running"]
      BY <2>1 DEF Launch, TypeOK, Children
    <3>2. state[next] = "none"
      BY <3>1 DEF Joined, Children
    <3> QED
      BY <3>1, <3>2 DEF TypeOK
  <2> QED
    BY <2>1 DEF Caller, LaunchFails, AllLaunched, Collect, Leave
<1>3. XOf(i)' = XOf(i) /\ ListOf(i)' = ListOf(i)
  BY <1>1, SameShared
<1> QED
  BY <1>1, <1>2, <1>3, SameOwed

\* and so does every step of the tag.
LEMMA StepOwed ==
    ASSUME IInv, IInv', Computes, [Next]_vars
    PROVE  Computes'
<1>1. prog' = prog
  BY Zenon DEF Next, Over, vars, Caller, Launch, LaunchFails, AllLaunched, Collect, Leave, Child,
     Begin, Breaks, GetValue, SetValue, Var, Throw, Log, ListAdd, ListRemove, ListElement,
     ListElements, NextElement, LeaveElement, Value, Return, Swallowed, Enters, Goes
<1> SUFFICES ASSUME AllTame', NEW i \in Children PROVE Owed(i)'
  BY DEF Computes, Children
<1>2. AllTame /\ Owed(i)
  BY <1>1 DEF AllTame, Independent, Computes
<1>3. CASE UNCHANGED vars
  <2>1. UNCHANGED <<prog, state, pc, own, scopes, text, x, list>>
    BY <1>3 DEF vars, shared
  <2> QED
    BY <1>2, <2>1, SameShared, SameOwed
<1>4. TypeOK /\ Joined
  BY DEF IInv
<1> QED
  BY <1>2, <1>3, <1>4, ChildOwed, CallerOwed DEF Next, Over

\* The tag that has left has waited for every child.
Finished == parent = "left" => next = N + 1 /\ \A i \in Children : state[i] = "ended"

\* The tag leaves by collecting every child.
LEMMA StepFinished ==
    ASSUME TypeOK, Joined, Finished, [Next]_vars
    PROVE  Finished'
<1>1. CASE UNCHANGED vars
  BY <1>1 DEF vars, frame, Finished
<1>2. CASE Caller
  <2>1. CASE Leave /\ parent = "collect"
    <3>1. next = N + 1 /\ next' = next /\ state' = state
      BY <2>1 DEF Leave
    <3>2. \A i \in Children : i < next
      BY <3>1, AsyncAssumption DEF Children
    <3> QED
      BY <2>1, <3>1, <3>2 DEF Joined, Finished
  <2> QED
    BY <1>2, <2>1 DEF Caller, Launch, LaunchFails, AllLaunched, Collect, Leave, Finished
<1>3. ASSUME NEW i \in Children, Child(i) PROVE Finished'
  <2>1. parent' = parent /\ next' = next
    BY <1>3, Zenon DEF Child, Begin, Breaks, GetValue, SetValue, Var, Throw, Log, ListAdd,
       ListRemove, ListElement, ListElements, NextElement, LeaveElement, Value, Return,
       Swallowed, Enters, Goes, frame
  <2>2. Runs(i)
    BY <1>3, Zenon DEF Child, Begin, GetValue, SetValue, Var, Throw, Log, ListAdd,
       ListRemove, ListElement, ListElements, NextElement, LeaveElement, Value, Return,
       Ready, At, AtEnd, Loops
  <2>3. parent # "left"
    BY <2>2 DEF Joined, ChildrenJoined, Runs
  <2> QED
    BY <2>1, <2>3 DEF Finished
<1> QED
  BY <1>1, <1>2, <1>3 DEF Next, Over

\* The outputs, in order, of children that give what they give alone.
LEMMA LeftInTurn ==
    ASSUME TypeOK, InOrder, Computes, Finished
    PROVE  AsIfInTurn
<1> SUFFICES ASSUME AllTame, parent = "left" PROVE out = InTurn(prog)[N].out
  BY DEF AsIfInTurn
<1>1. next - 1 = N /\ \A i \in Children : state[i] = "ended"
  BY AsyncAssumption DEF Finished
<1>2. out = Gathered(text)[N]
  BY <1>1 DEF InOrder
<1>3. \A i \in Children : text[i] = Output(Alone(prog[i], Given, Start))
  BY <1>1 DEF Computes, Owed, Promised
<1>4. /\ prog \in [Children -> Programs]
      /\ \A i, j \in Children : i # j => ~Conflict(Touches(prog[i]), Touches(prog[j]))
  BY DEF TypeOK, AllTame, Independent
<1>5. InTurn(prog)[N].out = Gathered(text)[N]
  BY <1>3, <1>4, TurnsAlone
<1> QED
  BY <1>2, <1>5

\* Children that do not interfere by their text give together what they give one after
\* the other: for any number of children, any spines and any list, in any interleaving of
\* the threads.
THEOREM InTurnCorrect == Spec => []AsIfInTurn
<1>1. Init => Computes /\ Finished
  <2>1. Init => Finished
    BY DEF Init, Finished
  <2> QED
    BY <2>1, OwedAtFirst
<1>2. IInv /\ IInv' /\ Computes /\ Finished /\ [Next]_vars => Computes' /\ Finished'
  <2>1. IInv => TypeOK /\ Joined
    BY DEF IInv
  <2> QED
    BY <2>1, StepOwed, StepFinished
<1>3. IInv /\ InOrder /\ Computes /\ Finished => AsIfInTurn
  BY LeftInTurn DEF IInv
<1> QED
  BY <1>1, <1>2, <1>3, Invariance, OutputInOrder, PTL DEF Spec

================================================================================
