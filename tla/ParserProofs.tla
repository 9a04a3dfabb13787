------------------------------- MODULE ParserProofs -------------------------------
(***************************************************************************)
(* Proofs about Parser: for documents of any length and depth the parser   *)
(* finds the element in which a tag is written, though it keeps no stack.  *)
(***************************************************************************)
EXTENDS Parser, Induction, SequenceTheorems


\* f lists n and what get_parent() gives from it, k times.
Goes(T, f, n, k) ==
    f = [i \in 0..k |-> IF i = 0 THEN n
                        ELSE IF f[i - 1] = 0 THEN 0 ELSE T[f[i - 1]].parent]

Climb(T, n, k) == CHOOSE f : Goes(T, f, n, k)

UpIn(T, n, k) == Climb(T, n, k)[k]

LEMMA UpIsUpIn ==
    \A n, k : Up(n, k) = UpIn(tree, n, k)
BY Zenon DEF Up, UpIn, Climb, Goes

LEMMA NextUpIsUpIn ==
    \A n, k : Up(n, k)' = UpIn(tree', n, k)
BY Zenon DEF Up, UpIn, Climb, Goes

LEMMA ClimbExists ==
    ASSUME NEW T, NEW n
    PROVE  \A k \in Nat : \E f : Goes(T, f, n, k)
<1> DEFINE S == {k \in Nat : \E f : Goes(T, f, n, k)}
<1>1. 0 \in S
  <2> DEFINE g == [i \in 0..0 |-> n]
  <2>1. Goes(T, g, n, 0)
    BY DEF Goes
  <2> QED BY <2>1
<1>2. ASSUME NEW k \in Nat, k \in S
      PROVE  k + 1 \in S
  <2>1. PICK f : Goes(T, f, n, k)
    BY <1>2
  <2> DEFINE g == [i \in 0..(k + 1) |-> IF i = k + 1
                                        THEN IF f[k] = 0 THEN 0 ELSE T[f[k]].parent
                                        ELSE f[i]]
  <2>a. \A i \in 0..k : f[i] = IF i = 0 THEN n
                              ELSE IF f[i - 1] = 0 THEN 0 ELSE T[f[i - 1]].parent
    BY <2>1 DEF Goes
  <2>b. \A i \in 0..k : g[i] = f[i]
    OBVIOUS
  <2>c. g[k + 1] = IF g[k] = 0 THEN 0 ELSE T[g[k]].parent
    OBVIOUS
  <2>d. g = [i \in 0..(k + 1) |-> g[i]]
    OBVIOUS
  <2> HIDE DEF g
  <2>e. \A i \in 0..(k + 1) : g[i] = IF i = 0 THEN n
                              ELSE IF g[i - 1] = 0 THEN 0 ELSE T[g[i - 1]].parent
    <3> SUFFICES ASSUME NEW i \in 0..(k + 1)
                 PROVE  g[i] = IF i = 0 THEN n
                               ELSE IF g[i - 1] = 0 THEN 0 ELSE T[g[i - 1]].parent
      OBVIOUS
    <3>1. CASE i = k + 1
      BY <3>1, <2>c
    <3>2. CASE i \in 0..k
      BY <3>2, <2>a, <2>b
    <3> QED BY <3>1, <3>2
  <2>2. Goes(T, g, n, k + 1)
    BY <2>d, <2>e DEF Goes
  <2> QED BY <2>2
<1> HIDE DEF S
<1>3. \A k \in Nat : k \in S
  BY <1>1, <1>2, NatSetInduction
<1> QED BY <1>3 DEF S

LEMMA ClimbGoes ==
    ASSUME NEW T, NEW n, NEW k \in Nat
    PROVE  Goes(T, Climb(T, n, k), n, k)
BY ClimbExists, Zenon DEF Climb

LEMMA GoesTheSame ==
    ASSUME NEW T, NEW n, NEW k \in Nat, NEW m \in Nat, k <= m,
           NEW f, Goes(T, f, n, k), NEW g, Goes(T, g, n, m)
    PROVE  \A i \in 0..k : f[i] = g[i]
<1> DEFINE S == {i \in Nat : i <= k => f[i] = g[i]}
<1>1. 0 \in S
  BY DEF Goes
<1>2. ASSUME NEW i \in Nat, i \in S
      PROVE  i + 1 \in S
  BY <1>2 DEF Goes
<1> HIDE DEF S
<1>3. \A i \in Nat : i \in S
  BY <1>1, <1>2, NatSetInduction
<1> QED BY <1>3 DEF S

\* The equations of Up.
LEMMA UpEquations ==
    ASSUME NEW T, NEW n
    PROVE  /\ UpIn(T, n, 0) = n
           /\ \A k \in Nat : UpIn(T, n, k + 1) = IF UpIn(T, n, k) = 0 THEN 0
                                                 ELSE T[UpIn(T, n, k)].parent
<1>1. UpIn(T, n, 0) = n
  BY ClimbGoes DEF UpIn, Goes
<1>2. ASSUME NEW k \in Nat
      PROVE  UpIn(T, n, k + 1) = IF UpIn(T, n, k) = 0 THEN 0 ELSE T[UpIn(T, n, k)].parent
  <2> DEFINE f == Climb(T, n, k)
             g == Climb(T, n, k + 1)
  <2>1. Goes(T, f, n, k) /\ Goes(T, g, n, k + 1)
    BY ClimbGoes
  <2> HIDE DEF f, g
  <2>2. f[k] = g[k]
    BY <2>1, GoesTheSame
  <2>3. g[k + 1] = IF g[k] = 0 THEN 0 ELSE T[g[k]].parent
    BY <2>1 DEF Goes
  <2> QED BY <2>2, <2>3 DEF UpIn, f, g
<1> QED BY <1>1, <1>2

\* The ancestors of a tag are tags, or NULL.
LEMMA UpType ==
    ASSUME NEW T, NEW L \in Nat, \A i \in 1..L : T[i].parent \in 0..(i - 1),
           NEW n \in 0..L
    PROVE  \A k \in Nat : UpIn(T, n, k) \in 0..L
<1> DEFINE S == {k \in Nat : UpIn(T, n, k) \in 0..L}
<1>1. 0 \in S
  BY UpEquations
<1>2. ASSUME NEW k \in Nat, k \in S
      PROVE  k + 1 \in S
  <2> DEFINE a == UpIn(T, n, k)
  <2>1. a \in 0..L
    BY <1>2
  <2>2. UpIn(T, n, k + 1) = IF a = 0 THEN 0 ELSE T[a].parent
    BY UpEquations, ZenonT(30)
  <2> HIDE DEF a
  <2> QED BY <2>1, <2>2
<1> HIDE DEF S
<1>3. \A k \in Nat : k \in S
  BY <1>1, <1>2, NatSetInduction
<1> QED BY <1>3 DEF S

\* To go up from the parent is to go up one more.
LEMMA UpShift ==
    ASSUME NEW T, NEW n, n # 0
    PROVE  \A k \in Nat : UpIn(T, T[n].parent, k) = UpIn(T, n, k + 1)
<1> DEFINE S == {k \in Nat : UpIn(T, T[n].parent, k) = UpIn(T, n, k + 1)}
<1>1. 0 \in S
  <2>1. UpIn(T, n, 0 + 1) = IF UpIn(T, n, 0) = 0 THEN 0 ELSE T[UpIn(T, n, 0)].parent
    BY UpEquations, 0 \in Nat, Zenon
  <2> QED BY <2>1, UpEquations
<1>2. ASSUME NEW k \in Nat, k \in S
      PROVE  k + 1 \in S
  <2> DEFINE a == UpIn(T, T[n].parent, k)
             b == UpIn(T, n, k + 1)
  <2>1. a = b
    BY <1>2
  <2>2. UpIn(T, T[n].parent, k + 1) = IF a = 0 THEN 0 ELSE T[a].parent
    BY UpEquations
  <2>3. UpIn(T, n, (k + 1) + 1) = IF b = 0 THEN 0 ELSE T[b].parent
    BY UpEquations, k + 1 \in Nat, Zenon
  <2> QED BY <2>1, <2>2, <2>3
<1> HIDE DEF S
<1>3. \A k \in Nat : k \in S
  BY <1>1, <1>2, NatSetInduction
<1> QED BY <1>3 DEF S

\* Tags that are added change nothing above the tags that are there.
LEMMA UpFrame ==
    ASSUME NEW T, NEW U, NEW L \in Nat, \A i \in 1..L : T[i].parent \in 0..(i - 1),
           \A i \in 1..L : U[i] = T[i], NEW n \in 0..L
    PROVE  \A k \in Nat : UpIn(U, n, k) = UpIn(T, n, k)
<1> DEFINE S == {k \in Nat : UpIn(U, n, k) = UpIn(T, n, k)}
<1>1. 0 \in S
  BY UpEquations
<1>2. ASSUME NEW k \in Nat, k \in S
      PROVE  k + 1 \in S
  <2> DEFINE a == UpIn(T, n, k)
             b == UpIn(U, n, k)
  <2>1. a = b
    BY <1>2
  <2>2. a \in 0..L
    BY UpType
  <2>3. UpIn(T, n, k + 1) = IF a = 0 THEN 0 ELSE T[a].parent
    BY UpEquations, ZenonT(30)
  <2>4. UpIn(U, n, k + 1) = IF b = 0 THEN 0 ELSE U[b].parent
    BY UpEquations, ZenonT(30)
  <2> HIDE DEF a, b
  <2> QED BY <2>1, <2>2, <2>3, <2>4
<1> HIDE DEF S
<1>3. \A k \in Nat : k \in S
  BY <1>1, <1>2, NatSetInduction
<1> QED BY <1>3 DEF S

--------------------------------------------------------------------------------
(* The inductive invariant *)

\* A tag is added after its parent.
Falling == \A n \in 1..Len(tree) : tree[n].parent \in 0..(n - 1)

\* A tag that is not included lies one deeper than its parent, and only the root has
\* none.
Levels ==
    \A n \in 1..Len(tree) :
        ~tree[n].included =>
            /\ tree[n].depth < n
            /\ tree[n].parent = 0 => tree[n].depth = 0
            /\ tree[n].parent # 0 => /\ ~tree[tree[n].parent].included
                                     /\ tree[n].depth = tree[tree[n].parent].depth + 1

\* The open elements are the ancestors of the innermost one.
OpenLine ==
    \A i \in 1..Len(open) :
        /\ open[i] # 0
        /\ ~tree[open[i]].included
        /\ tree[open[i]].depth + 1 = i
        /\ tree[open[i]].parent = IF i = 1 THEN 0 ELSE open[i - 1]

\* The innermost open element is the ancestor of the current tag that its depth tells.
AtCurrent ==
    /\ current = 0 <=> tree = <<>>
    /\ current = 0 => open = <<>>
    /\ current # 0 => ~tree[current].included
    /\ open # <<>> => /\ Len(open) <= tree[current].depth + 1
                      /\ UpIn(tree, current, tree[current].depth + 1 - Len(open))
                           = open[Len(open)]

\* Every tag is the child of the element that it is written in.
Written == \A n \in 1..Len(tree) : ~tree[n].included => tree[n].parent = tree[n].inside

\* Within, of tree T.
WithinIn(T, n, m) == \E k \in 0..Len(T) : UpIn(T, n, k) = m

\* Included tags are in the element that the dbp:include is written in.
Nearby ==
    \A n \in 1..Len(tree) :
        tree[n].included => WithinIn(tree, tree[n].parent, tree[n].inside)

Placed == Levels /\ OpenLine /\ AtCurrent /\ Written /\ Nearby

\* In every document: current_node is NULL only before the first tag, which is the only
\* one without a parent; every other tag lies one below its parent; and the first tag lies
\* at the top when the outermost element makes one.
Rooted ==
    /\ current = 0 <=> tree = <<>>
    /\ \A n \in 1..Len(tree) :
          /\ tree[n].parent = 0 => n = 1
          /\ tree[n].parent # 0 => tree[n].depth = tree[tree[n].parent].depth + 1
    /\ open # <<>> /\ open[1] # 0 => tree # <<>> /\ tree[1].depth = 0

IInv ==
    /\ TypeOK
    /\ Falling
    /\ Rooted
    /\ ~overrun => Placed

--------------------------------------------------------------------------------
(* What the invariant says of the operators *)

LEMMA UpFacts ==
    ASSUME TypeOK, Falling, NEW n \in 0..Len(tree)
    PROVE  /\ Up(n, 0) = n
           /\ \A k \in Nat : Up(n, k) \in 0..Len(tree)
           /\ n # 0 => \A k \in Nat : Up(tree[n].parent, k) = Up(n, k + 1)
<1>1. Up(n, 0) = n
  <2>1. Up(n, 0) = UpIn(tree, n, 0)
    BY UpIsUpIn
  <2>2. UpIn(tree, n, 0) = n
    BY UpEquations
  <2> QED BY <2>1, <2>2
<1>2. \A k \in Nat : Up(n, k) \in 0..Len(tree)
  <2>1. Len(tree) \in Nat
    BY DEF TypeOK
  <2>2. \A k \in Nat : UpIn(tree, n, k) \in 0..Len(tree)
    BY <2>1, UpType DEF Falling
  <2> QED BY <2>2, UpIsUpIn, Zenon
<1>3. n # 0 => \A k \in Nat : Up(tree[n].parent, k) = Up(n, k + 1)
  <2> SUFFICES ASSUME n # 0, NEW k \in Nat
               PROVE  Up(tree[n].parent, k) = Up(n, k + 1)
    OBVIOUS
  <2>1. UpIn(tree, tree[n].parent, k) = UpIn(tree, n, k + 1)
    BY UpShift, Zenon
  <2>2. Up(tree[n].parent, k) = UpIn(tree, tree[n].parent, k)
    BY UpIsUpIn
  <2>3. Up(n, k + 1) = UpIn(tree, n, k + 1)
    BY UpIsUpIn
  <2> QED BY <2>1, <2>2, <2>3
<1> QED BY <1>1, <1>2, <1>3

LEMMA InsideIsTop ==
    ASSUME TypeOK, OpenLine
    PROVE  Inside = IF open = <<>> THEN 0 ELSE open[Len(open)]
<1>1. {i \in 1..Len(open) : open[i] # 0} = 1..Len(open)
  BY DEF OpenLine
<1>2. CASE open = <<>>
  <2>1. 1..Len(open) = {}
    BY <1>2
  <2> QED BY <1>1, <1>2, <2>1 DEF Inside
<1>3. CASE open # <<>>
  <2> DEFINE P(i) == \A j \in 1..Len(open) : j <= i
  <2>1. Len(open) \in 1..Len(open) /\ P(Len(open))
    BY <1>3 DEF TypeOK
  <2>2. \A i \in 1..Len(open) : P(i) => i = Len(open)
    BY <2>1 DEF TypeOK
  <2>3. (CHOOSE i \in 1..Len(open) : P(i)) = Len(open)
    <3> HIDE DEF P
    <3> QED BY <2>1, <2>2
  <2>4. 1..Len(open) # {}
    BY <2>1
  <2>5. Inside = open[CHOOSE i \in 1..Len(open) : P(i)]
    <3> DEFINE tags == {i \in 1..Len(open) : open[i] # 0}
    <3>1. Inside = IF tags = {} THEN 0 ELSE open[CHOOSE i \in tags : \A j \in tags : j <= i]
      BY Zenon DEF Inside
    <3>2. tags = 1..Len(open)
      BY <1>1
    <3> HIDE DEF tags
    <3> QED BY <2>4, <3>1, <3>2
  <2> QED BY <1>3, <2>3, <2>5
<1> QED BY <1>2, <1>3

LEMMA ParentForType ==
    ASSUME TypeOK, Falling, current # 0
    PROVE  ParentFor(Depth) \in 0..Len(tree)
<1>1. current \in 1..Len(tree) /\ tree[current] \in Node
  BY DEF TypeOK
<1>2. tree[current].parent \in 0..Len(tree) /\ tree[current].depth \in Nat /\ Depth \in Nat
  BY <1>1, SMTT(30) DEF Falling, Node, Depth, TypeOK
<1>3. \A k \in Nat : Up(tree[current].parent, k) \in 0..Len(tree)
  BY <1>2, UpFacts
<1> DEFINE c == tree[current]
<1>4. CASE Depth >= c.depth
  BY <1>1, <1>2, <1>4 DEF ParentFor
<1>5. CASE Depth < c.depth
  <2> DEFINE j == c.depth - Depth
  <2>1. j \in Nat
    BY <1>2, <1>5
  <2>2. ParentFor(Depth) = Up(c.parent, j)
    BY <1>2, <1>5 DEF ParentFor
  <2> HIDE DEF j
  <2> QED BY <1>3, <2>1, <2>2
<1> QED BY <1>2, <1>4, <1>5

\* make_relationship finds the innermost open element.
LEMMA ParentIsTop ==
    ASSUME TypeOK, Falling, Placed, open # <<>>
    PROVE  /\ current # 0
           /\ ParentFor(Depth) = open[Len(open)]
           /\ open[Len(open)] \in 1..Len(tree)
<1>1. current \in 1..Len(tree) /\ tree[current] \in Node
  BY DEF TypeOK, Placed, AtCurrent
<1>2. tree[current].depth \in Nat /\ tree[current].parent \in 0..Len(tree)
  BY <1>1, SMTT(30) DEF Falling, Node, TypeOK
<1>3. Depth = Len(open) /\ Len(open) \in Nat \ {0}
  BY DEF Depth, TypeOK
<1> DEFINE c == tree[current]
           k == c.depth + 1 - Len(open)
<1>4. k \in Nat /\ Up(current, k) = open[Len(open)]
  <2>1. k \in Nat /\ UpIn(tree, current, k) = open[Len(open)]
    BY <1>2, <1>3 DEF Placed, AtCurrent
  <2>2. Up(current, k) = UpIn(tree, current, k)
    BY UpIsUpIn, Zenon
  <2> QED BY <2>1, <2>2
<1>a. \A i \in Nat : Up(c.parent, i) = Up(current, i + 1)
  <2>1. current \in 0..Len(tree) /\ current # 0
    BY <1>1
  <2> QED BY <2>1, UpFacts
<1>b. Up(current, 0) = current
  BY UpFacts DEF TypeOK
<1>5. ASSUME c.depth = Len(open)
      PROVE  ParentFor(Depth) = open[Len(open)]
  <2>1. k = 0 + 1
    BY <1>5, <1>3
  <2>2. Up(current, 0 + 1) = Up(c.parent, 0)
    BY <1>a, 0 \in Nat, Zenon
  <2>3. Up(c.parent, 0) = c.parent
    BY <1>2, UpFacts
  <2>4. ParentFor(Depth) = c.parent
    BY <1>3, <1>5 DEF ParentFor
  <2> QED BY <1>4, <2>1, <2>2, <2>3, <2>4
<1>6. ASSUME c.depth < Len(open)
      PROVE  ParentFor(Depth) = open[Len(open)]
  <2>1. k = 0
    BY <1>2, <1>3, <1>4, <1>6
  <2>2. ParentFor(Depth) = current
    BY <1>2, <1>3, <1>6 DEF ParentFor
  <2> QED BY <1>4, <1>b, <2>1, <2>2
<1>7. ASSUME c.depth > Len(open)
      PROVE  ParentFor(Depth) = open[Len(open)]
  <2> DEFINE j == c.depth - Len(open)
  <2>1. k = j + 1 /\ j \in Nat
    BY <1>2, <1>3, <1>7
  <2>2. Up(c.parent, j) = Up(current, j + 1)
    BY <1>a, <2>1, Zenon
  <2>3. ParentFor(Depth) = Up(c.parent, j)
    BY <1>2, <1>3, <1>7 DEF ParentFor
  <2> HIDE DEF j, k
  <2> QED BY <1>4, <2>1, <2>2, <2>3
<1>8. open[Len(open)] \in 1..Len(tree)
  BY <1>3 DEF Placed, OpenLine, TypeOK
<1>9. ParentFor(Depth) = open[Len(open)]
  BY <1>2, <1>3, <1>5, <1>6, <1>7
<1> QED BY <1>1, <1>8, <1>9

\* The current tag is in the innermost open element.
LEMMA CurrentWithin ==
    ASSUME TypeOK, Falling, Placed, open # <<>>
    PROVE  WithinIn(tree, current, open[Len(open)])
<1>1. current \in 1..Len(tree) /\ tree[current] \in Node
  BY DEF TypeOK, Placed, AtCurrent
<1>2. tree[current].depth \in Nat /\ Len(open) \in Nat \ {0}
  BY <1>1 DEF Node, TypeOK
<1>3. tree[current].depth < current
  BY <1>1 DEF Placed, AtCurrent, Levels
<1> DEFINE k == tree[current].depth + 1 - Len(open)
<1>4. k \in 0..Len(tree) /\ UpIn(tree, current, k) = open[Len(open)]
  BY <1>1, <1>2, <1>3 DEF Placed, AtCurrent
<1> HIDE DEF k
<1> QED BY <1>4 DEF WithinIn

--------------------------------------------------------------------------------
(* What a step does *)

\* add_child leaves everything above the other tags alone.
LEMMA Grows ==
    ASSUME TypeOK, Falling, NEW node \in Node, node.parent \in 0..Len(tree),
           tree' = Append(tree, node)
    PROVE  /\ tree' \in Seq(Node) /\ Len(tree') = Len(tree) + 1 /\ Len(tree) \in Nat
           /\ tree'[Len(tree) + 1] = node
           /\ \A i \in 1..Len(tree) : tree'[i] = tree[i]
           /\ Falling'
           /\ \A n \in 0..Len(tree), k \in Nat : UpIn(tree', n, k) = UpIn(tree, n, k)
           /\ \A n \in 0..Len(tree) : \A m : WithinIn(tree, n, m) => WithinIn(tree', n, m)
<1>1. /\ tree' \in Seq(Node) /\ Len(tree') = Len(tree) + 1 /\ Len(tree) \in Nat
      /\ tree'[Len(tree) + 1] = node
      /\ \A i \in 1..Len(tree) : tree'[i] = tree[i]
  BY DEF TypeOK
<1>2. Falling'
  BY <1>1 DEF Falling
<1>3. ASSUME NEW n \in 0..Len(tree), NEW k \in Nat
      PROVE  UpIn(tree', n, k) = UpIn(tree, n, k)
  <2> DEFINE L == Len(tree)
  <2>1. L \in Nat /\ n \in 0..L /\ (\A i \in 1..L : tree[i].parent \in 0..(i - 1))
        /\ \A i \in 1..L : tree'[i] = tree[i]
    BY <1>1 DEF Falling
  <2> HIDE DEF L
  <2> QED BY <2>1, UpFrame, ZenonT(30)
<1>4. ASSUME NEW n \in 0..Len(tree), NEW m, WithinIn(tree, n, m)
      PROVE  WithinIn(tree', n, m)
  <2>1. PICK k \in 0..Len(tree) : UpIn(tree, n, k) = m
    BY <1>4 DEF WithinIn
  <2>2. UpIn(tree', n, k) = m /\ k \in 0..Len(tree')
    BY <1>1, <1>3, <2>1
  <2> QED BY <2>2 DEF WithinIn
<1> QED BY <1>1, <1>2, <1>3, <1>4

LEMMA InsideType ==
    ASSUME TypeOK
    PROVE  Inside \in 0..Len(tree) /\ Depth \in Nat
<1> DEFINE tags == {i \in 1..Len(open) : open[i] # 0}
<1>1. Inside = IF tags = {} THEN 0 ELSE open[CHOOSE i \in tags : \A j \in tags : j <= i]
  BY Zenon DEF Inside
<1>2. tags \in SUBSET (0..Len(open)) /\ tags \in SUBSET (1..Len(open)) /\ Len(open) \in Nat
  BY DEF TypeOK
<1>3. \A i \in 1..Len(open) : open[i] \in 0..Len(tree)
  BY DEF TypeOK
<1>4. Len(tree) \in Nat
  BY DEF TypeOK
<1> HIDE DEF tags
<1>5. CASE tags # {}
  <2>1. \E i \in tags : \A j \in tags : j <= i
    BY <1>2, <1>5, GreatestElement
  <2>2. (CHOOSE i \in tags : \A j \in tags : j <= i) \in tags
    BY <2>1
  <2> QED BY <1>1, <1>2, <1>3, <1>5, <2>2 DEF Depth
<1> QED BY <1>1, <1>2, <1>4, <1>5 DEF Depth

\* An element that begins.
LEMMA OpensType ==
    ASSUME TypeOK, NEW n \in 0..Len(tree'), NEW empty \in BOOLEAN, Opens(n, empty),
           Len(tree') \in Nat, Len(tree) <= Len(tree')
    PROVE  open' \in Seq(0..Len(tree'))
<1>1. open \in Seq(0..Len(tree'))
  <2>1. open \in [1..Len(open) -> 0..Len(tree')] /\ Len(open) \in Nat
    BY DEF TypeOK
  <2> QED BY <2>1
<1>2. CASE empty
  BY <1>1, <1>2 DEF Opens
<1>3. CASE ~empty
  BY <1>1, <1>3 DEF Opens
<1> QED BY <1>2, <1>3

\* A tag that is added where it is written keeps the tags in place.
LEMMA TreeStays ==
    ASSUME TypeOK, Falling, Placed, NEW node \in Node, node.parent \in 1..Len(tree),
           tree' = Append(tree, node),
           ~node.included => /\ node.depth = tree[node.parent].depth + 1
                             /\ ~tree[node.parent].included
                             /\ node.parent = node.inside,
           node.included => WithinIn(tree, node.parent, node.inside)
    PROVE  Levels' /\ Written' /\ Nearby'
<1>1. /\ tree' \in Seq(Node) /\ Len(tree') = Len(tree) + 1 /\ Len(tree) \in Nat
      /\ tree'[Len(tree) + 1] = node
      /\ \A i \in 1..Len(tree) : tree'[i] = tree[i] /\ tree[i] \in Node
      /\ \A n \in 0..Len(tree) : \A m : WithinIn(tree, n, m) => WithinIn(tree', n, m)
  <2>1. \A i \in 1..Len(tree) : tree[i] \in Node
    BY DEF TypeOK
  <2> QED BY <2>1, Grows
<1>2. \A n \in 1..Len(tree') : n \in 1..Len(tree) \/ n = Len(tree) + 1
  BY <1>1
<1>3. Levels'
  <2> SUFFICES ASSUME NEW n \in 1..Len(tree'), ~tree'[n].included
               PROVE  /\ tree'[n].depth < n
                      /\ tree'[n].parent = 0 => tree'[n].depth = 0
                      /\ tree'[n].parent # 0 =>
                            /\ ~tree'[tree'[n].parent].included
                            /\ tree'[n].depth = tree'[tree'[n].parent].depth + 1
    BY DEF Levels
  <2>1. CASE n \in 1..Len(tree)
    <3>1. tree[n].parent # 0 => tree[n].parent \in 1..Len(tree)
      BY <2>1 DEF Falling
    <3> QED BY <1>1, <2>1, <3>1 DEF Levels, Placed
  <2>2. CASE n = Len(tree) + 1
    <3>1. tree[node.parent].depth < node.parent /\ tree[node.parent].depth \in Nat
      BY <1>1, <2>2 DEF Levels, Placed, Node
    <3> QED BY <1>1, <2>2, <3>1
  <2> QED BY <1>2, <2>1, <2>2
<1>4. Written'
  BY <1>1, <1>2 DEF Written, Placed
<1>5. Nearby'
  <2> SUFFICES ASSUME NEW n \in 1..Len(tree'), tree'[n].included
               PROVE  WithinIn(tree', tree'[n].parent, tree'[n].inside)
    BY DEF Nearby
  <2>1. CASE n \in 1..Len(tree)
    <3>1. tree[n].parent \in 0..Len(tree)
      BY <2>1 DEF Falling
    <3>2. WithinIn(tree, tree[n].parent, tree[n].inside) /\ tree'[n] = tree[n]
      BY <1>1, <2>1 DEF Nearby, Placed
    <3> QED BY <1>1, <3>1, <3>2
  <2>2. CASE n = Len(tree) + 1
    BY <1>1, <2>2
  <2> QED BY <1>2, <2>1, <2>2
<1> QED BY <1>3, <1>4, <1>5

\* The open elements stay what they are when a tag is added.
LEMMA OpenStays ==
    ASSUME TypeOK, OpenLine, \A i \in 1..Len(tree) : tree'[i] = tree[i],
           NEW i \in 1..Len(open)
    PROVE  /\ open[i] \in 1..Len(tree)
           /\ ~tree'[open[i]].included
           /\ tree'[open[i]].depth + 1 = i
           /\ tree'[open[i]].parent = IF i = 1 THEN 0 ELSE open[i - 1]
<1>1. open[i] \in 1..Len(tree)
  BY DEF TypeOK, OpenLine
<1> QED BY <1>1 DEF OpenLine

--------------------------------------------------------------------------------
(* Every step keeps the invariant *)

LEMMA Unmoved ==
    ASSUME IInv, UNCHANGED <<tree, current, open, overrun>>,
           outcome' \in {"reading", "parsed", "rejected", "crashed", "rootless"}
    PROVE  IInv'
BY DEF IInv, TypeOK, Falling, Rooted, Placed, Levels, OpenLine, AtCurrent, Written, Nearby

LEMMA RootStep ==
    ASSUME IInv, RootElement
    PROVE  IInv'
<1>1. PICK module \in BOOLEAN, empty \in BOOLEAN :
         Opens(1, empty) /\ Adds(0, module, FALSE)
  BY DEF RootElement
<1> DEFINE node == [parent |-> 0, module |-> module, included |-> FALSE, depth |-> Depth,
                    inside |-> Inside]
<1>2. node \in Node /\ node.parent \in 0..Len(tree)
  BY InsideType DEF IInv, TypeOK, Node
<1>3. tree' = Append(tree, node)
  <2>1. (IF 0 = 0 THEN Depth ELSE tree[0].depth + 1) = Depth
    OBVIOUS
  <2> QED BY <1>1, <2>1, Zenon DEF Adds
<1>4. /\ tree' \in Seq(Node) /\ Len(tree') = Len(tree) + 1 /\ Len(tree) \in Nat
      /\ tree'[Len(tree) + 1] = node
      /\ Falling'
  BY <1>2, <1>3, Grows DEF IInv
<1>5. TypeOK'
  <2>1. open' \in Seq(0..Len(tree'))
    BY <1>1, <1>4, OpensType DEF IInv
  <2> QED BY <1>4, <2>1 DEF IInv, TypeOK, RootElement
<1>6. ASSUME ~overrun'
      PROVE  Placed'
  <2>1. tree = <<>> /\ open = <<>> /\ current = 0 /\ Placed
    BY <1>6 DEF RootElement, IInv, Placed, AtCurrent
  <2>2. Inside = 0 /\ Depth = 0
    BY <2>1, InsideIsTop DEF IInv, Placed, Depth
  <2>3. Len(tree') = 1 /\ tree'[1] = node /\ tree' # <<>>
    BY <1>4, <2>1, SMTT(30)
  <2>4. /\ node.depth = 0 /\ node.inside = 0 /\ node.parent = 0 /\ node.included = FALSE
        /\ current' = 1 /\ (open' = <<>> \/ open' = <<1>>)
    BY <1>1, <2>1, <2>2 DEF RootElement, Opens
  <2> HIDE DEF node
  <2>5. Levels' /\ Written' /\ Nearby'
    BY <2>3, <2>4 DEF Levels, Written, Nearby
  <2>6. OpenLine'
    BY <2>3, <2>4 DEF OpenLine
  <2>7. AtCurrent'
    <3>1. UpIn(tree', 1, 0) = 1
      BY UpEquations
    <3>2. open' = <<1>> => /\ Len(open') = 1 /\ open'[Len(open')] = 1
                           /\ tree'[current'].depth + 1 - Len(open') = 0
      BY <2>3, <2>4
    <3> QED BY <2>3, <2>4, <3>1, <3>2 DEF AtCurrent
  <2> QED BY <2>5, <2>6, <2>7 DEF Placed
<1>7. Rooted'
  <2>1. tree = <<>> /\ current = 0 /\ current' = 1
    BY DEF RootElement, IInv, Rooted
  <2>2. Len(tree') = 1 /\ tree'[1] = node /\ tree' # <<>>
    BY <1>4, <2>1, SMTT(30)
  <2>3. node.parent = 0 /\ node.depth = Len(open)
    BY DEF Depth
  <2> HIDE DEF node
  <2>4. ASSUME open' # <<>>, open'[1] # 0
        PROVE  tree'[1].depth = 0
    <3>1. open = <<>> \/ open'[1] = open[1]
      BY <1>1 DEF Opens, IInv, TypeOK
    <3>2. open = <<>>
      BY <2>1, <2>4, <3>1 DEF IInv, Rooted
    <3> QED BY <2>2, <2>3, <3>2
  <2> QED BY <2>1, <2>2, <2>3, <2>4 DEF Rooted
<1> QED BY <1>4, <1>5, <1>6, <1>7 DEF IInv

\* What stays at the top when a tag is added below another one.
LEMMA RootedStays ==
    ASSUME IInv, NEW p \in 1..Len(tree), tree' \in Seq(Node),
           Len(tree') = Len(tree) + 1,
           tree'[Len(tree) + 1].parent = p,
           tree'[Len(tree) + 1].depth = tree[p].depth + 1,
           \A i \in 1..Len(tree) : tree'[i] = tree[i],
           current' # 0,
           open' # <<>> /\ open'[1] # 0 => open # <<>> /\ open[1] # 0
    PROVE  Rooted'
<1>1. Len(tree) \in Nat /\ tree' # <<>> /\ 1 \in 1..Len(tree)
  BY DEF IInv, TypeOK
<1>2. ASSUME NEW n \in 1..Len(tree')
      PROVE  /\ tree'[n].parent = 0 => n = 1
             /\ tree'[n].parent # 0 => tree'[n].depth = tree'[tree'[n].parent].depth + 1
  <2>1. CASE n = Len(tree) + 1
    BY <1>1, <2>1
  <2>2. CASE n \in 1..Len(tree)
    <3>1. tree'[n] = tree[n] /\ tree[n].parent \in 0..(n - 1)
      BY <2>2 DEF IInv, Falling
    <3>2. tree[n].parent # 0 => tree'[tree[n].parent] = tree[tree[n].parent]
      BY <1>1, <2>2, <3>1
    <3> QED BY <2>2, <3>1, <3>2 DEF IInv, Rooted
  <2> QED BY <1>1, <2>1, <2>2
<1>3. open' # <<>> /\ open'[1] # 0 => tree'[1].depth = 0
  BY <1>1 DEF IInv, Rooted
<1> QED BY <1>1, <1>2, <1>3 DEF Rooted

\* The outermost open element stays when another one begins in it.
LEMMA OutermostStays ==
    ASSUME TypeOK, NEW n, NEW empty \in BOOLEAN, Opens(n, empty), open # <<>> \/ n = 0,
           open' # <<>>, open'[1] # 0
    PROVE  open # <<>> /\ open[1] # 0
BY DEF Opens, TypeOK

\* The facts that Element, Text and Include share: a tag is added below parent p.
LEMMA AddedBelow ==
    ASSUME TypeOK, Falling, NEW p \in 1..Len(tree), NEW module \in BOOLEAN,
           NEW included \in BOOLEAN, Adds(p, module, included)
    PROVE  /\ Len(tree') = Len(tree) + 1 /\ Len(tree) \in Nat
           /\ tree' \in Seq(Node) /\ Falling' /\ tree' # <<>>
           /\ tree'[Len(tree) + 1].parent = p
           /\ tree'[Len(tree) + 1].depth = tree[p].depth + 1
           /\ tree'[Len(tree) + 1].included = included
           /\ \A i \in 1..Len(tree) : tree'[i] = tree[i]
           /\ \A n \in 0..Len(tree), k \in Nat : UpIn(tree', n, k) = UpIn(tree, n, k)
           /\ Placed /\ open # <<>> /\ (included => p = current)
                     /\ (~included => p = open[Len(open)])
                => Levels' /\ Written' /\ Nearby'
<1> DEFINE node == [parent |-> p, module |-> module, included |-> included,
                    depth |-> tree[p].depth + 1, inside |-> Inside]
<1>0. tree[p] \in Node
  BY DEF TypeOK
<1>1. node \in Node /\ node.parent \in 0..Len(tree) /\ node.parent = p
      /\ node.included = included /\ node.depth = tree[p].depth + 1 /\ node.inside = Inside
  BY <1>0, InsideType, SMTT(30) DEF TypeOK, Node, Depth
<1>2. tree' = Append(tree, node)
  <2>1. (IF p = 0 THEN Depth ELSE tree[p].depth + 1) = tree[p].depth + 1
    OBVIOUS
  <2> QED BY <2>1, Zenon DEF Adds
<1> HIDE DEF node
<1>3. /\ Len(tree') = Len(tree) + 1 /\ Len(tree) \in Nat
      /\ tree' \in Seq(Node) /\ Falling'
      /\ tree'[Len(tree) + 1] = node
      /\ \A i \in 1..Len(tree) : tree'[i] = tree[i]
      /\ \A n \in 0..Len(tree), k \in Nat : UpIn(tree', n, k) = UpIn(tree, n, k)
  BY <1>1, <1>2, Grows
<1>4. tree' # <<>>
  BY <1>3
<1>5. ASSUME Placed, open # <<>>, included => p = current,
             ~included => p = open[Len(open)]
      PROVE  Levels' /\ Written' /\ Nearby'
  <2>1. Inside = open[Len(open)]
    BY <1>5, InsideIsTop DEF Placed
  <2>2. ~included => tree[p].depth + 1 = Len(open) /\ ~tree[p].included
    <3>1. Len(open) \in 1..Len(open)
      BY <1>5 DEF TypeOK
    <3> QED BY <1>5, <3>1 DEF Placed, OpenLine
  <2>3. included => WithinIn(tree, p, Inside)
    BY <1>5, <2>1, CurrentWithin
  <2> QED BY <1>1, <1>2, <1>5, <2>1, <2>2, <2>3, TreeStays
<1> QED BY <1>1, <1>3, <1>4, <1>5

LEMMA OpenWhenMore ==
    ASSUME TypeOK, AtCurrent, MoreTags, current # 0
    PROVE  open # <<>>
BY DEF AtCurrent, MoreTags, Begun

LEMMA ElementStep ==
    ASSUME IInv, Element
    PROVE  IInv'
<1> DEFINE p == ParentFor(Depth)
<1>1. CASE p = 0
  <2>1. UNCHANGED <<tree, current, open, overrun>>
        /\ outcome' \in {"rejected", "crashed"}
    BY <1>1 DEF Element, Refuses, Rejects, Crashes
  <2> QED BY <2>1, Unmoved
<1>2. CASE p # 0
  <2>1. PICK module \in BOOLEAN, empty \in BOOLEAN :
           Opens(Len(tree) + 1, empty) /\ Adds(p, module, FALSE)
    BY <1>2 DEF Element
  <2>2. /\ current' = Len(tree) + 1 /\ UNCHANGED <<overrun, outcome>>
        /\ MoreTags /\ current # 0
    BY <1>2 DEF Element
  <2>3. p \in 1..Len(tree)
    BY <1>2, <2>2, ParentForType DEF IInv
  <2> HIDE DEF p
  <2> DEFINE N == Len(tree) + 1
  <2>4. /\ Len(tree') = N /\ N \in Nat \ {0}
        /\ tree' \in Seq(Node) /\ Falling' /\ tree' # <<>>
        /\ tree'[N].parent = p /\ tree'[N].depth = tree[p].depth + 1
        /\ tree'[N].included = FALSE
        /\ \A i \in 1..Len(tree) : tree'[i] = tree[i]
        /\ \A n \in 0..Len(tree), k \in Nat : UpIn(tree', n, k) = UpIn(tree, n, k)
    <3>1. TypeOK /\ Falling /\ Adds(p, module, FALSE) /\ FALSE \in BOOLEAN
      BY <2>1 DEF IInv
    <3>2. /\ Len(tree') = Len(tree) + 1 /\ Len(tree) \in Nat
          /\ tree' \in Seq(Node) /\ Falling' /\ tree' # <<>>
          /\ tree'[Len(tree) + 1].parent = p
          /\ tree'[Len(tree) + 1].depth = tree[p].depth + 1
          /\ tree'[Len(tree) + 1].included = FALSE
          /\ \A i \in 1..Len(tree) : tree'[i] = tree[i]
          /\ \A n \in 0..Len(tree), k \in Nat : UpIn(tree', n, k) = UpIn(tree, n, k)
      BY <2>3, <3>1, AddedBelow, Zenon
    <3> QED BY <3>2
  <2> HIDE DEF N
  <2>5. TypeOK'
    <3>1. open' \in Seq(0..Len(tree'))
      BY <2>1, <2>4, OpensType DEF IInv, N
    <3> QED BY <2>2, <2>4, <3>1 DEF IInv, TypeOK, N
  <2>6. ASSUME ~overrun'
        PROVE  Placed'
    <3>1. Placed /\ open # <<>>
      BY <2>2, <2>6, OpenWhenMore DEF IInv, Placed
    <3>2. p = open[Len(open)]
      BY <3>1, ParentIsTop DEF IInv, p
    <3>3. Levels' /\ Written' /\ Nearby'
      BY <2>1, <2>3, <3>1, <3>2, AddedBelow DEF IInv
    <3>4. \A i \in 1..Len(open) :
             /\ open[i] \in 1..Len(tree)
             /\ ~tree'[open[i]].included
             /\ tree'[open[i]].depth + 1 = i
             /\ tree'[open[i]].parent = IF i = 1 THEN 0 ELSE open[i - 1]
      BY <2>4, <3>1, OpenStays DEF IInv, Placed
    <3>5. Len(open) \in Nat \ {0} /\ open \in Seq(0..Len(tree))
      BY <3>1 DEF IInv, TypeOK
    <3>a. tree'[N].depth = Len(open)
      <4>1. Len(open) \in 1..Len(open) /\ tree[open[Len(open)]].depth + 1 = Len(open)
        BY <3>1, <3>5 DEF Placed, OpenLine
      <4> QED BY <2>4, <3>2, <4>1
    <3>6. CASE empty
      <4>1. open' = open
        BY <2>1, <3>6 DEF Opens
      <4>2. OpenLine'
        BY <3>4, <4>1 DEF OpenLine
      <4>3. UpIn(tree', N, 0 + 1) = p
        <5>1. UpIn(tree', N, 0) = N
          BY UpEquations
        <5>2. UpIn(tree', N, 0 + 1) = IF UpIn(tree', N, 0) = 0 THEN 0
                                      ELSE tree'[UpIn(tree', N, 0)].parent
          BY UpEquations, 0 \in Nat, Zenon
        <5> QED BY <2>4, <5>1, <5>2
      <4>4. tree'[current'].depth + 1 - Len(open') = 0 + 1
        BY <2>2, <2>4, <3>5, <3>a, <4>1 DEF N
      <4>5. UpIn(tree', current', tree'[current'].depth + 1 - Len(open')) = open'[Len(open')]
        BY <2>2, <3>2, <4>1, <4>3, <4>4 DEF N
      <4>6. AtCurrent'
        BY <2>2, <2>4, <3>1, <3>5, <3>a, <4>1, <4>5 DEF AtCurrent, N
      <4> QED BY <3>3, <4>2, <4>6 DEF Placed
    <3>7. CASE ~empty
      <4>1. open' = Append(open, N)
        BY <2>1, <3>7 DEF Opens, N
      <4>2. /\ Len(open') = Len(open) + 1 /\ open'[Len(open) + 1] = N /\ open' # <<>>
            /\ \A i \in 1..Len(open) : open'[i] = open[i]
        BY <3>5, <4>1
      <4>3. OpenLine'
        <5> SUFFICES ASSUME NEW i \in 1..Len(open')
                     PROVE  /\ open'[i] # 0
                            /\ ~tree'[open'[i]].included
                            /\ tree'[open'[i]].depth + 1 = i
                            /\ tree'[open'[i]].parent = IF i = 1 THEN 0 ELSE open'[i - 1]
          BY DEF OpenLine
        <5>1. CASE i \in 1..Len(open)
          <6>1. open'[i] = open[i] /\ (i # 1 => open'[i - 1] = open[i - 1])
            BY <3>5, <4>2, <5>1
          <6> QED BY <3>4, <5>1, <6>1
        <5>2. CASE i = Len(open) + 1
          <6>1. open'[i] = N /\ i # 1 /\ open'[i - 1] = p
            BY <3>2, <3>5, <4>2, <5>2
          <6> QED BY <2>4, <3>5, <3>a, <5>2, <6>1
        <5> QED BY <3>5, <4>2, <5>1, <5>2
      <4>4. tree'[current'].depth + 1 - Len(open') = 0
        BY <2>2, <2>4, <3>5, <3>a, <4>2 DEF N
      <4>5. UpIn(tree', N, 0) = N
        BY UpEquations
      <4>6. UpIn(tree', current', tree'[current'].depth + 1 - Len(open')) = open'[Len(open')]
        BY <2>2, <4>2, <4>4, <4>5 DEF N
      <4>7. AtCurrent'
        BY <2>2, <2>4, <3>5, <3>a, <4>2, <4>6 DEF AtCurrent, N
      <4> QED BY <3>3, <4>3, <4>7 DEF Placed
    <3> QED BY <3>6, <3>7
  <2>7. Rooted'
    <3>1. open # <<>>
      BY <2>2 DEF MoreTags, Begun, IInv, Rooted
    <3>2. open' # <<>> /\ open'[1] # 0 => open # <<>> /\ open[1] # 0
      BY <2>1, <3>1, OutermostStays DEF IInv
    <3> QED BY <2>2, <2>3, <2>4, <3>2, RootedStays DEF N
  <2> QED BY <2>4, <2>5, <2>6, <2>7 DEF IInv
<1> QED BY <1>1, <1>2

\* Text and dbp:include: the current tag and the open elements stay.
LEMMA AddStep ==
    ASSUME IInv, NEW p \in 1..Len(tree), NEW included \in BOOLEAN,
           Adds(p, FALSE, included), NEW n \in {0}, NEW empty \in BOOLEAN, Opens(n, empty),
           current # 0, MoreTags, UNCHANGED <<current, outcome>>,
           overrun' = (overrun \/ ~empty),
           ~overrun => (included => p = current) /\ (~included => p = open[Len(open)])
    PROVE  IInv'
<1>1. TypeOK /\ Falling /\ FALSE \in BOOLEAN
  BY DEF IInv
<1>2. /\ Len(tree') = Len(tree) + 1 /\ Len(tree) \in Nat
      /\ tree' \in Seq(Node) /\ Falling' /\ tree' # <<>>
      /\ tree'[Len(tree) + 1].parent = p
      /\ tree'[Len(tree) + 1].depth = tree[p].depth + 1
      /\ \A i \in 1..Len(tree) : tree'[i] = tree[i]
      /\ \A m \in 0..Len(tree), k \in Nat : UpIn(tree', m, k) = UpIn(tree, m, k)
  BY <1>1, AddedBelow, Zenon
<1>3. TypeOK'
  <2>1. open' \in Seq(0..Len(tree'))
    BY <1>1, <1>2, OpensType
  <2> QED BY <1>1, <1>2, <2>1 DEF TypeOK
<1>4. ASSUME ~overrun'
      PROVE  Placed'
  <2>1. Placed /\ ~overrun /\ empty
    BY <1>4 DEF IInv
  <2>2. open # <<>> /\ open' = open
    BY <1>1, <2>1, OpenWhenMore DEF Placed, Opens
  <2>3. Levels' /\ Written' /\ Nearby'
    BY <1>1, <2>1, <2>2, AddedBelow, Zenon
  <2>4. \A i \in 1..Len(open) :
           /\ open[i] \in 1..Len(tree)
           /\ ~tree'[open[i]].included
           /\ tree'[open[i]].depth + 1 = i
           /\ tree'[open[i]].parent = IF i = 1 THEN 0 ELSE open[i - 1]
    BY <1>1, <1>2, <2>1, OpenStays DEF Placed
  <2>5. OpenLine'
    BY <2>2, <2>4 DEF OpenLine
  <2>6. AtCurrent'
    <3>1. current \in 1..Len(tree) /\ tree'[current] = tree[current] /\ tree[current] \in Node
      BY <1>1, <1>2 DEF TypeOK
    <3> DEFINE k == tree[current].depth + 1 - Len(open)
    <3>2. k \in Nat /\ UpIn(tree, current, k) = open[Len(open)]
          /\ Len(open) <= tree[current].depth + 1 /\ ~tree[current].included
      <4>1. tree[current].depth \in Nat /\ Len(open) \in Nat
        BY <1>1, <3>1, SMTT(30) DEF Node, TypeOK
      <4> QED BY <2>1, <2>2, <4>1 DEF Placed, AtCurrent
    <3>3. UpIn(tree', current, k) = open[Len(open)]
      BY <1>2, <3>1, <3>2
    <3> QED BY <1>2, <2>2, <3>1, <3>2, <3>3 DEF AtCurrent
  <2> QED BY <2>3, <2>5, <2>6 DEF Placed
<1>5. Rooted'
  <2>1. open' # <<>> /\ open'[1] # 0 => open # <<>> /\ open[1] # 0
    BY <1>1, OutermostStays
  <2> QED BY <1>2, <2>1, RootedStays
<1> QED BY <1>2, <1>3, <1>4, <1>5 DEF IInv

LEMMA TextStep ==
    ASSUME IInv, Text
    PROVE  IInv'
<1> DEFINE p == ParentFor(Depth)
<1>1. CASE p = 0
  <2>1. UNCHANGED <<tree, current, open, overrun>>
        /\ outcome' \in {"rejected", "crashed"}
    BY <1>1 DEF Text, Refuses, Rejects, Crashes
  <2> QED BY <2>1, Unmoved
<1>2. CASE p # 0
  <2>1. /\ Adds(p, FALSE, FALSE) /\ UNCHANGED <<current, open, overrun, outcome>>
        /\ MoreTags /\ current # 0 /\ open # <<>>
    BY <1>2 DEF Text
  <2>2. p \in 1..Len(tree)
    BY <1>2, <2>1, ParentForType DEF IInv
  <2>3. ~overrun => p = open[Len(open)]
    BY <2>1, ParentIsTop DEF IInv
  <2> HIDE DEF p
  <2>4. Opens(0, TRUE) /\ overrun' = (overrun \/ ~TRUE) /\ 0 \in {0}
        /\ TRUE \in BOOLEAN /\ FALSE \in BOOLEAN
    BY <2>1 DEF Opens, IInv, TypeOK
  <2>5. ~overrun => (FALSE => p = current) /\ (~FALSE => p = open[Len(open)])
    BY <2>3
  <2> QED BY <2>1, <2>2, <2>4, <2>5, AddStep, Zenon
<1> QED BY <1>1, <1>2

LEMMA NoTagStep ==
    ASSUME IInv, NoTag
    PROVE  IInv'
<1>1. PICK empty \in BOOLEAN :
         Opens(0, empty) /\ overrun' = (overrun \/ ~empty \/ open = <<>>)
  BY DEF NoTag
<1>2. UNCHANGED <<tree, current, outcome>>
  BY DEF NoTag
<1>3. TypeOK'
  <2>1. Len(tree') \in Nat /\ Len(tree) <= Len(tree') /\ 0 \in 0..Len(tree')
    BY <1>2 DEF IInv, TypeOK
  <2>2. open' \in Seq(0..Len(tree'))
    BY <1>1, <2>1, OpensType DEF IInv
  <2> QED BY <1>1, <1>2, <2>2 DEF IInv, TypeOK
<1>4. ASSUME ~overrun'
      PROVE  IInv'
  <2>1. open' = open /\ overrun' = overrun
    BY <1>1, <1>4 DEF Opens, IInv, TypeOK
  <2> QED BY <1>2, <2>1, Unmoved DEF IInv, TypeOK
<1>5. ASSUME overrun'
      PROVE  IInv'
  <2>1. Falling'
    BY <1>2 DEF IInv, Falling
  <2>2. open' # <<>> /\ open'[1] # 0 => open # <<>> /\ open[1] # 0
    BY <1>1, OutermostStays DEF IInv
  <2>3. Rooted'
    BY <1>2, <2>2 DEF IInv, Rooted
  <2> QED BY <1>3, <1>5, <2>1, <2>3 DEF IInv
<1> QED BY <1>4, <1>5

LEMMA IncludeStep ==
    ASSUME IInv, Include
    PROVE  IInv'
<1>1. CASE /\ UNCHANGED <<tree, current, open, overrun>>
           /\ outcome' \in {"crashed", "rootless"}
  BY <1>1, Unmoved
<1>2. CASE NoTag
  BY <1>2, NoTagStep
<1>3. CASE /\ current # 0 /\ Adds(current, FALSE, TRUE) /\ UNCHANGED <<current, outcome>>
           /\ \E empty \in BOOLEAN : Opens(0, empty) /\ overrun' = (overrun \/ ~empty)
  <2>1. PICK empty \in BOOLEAN : Opens(0, empty) /\ overrun' = (overrun \/ ~empty)
    BY <1>3
  <2>2. Adds(current, FALSE, TRUE) /\ UNCHANGED <<current, outcome>> /\ MoreTags
    BY <1>3 DEF Include
  <2>3. current \in 1..Len(tree) /\ 0 \in {0} /\ TRUE \in BOOLEAN
    BY <1>3 DEF IInv, TypeOK
  <2>4. ~overrun => (TRUE => current = current) /\ (~TRUE => current = open[Len(open)])
    OBVIOUS
  <2> QED BY <1>3, <2>1, <2>2, <2>3, <2>4, AddStep, Zenon
<1> QED BY <1>1, <1>2, <1>3 DEF Include, Crashes

LEMMA AllButLast ==
    ASSUME NEW S, NEW s \in Seq(S), s # <<>>
    PROVE  /\ SubSeq(s, 1, Len(s) - 1) \in Seq(S)
           /\ Len(SubSeq(s, 1, Len(s) - 1)) = Len(s) - 1
           /\ \A i \in 1..(Len(s) - 1) : SubSeq(s, 1, Len(s) - 1)[i] = s[i]
<1> DEFINE l == Len(s) - 1
<1>1. l \in Nat /\ \A i \in 1..l : s[i] \in S
  OBVIOUS
<1> HIDE DEF l
<1>2. /\ SubSeq(s, 1, l) \in Seq(S)
      /\ Len(SubSeq(s, 1, l)) = l
      /\ \A i \in 1..l : SubSeq(s, 1, l)[i] = s[i]
  BY <1>1, SubSeqProperties
<1> QED BY <1>2 DEF l

LEMMA EndStep ==
    ASSUME IInv, EndElement
    PROVE  IInv'
<1>1. CASE current = 0
  <2>1. UNCHANGED <<tree, current, open, overrun>> /\ outcome' = "crashed"
    BY <1>1 DEF EndElement, Crashes
  <2> QED BY <2>1, Unmoved
<1>2. CASE current # 0
  <2> DEFINE c == tree[current]
             L == Len(open)
  <2>1. /\ current' = IF c.module \/ c.parent = 0 THEN current ELSE c.parent
        /\ open' = SubSeq(open, 1, L - 1) /\ UNCHANGED <<tree, overrun, outcome>>
        /\ open # <<>>
    BY <1>2 DEF EndElement
  <2>2. TypeOK /\ Falling /\ current \in 1..Len(tree) /\ c \in Node /\ L \in Nat \ {0}
    BY <1>2, <2>1 DEF IInv, TypeOK
  <2>3. c.parent \in 0..Len(tree) /\ c.depth \in Nat
    BY <2>2, SMTT(30) DEF Falling, Node, TypeOK
  <2>4. /\ open' \in Seq(0..Len(tree)) /\ Len(open') = L - 1
        /\ \A i \in 1..(L - 1) : open'[i] = open[i]
    BY <2>1, <2>2, AllButLast DEF TypeOK
  <2>5. current' \in 1..Len(tree)
    BY <2>1, <2>2, <2>3
  <2>6. TypeOK' /\ Falling'
    BY <2>1, <2>2, <2>4, <2>5 DEF TypeOK, Falling
  <2>7. ASSUME ~overrun'
        PROVE  Placed'
    <3>1. Placed
      BY <2>1, <2>7 DEF IInv
    <3>2. Levels' /\ Written' /\ Nearby'
      BY <2>1, <3>1 DEF Placed, Levels, Written, Nearby
    <3>3. OpenLine'
      <4> SUFFICES ASSUME NEW i \in 1..(L - 1)
                   PROVE  /\ open'[i] # 0
                          /\ ~tree[open'[i]].included
                          /\ tree[open'[i]].depth + 1 = i
                          /\ tree[open'[i]].parent = IF i = 1 THEN 0 ELSE open'[i - 1]
        BY <2>1, <2>4 DEF OpenLine
      <4>1. i \in 1..L /\ open'[i] = open[i] /\ (i # 1 => open'[i - 1] = open[i - 1])
        BY <2>2, <2>4
      <4> QED BY <3>1, <4>1 DEF Placed, OpenLine
    <3>4. ~tree[current'].included /\ (current' # current => tree[current'].depth + 1 = c.depth)
      BY <1>2, <2>1, <2>2, <2>3, <3>1 DEF Placed, AtCurrent, Levels
    <3>5. ASSUME open' # <<>>
          PROVE  /\ Len(open') <= tree[current'].depth + 1
                 /\ UpIn(tree, current', tree[current'].depth + 1 - Len(open'))
                      = open'[Len(open')]
      <4> DEFINE k == c.depth + 1 - L
      <4>1. L - 1 \in 1..(L - 1)
        BY <2>2, <2>4, <3>5
      <4>2. k \in Nat /\ UpIn(tree, current, k) = open[L] /\ L <= c.depth + 1
        BY <2>1, <2>2, <2>3, <3>1 DEF Placed, AtCurrent
      <4>3. open[L] # 0 /\ tree[open[L]].parent = open[L - 1]
        BY <2>2, <3>1, <4>1 DEF Placed, OpenLine
      <4>4. UpIn(tree, current, k + 1) = IF UpIn(tree, current, k) = 0 THEN 0
                                         ELSE tree[UpIn(tree, current, k)].parent
        BY <4>2, UpEquations, Zenon
      <4>5. UpIn(tree, current, k + 1) = open'[Len(open')]
        BY <2>4, <4>1, <4>2, <4>3, <4>4
      <4>6. CASE current' = current
        <5>1. tree[current'].depth + 1 - Len(open') = k + 1
          <6>1. \A d \in Nat : d + 1 - (L - 1) = (d + 1 - L) + 1
            BY <2>2
          <6> QED BY <2>3, <2>4, <4>6, <6>1
        <5> QED BY <2>2, <2>3, <2>4, <4>2, <4>5, <4>6, <5>1, SMTT(30)
      <4>7. CASE current' # current
        <5>1. tree[current'].depth \in Nat
          <6>1. \A n \in 1..Len(tree) : tree[n] \in Node
            BY <2>2 DEF TypeOK
          <6>2. tree[current'] \in Node
            BY <2>5, <6>1
          <6> QED BY <6>2 DEF Node
        <5>2. tree[current'].depth + 1 - Len(open') = k /\ current' = c.parent
          <6>1. \A d \in Nat : d + 1 - (L - 1) = (d + 1) + 1 - L
            BY <2>2
          <6> QED BY <2>1, <2>4, <3>4, <4>7, <5>1, <6>1
        <5>3. UpIn(tree, c.parent, k) = UpIn(tree, current, k + 1)
          BY <1>2, <4>2, UpShift, Zenon
        <5>4. Len(open') <= tree[current'].depth + 1
          BY <2>2, <2>3, <2>4, <3>4, <4>2, <4>7, <5>1
        <5> QED BY <4>5, <5>2, <5>3, <5>4
      <4> QED BY <4>6, <4>7
    <3>6. AtCurrent'
      <4>1. tree # <<>> /\ current' # 0
        BY <2>2, <2>5
      <4> QED BY <2>1, <3>4, <3>5, <4>1 DEF AtCurrent
    <3> QED BY <3>2, <3>3, <3>6 DEF Placed
  <2>8. Rooted'
    <3>1. open' # <<>> => open'[1] = open[1]
      BY <2>2, <2>4
    <3> QED BY <1>2, <2>1, <2>2, <2>5, <3>1 DEF IInv, Rooted
  <2> QED BY <2>6, <2>7, <2>8 DEF IInv
<1> QED BY <1>1, <1>2

--------------------------------------------------------------------------------
(* Theorems *)

\* The tree of dbpx_parser.cpp is well-formed and, as long as elements that make no tag are
\* empty, the depth of current_node tells which of its ancestors is the innermost open
\* element.
THEOREM Invariance == Spec => []IInv
<1>1. Init => IInv
  <2> SUFFICES ASSUME Init PROVE IInv
    OBVIOUS
  <2>1. TypeOK
    <3>1. tree = <<>> /\ open = <<>> /\ current = 0
      BY DEF Init
    <3>2. Len(tree) = 0 /\ tree \in Seq(Node) /\ open \in Seq(0..Len(tree))
      BY <3>1
    <3>3. current \in 0..Len(tree)
      BY <3>1, <3>2
    <3>4. overrun \in BOOLEAN /\ outcome \in {"reading", "parsed", "rejected", "crashed", "rootless"}
      BY DEF Init
    <3> QED BY <3>2, <3>3, <3>4 DEF TypeOK
  <2>a. Falling
    BY DEF Init, Falling
  <2>2. Placed
    BY DEF Init, Placed, Levels, OpenLine, AtCurrent, Written, Nearby
  <2>3. Rooted
    BY DEF Init, Rooted
  <2> QED BY <2>1, <2>2, <2>3, <2>a DEF IInv
<1>2. IInv /\ [Next]_vars => IInv'
  <2> SUFFICES ASSUME IInv, [Next]_vars PROVE IInv'
    OBVIOUS
  <2>1. CASE RootElement
    BY <2>1, RootStep
  <2>2. CASE Element
    BY <2>2, ElementStep
  <2>3. CASE Text
    BY <2>3, TextStep
  <2>4. CASE Include
    BY <2>4, IncludeStep
  <2>5. CASE ItsElement
    BY <2>5, NoTagStep DEF ItsElement
  <2>6. CASE EndElement
    BY <2>6, EndStep
  <2>7. CASE ReadFails
    BY <2>7, Unmoved DEF ReadFails, Rejects
  <2>8. CASE Finish
    BY <2>8, Unmoved DEF Finish
  <2>9. CASE UNCHANGED vars
    BY <2>9, Unmoved DEF vars, IInv, TypeOK
  <2> QED BY <2>1, <2>2, <2>3, <2>4, <2>5, <2>6, <2>7, <2>8, <2>9 DEF Next
<1> QED BY <1>1, <1>2, PTL DEF Spec

\* current_node, the parents in the tree and the open elements are always tags that exist.
THEOREM TypeCorrect == Spec => []TypeOK
<1>1. IInv => TypeOK
  BY DEF IInv
<1> QED BY <1>1, Invariance, PTL

LEMMA WithinIsWithinIn ==
    \A n, m : Within(n, m) <=> WithinIn(tree, n, m)
<1> SUFFICES ASSUME NEW n, NEW m
             PROVE  Within(n, m) <=> WithinIn(tree, n, m)
  OBVIOUS
<1>1. \A k : Up(n, k) = UpIn(tree, n, k)
  BY UpIsUpIn
<1> QED BY <1>1 DEF Within, WithinIn

\* make_relationship makes every tag the child of the element that it is written in, for
\* documents of any length and depth.
THEOREM TagsAsWritten == Spec => []NestedAsWritten
<1>1. IInv => NestedAsWritten
  <2> SUFFICES ASSUME IInv, ~overrun
               PROVE  /\ Inside # 0 => Within(current, Inside)
                      /\ \A n \in 1..Len(tree) :
                            ~tree[n].included => tree[n].parent = tree[n].inside
    BY DEF NestedAsWritten, StaysInside
  <2>1. TypeOK /\ Falling /\ Placed
    BY DEF IInv
  <2>2. Inside # 0 => Within(current, Inside)
    BY <2>1, InsideIsTop, CurrentWithin, WithinIsWithinIn DEF Placed
  <2> QED BY <2>1, <2>2 DEF Placed, Written
<1> QED BY <1>1, Invariance, PTL

\* dbp:include adds its tags somewhere in the element that it is written in, for documents
\* of any length and depth.
THEOREM IncludesNearby == Spec => []IncludedNearby
<1>1. IInv => IncludedNearby
  <2> SUFFICES ASSUME IInv, ~overrun, NEW n \in 1..Len(tree), tree[n].included
               PROVE  Within(tree[n].parent, tree[n].inside)
    BY DEF IncludedNearby
  <2>1. WithinIn(tree, tree[n].parent, tree[n].inside)
    BY DEF IInv, Placed, Nearby
  <2> QED BY <2>1, WithinIsWithinIn
<1> QED BY <1>1, Invariance, PTL

\* A tag of depth d has d ancestors.
LEMMA Ancestors ==
    ASSUME TypeOK, Falling, Rooted, tree # <<>>, tree[1].depth = 0, NEW n \in 1..Len(tree)
    PROVE  \A k \in Nat : k <= tree[n].depth =>
               /\ UpIn(tree, n, k) \in 1..Len(tree)
               /\ tree[UpIn(tree, n, k)].depth + k = tree[n].depth
<1>0. \A i \in 1..Len(tree) : tree[i] \in Node /\ tree[i].depth \in Nat
  <2> SUFFICES ASSUME NEW i \in 1..Len(tree)
               PROVE  tree[i] \in Node /\ tree[i].depth \in Nat
    OBVIOUS
  <2>1. tree[i] \in Node
    BY DEF TypeOK
  <2> QED BY <2>1 DEF Node
<1> DEFINE S == {k \in Nat : k <= tree[n].depth =>
                    /\ UpIn(tree, n, k) \in 1..Len(tree)
                    /\ tree[UpIn(tree, n, k)].depth + k = tree[n].depth}
<1>1. 0 \in S
  <2>1. UpIn(tree, n, 0) = n
    BY UpEquations, Zenon
  <2>2. tree[n].depth \in Nat
    BY <1>0
  <2>3. tree[n].depth + 0 = tree[n].depth
    BY <2>2
  <2>4. 0 \in Nat
    OBVIOUS
  <2> QED BY <2>1, <2>3, <2>4, Zenon
<1>2. ASSUME NEW k \in Nat, k \in S
      PROVE  k + 1 \in S
  <2> SUFFICES ASSUME k + 1 <= tree[n].depth
               PROVE  /\ UpIn(tree, n, k + 1) \in 1..Len(tree)
                      /\ tree[UpIn(tree, n, k + 1)].depth + (k + 1) = tree[n].depth
    OBVIOUS
  <2> DEFINE a == UpIn(tree, n, k)
  <2>1. a \in 1..Len(tree) /\ tree[a].depth + k = tree[n].depth
    BY <1>0, <1>2
  <2>2. UpIn(tree, n, k + 1) = IF a = 0 THEN 0 ELSE tree[a].parent
    BY UpEquations, Zenon
  <2> HIDE DEF a
  <2>3. tree[a].depth # 0 /\ tree[a].depth \in Nat
    BY <1>0, <2>1
  <2>4. tree[a].parent \in 0..(a - 1) /\ tree[a].parent # 0
    BY <2>1, <2>3 DEF Falling, Rooted
  <2>5. tree[a].parent \in 1..Len(tree)
    BY <2>1, <2>4 DEF TypeOK
  <2>6. tree[a].depth = tree[tree[a].parent].depth + 1
    BY <2>1, <2>4 DEF Rooted
  <2>7. UpIn(tree, n, k + 1) = tree[a].parent
    BY <2>1, <2>2
  <2>8. tree[tree[a].parent].depth \in Nat
    BY <1>0, <2>5
  <2>9. tree[tree[a].parent].depth + (k + 1) = tree[n].depth
    <3> DEFINE below == tree[a].depth
               above == tree[tree[a].parent].depth
               low   == tree[n].depth
    <3>1. below + k = low /\ below = above + 1 /\ above \in Nat
      BY <2>1, <2>6, <2>8
    <3> HIDE DEF below, above, low
    <3>2. above + (k + 1) = low
      BY <3>1
    <3> QED BY <3>2 DEF above, low
  <2> QED BY <2>5, <2>7, <2>9
<1> HIDE DEF S
<1>3. \A k \in Nat : k \in S
  BY <1>1, <1>2, NatSetInduction
<1> QED BY <1>3 DEF S

\* Inside of an outermost element that makes a tag, make_relationship finds a tag to add to.
LEMMA ParentFound ==
    ASSUME TypeOK, Falling, Rooted, open # <<>>, open[1] # 0
    PROVE  current # 0 /\ ParentFor(Depth) # 0
<1>1. tree # <<>> /\ tree[1].depth = 0 /\ current \in 1..Len(tree) /\ current # 0
  BY DEF Rooted, TypeOK
<1>2. tree[current] \in Node
  BY <1>1 DEF TypeOK
<1>3. Depth = Len(open) /\ Len(open) \in Nat \ {0} /\ tree[current].depth \in Nat
  BY <1>2 DEF Depth, TypeOK, Node
<1> DEFINE c == tree[current]
<1>4. CASE Depth = c.depth
  <2>1. c.parent # 0
    BY <1>1, <1>3, <1>4 DEF Rooted
  <2> QED BY <1>1, <1>4, <2>1 DEF ParentFor
<1>5. CASE Depth > c.depth
  BY <1>1, <1>3, <1>5 DEF ParentFor
<1>6. CASE Depth < c.depth
  <2> DEFINE j == c.depth - Depth
  <2>1. j \in Nat /\ j + 1 \in Nat /\ j + 1 <= c.depth
    BY <1>3, <1>6
  <2>2. ParentFor(Depth) = Up(c.parent, j)
    BY <1>3, <1>6 DEF ParentFor
  <2> HIDE DEF j
  <2>3. Up(c.parent, j) = Up(current, j + 1)
    <3>1. \A i \in Nat : Up(c.parent, i) = Up(current, i + 1)
      BY <1>1, UpFacts
    <3> QED BY <2>1, <3>1, Zenon
  <2>4. Up(current, j + 1) = UpIn(tree, current, j + 1)
    BY UpIsUpIn
  <2>5. UpIn(tree, current, j + 1) \in 1..Len(tree)
    BY <1>1, <2>1, Ancestors
  <2> QED BY <1>1, <2>2, <2>3, <2>4, <2>5
<1> QED BY <1>1, <1>3, <1>4, <1>5, <1>6

\* "invalid nested tags" is never thrown for a well-formed document, and current_node is
\* never dereferenced as NULL, whatever elements without a tag it has, unless such an
\* element is the outermost one.
THEOREM NestingAccepted == Spec => AcceptsNesting
<1>1. ASSUME IInv, Next, open # <<>>, open[1] # 0
      PROVE  outcome' # "crashed" /\ (MoreTags => ParentFor(Depth) # 0)
  <2>1. current # 0 /\ ParentFor(Depth) # 0
    BY <1>1, ParentFound DEF IInv
  <2>2. outcome' # "crashed"
    <3>1. CASE RootElement
      BY <2>1, <3>1 DEF RootElement
    <3>2. CASE Element
      BY <2>1, <3>2 DEF Element, MoreTags, Reading
    <3>3. CASE Text
      BY <2>1, <3>3 DEF Text, MoreTags, Reading
    <3>4. CASE Include
      BY <2>1, <3>4 DEF Include, NoTag, MoreTags, Reading
    <3>5. CASE ItsElement
      BY <3>5 DEF ItsElement, NoTag, MoreTags, Reading
    <3>6. CASE EndElement
      BY <2>1, <3>6 DEF EndElement, Reading
    <3>7. CASE ReadFails
      BY <3>7 DEF ReadFails, Rejects
    <3>8. CASE Finish
      BY <3>8 DEF Finish
    <3> QED BY <1>1, <3>1, <3>2, <3>3, <3>4, <3>5, <3>6, <3>7, <3>8 DEF Next
  <2> QED BY <2>1, <2>2
<1>2. IInv /\ [Next]_vars
        => [open # <<>> /\ open[1] # 0 => /\ outcome' # "crashed"
                                          /\ MoreTags => ParentFor(Depth) # 0]_vars
  BY <1>1
<1> QED BY <1>2, Invariance, PTL DEF Spec, AcceptsNesting

====
