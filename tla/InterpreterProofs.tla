--------------------------- MODULE InterpreterProofs ---------------------------
(***************************************************************************)
(* Proofs about Interpreter for any workers, documents and configuration   *)
(* files: the mutex excludes, a document has one application, and the      *)
(* cache only grows.                                                       *)
(***************************************************************************)
EXTENDS Interpreter, TLAPS

\* The state before load() satisfies the inductive invariant.
LEMMA InitIInv == Init => IInv
<1> SUFFICES ASSUME Init PROVE IInv
  OBVIOUS
<1>1. TypeOK
  BY DEF Init, TypeOK, Locations, Outcomes
<1>2. Exclusive
  BY InterpreterAssumption DEF Init, Exclusive
<1>3. Progress
  BY DEF Init, Progress
<1>4. SameInstance
  BY DEF Init, SameInstance
<1>5. NoParseWasted
  BY DEF Init, NoParseWasted
<1> QED
  BY <1>1, <1>2, <1>3, <1>4, <1>5 DEF IInv

\* What the two assignments that get_app is written with keep.
LEMMA GotoType ==
    ASSUME TypeOK, NEW w \in Workers, NEW l \in Locations, Goto(w, l)
    PROVE  pc' \in [Workers -> Locations]
BY DEF TypeOK, Goto

LEMMA YieldType ==
    ASSUME TypeOK, NEW w \in Workers, NEW a \in Nat, NEW o \in Outcomes, Yield(w, a, o)
    PROVE  ret' \in [Workers -> Nat] /\ outcome' \in [Workers -> Outcomes]
BY DEF TypeOK, Yield

\* The constructor of an application computes a number or an error.
LEMMA ConstructType ==
    ASSUME TypeOK, NEW w \in Workers, Construct(w)
    PROVE  /\ ret' \in [Workers -> Nat]
           /\ outcome' \in [Workers -> Outcomes]
           /\ made' \in Nat
<1>1. doc[url[w]] \in {"ok", "bad", "absent"}
  BY DEF TypeOK, DocStates
<1>a. made \in Nat
  BY DEF TypeOK
<1>2. made \in Nat /\ made + 1 \in Nat /\ 0 \in Nat
  BY <1>a
<1>3. {"app", "parse_error", "not_found"} \subseteq Outcomes
  BY DEF Outcomes
<1>4. CASE doc[url[w]] = "ok"
  BY <1>2, <1>3, <1>4, YieldType DEF Construct
<1>5. CASE doc[url[w]] = "bad"
  BY <1>2, <1>3, <1>5, YieldType DEF Construct
<1>6. CASE doc[url[w]] = "absent"
  BY <1>2, <1>3, <1>6, YieldType DEF Construct
<1> QED
  BY <1>1, <1>4, <1>5, <1>6

\* Every step keeps the types.
LEMMA TypeStep == TypeOK /\ [Next]_vars => TypeOK'
<1> SUFFICES ASSUME TypeOK, [Next]_vars PROVE TypeOK'
  OBVIOUS
<1> USE InterpreterAssumption DEF config, result
<1>1. CASE Load
  BY <1>1 DEF TypeOK, Load, Settings
<1>2. CASE Reload
  BY <1>2 DEF TypeOK, Reload
<1>3. CASE EditConfig
  BY <1>3 DEF TypeOK, EditConfig
<1>4. CASE EditDoc
  BY <1>4 DEF TypeOK, EditDoc, DocStates
<1>5. ASSUME NEW w \in Workers, Call(w) PROVE TypeOK'
  BY <1>5 DEF TypeOK, Call, Goto, Yield, Locations, Outcomes
<1>6. ASSUME NEW w \in Workers, GetApp(w) PROVE TypeOK'
  <2>0. url[w] \in Urls /\ apps[url[w]] \in Nat /\ 0 \in Nat
    BY DEF TypeOK
  <2>a. /\ {"idle", "lock", "crashed", "parse", "unlock", "insert"} \subseteq Locations
        /\ {"app", "undefined"} \subseteq Outcomes
    BY DEF Locations, Outcomes
  <2>1. CASE Build(w)
    <3>1. Construct(w) /\ Goto(w, "idle")
      BY <2>1 DEF Build
    <3> QED
      BY <2>1, <3>1, <2>a, ConstructType, GotoType DEF TypeOK, Build
  <2>2. CASE Find(w)
    <3>1. CASE apps[url[w]] # 0
      <4>1. Goto(w, "idle") /\ Yield(w, apps[url[w]], "app")
        BY <2>2, <3>1 DEF Find
      <4> QED
        BY <2>2, <4>1, <2>0, <2>a, YieldType, GotoType DEF TypeOK, Find
    <3>2. CASE apps[url[w]] = 0
      BY <2>2, <3>2, <2>a, GotoType DEF TypeOK, Find
    <3> QED
      BY <3>1, <3>2
  <2>3. CASE RacyFind(w)
    <3>1. PICK v \in Workers :
             \/ Goto(w, "lock") /\ UNCHANGED result
             \/ Goto(w, "idle") /\ Yield(w, ret[v], "app")
             \/ Goto(w, "crashed") /\ Yield(w, 0, "undefined")
      BY <2>3 DEF RacyFind
    <3>2. ret[v] \in Nat
      BY DEF TypeOK
    <3>3. /\ pc' \in [Workers -> Locations]
          /\ ret' \in [Workers -> Nat]
          /\ outcome' \in [Workers -> Outcomes]
      <4>1. CASE Goto(w, "lock") /\ UNCHANGED result
        BY <4>1, <2>a, GotoType DEF TypeOK
      <4>2. CASE Goto(w, "idle") /\ Yield(w, ret[v], "app")
        BY <4>2, <3>2, <2>a, GotoType, YieldType
      <4>3. CASE Goto(w, "crashed") /\ Yield(w, 0, "undefined")
        BY <4>3, <2>0, <2>a, GotoType, YieldType
      <4> QED
        BY <3>1, <4>1, <4>2, <4>3
    <3> QED
      BY <2>3, <3>3 DEF TypeOK, RacyFind
  <2>4. CASE Lock(w)
    BY <2>4 DEF TypeOK, Lock, Goto, Locations
  <2>5. CASE Refind(w)
    <3>1. CASE apps[url[w]] # 0
      <4>1. Goto(w, "unlock") /\ Yield(w, apps[url[w]], "app")
        BY <2>5, <3>1 DEF Refind
      <4> QED
        BY <2>5, <4>1, <2>0, <2>a, YieldType, GotoType DEF TypeOK, Refind
    <3>2. CASE apps[url[w]] = 0
      BY <2>5, <3>2, <2>a, GotoType DEF TypeOK, Refind
    <3> QED
      BY <3>1, <3>2
  <2>6. CASE Parse(w)
    <3>1. Construct(w) /\ \E l \in Locations : Goto(w, l)
      BY <2>6, <2>a DEF Parse
    <3> QED
      BY <2>6, <3>1, ConstructType, GotoType DEF TypeOK, Parse
  <2>7. CASE Insert(w)
    BY <2>7 DEF TypeOK, Insert, Goto, Locations
  <2>8. CASE Unlock(w)
    BY <2>8 DEF TypeOK, Unlock, Goto, Locations
  <2> QED
    BY <1>6, <2>1, <2>2, <2>3, <2>4, <2>5, <2>6, <2>7, <2>8 DEF GetApp
<1>7. CASE UNCHANGED vars
  BY <1>7 DEF TypeOK, vars
<1> QED
  BY <1>1, <1>2, <1>3, <1>4, <1>5, <1>6, <1>7 DEF Next

\* The same two assignments, worker by worker.
LEMMA GotoAt ==
    ASSUME TypeOK, NEW w \in Workers, NEW l, Goto(w, l)
    PROVE  pc'[w] = l /\ \A v \in Workers \ {w} : pc'[v] = pc[v]
BY DEF TypeOK, Goto

LEMMA YieldAt ==
    ASSUME TypeOK, NEW w \in Workers, NEW a, NEW o, Yield(w, a, o)
    PROVE  ret'[w] = a /\ \A v \in Workers \ {w} : ret'[v] = ret[v]
BY DEF TypeOK, Yield

\* The constructor yields the next number for a sound document, else nothing.
LEMMA ConstructAt ==
    ASSUME TypeOK, NEW w \in Workers, Construct(w)
    PROVE  /\ \A v \in Workers \ {w} : ret'[v] = ret[v]
           /\ \/ doc[url[w]] = "ok" /\ made' = made + 1 /\ ret'[w] = made + 1
              \/ doc[url[w]] # "ok" /\ made' = made /\ ret'[w] = 0
<1>1. doc[url[w]] \in {"ok", "bad", "absent"}
  BY DEF TypeOK, DocStates
<1>2. CASE doc[url[w]] = "ok"
  BY <1>2, YieldAt DEF Construct
<1>3. CASE doc[url[w]] = "bad"
  BY <1>3, YieldAt DEF Construct
<1>4. CASE doc[url[w]] = "absent"
  BY <1>4, YieldAt DEF Construct
<1> QED
  BY <1>1, <1>2, <1>3, <1>4

\* The parts of the invariant that speak of one worker's progress follow for the
\* next state when nothing but the configuration file or a document changes.
LEMMA QuietStep ==
    ASSUME IInv, TypeOK', UNCHANGED <<phase, use_cache, apps, m, pc, url, ret, made>>
    PROVE  IInv'
BY DEF IInv, Exclusive, Progress, SameInstance, NoParseWasted

\* Every step keeps the inductive invariant.
LEMMA StepIInv == IInv /\ [Next]_vars => IInv'
<1> SUFFICES ASSUME IInv, [Next]_vars PROVE IInv'
  OBVIOUS
<1> USE InterpreterAssumption
<1>0. TypeOK /\ TypeOK'
  BY TypeStep DEF IInv
<1>1. CASE Load
  <2>1. made = 0 /\ \A w \in Workers : pc[w] = "idle" /\ ret[w] = 0
    BY <1>1 DEF IInv, Progress, Load
  <2>2. UNCHANGED <<apps, m, pc, url, ret, made>>
    BY <1>1 DEF Load, result
  <2>3. Exclusive'
    BY <2>2 DEF IInv, Exclusive
  <2>4. Progress'
    BY <2>1, <2>2 DEF Progress
  <2>5. SameInstance'
    BY <2>1, <2>2 DEF SameInstance
  <2>6. NoParseWasted'
    BY <2>1, <2>2 DEF NoParseWasted
  <2> QED
    BY <1>0, <2>3, <2>4, <2>5, <2>6 DEF IInv
<1>2. CASE Reload
  BY <1>0, <1>2, QuietStep DEF Reload, result
<1>3. CASE EditConfig
  BY <1>0, <1>3, QuietStep DEF EditConfig, result
<1>4. CASE EditDoc
  BY <1>0, <1>4, QuietStep DEF EditDoc, config, result
<1>5. ASSUME NEW w \in Workers, Call(w) PROVE IInv'
  <2>1. /\ phase = "up" /\ pc[w] = "idle" /\ ret'[w] = 0
        /\ pc'[w] = IF use_cache THEN "find" ELSE "build"
        /\ \A v \in Workers \ {w} : pc'[v] = pc[v] /\ ret'[v] = ret[v] /\ url'[v] = url[v]
        /\ UNCHANGED <<phase, use_cache, apps, m, made>>
    BY <1>0, <1>5, GotoAt, YieldAt DEF Call, TypeOK, config
  <2>11. Exclusive'
    BY <2>1 DEF IInv, Exclusive
  <2>12. Progress'
    BY <2>1 DEF IInv, Exclusive, Progress
  <2>13. SameInstance'
    BY <2>1 DEF IInv, Exclusive, Progress, SameInstance
  <2>14. NoParseWasted'
    BY <2>1 DEF IInv, Exclusive, Progress, NoParseWasted
  <2> QED
    BY <1>0, <2>11, <2>12, <2>13, <2>14 DEF IInv
<1>6. ASSUME NEW w \in Workers, GetApp(w) PROVE IInv'
  <2>0. made \in Nat /\ \A v \in Workers : ret[v] \in Nat /\ url[v] \in Urls /\ apps[url[v]] \in Nat
    BY <1>0 DEF TypeOK
  <2>1. CASE Build(w)
    <3>1. /\ pc[w] = "build" /\ pc'[w] = "idle"
          /\ \A v \in Workers \ {w} : pc'[v] = pc[v] /\ ret'[v] = ret[v]
          /\ UNCHANGED <<phase, use_cache, apps, m, url>>
      BY <1>0, <2>1, GotoAt, ConstructAt DEF Build, config
    <3>2. ~use_cache /\ phase = "up"
      BY <3>1 DEF IInv, Progress
    <3>11. Exclusive'
      BY <3>1, <3>2 DEF IInv, Exclusive
    <3>12. Progress'
      BY <3>1, <3>2 DEF IInv, Exclusive, Progress
    <3>13. SameInstance'
      BY <3>1, <3>2 DEF IInv, Exclusive, Progress, SameInstance
    <3>14. NoParseWasted'
      BY <3>1, <3>2 DEF IInv, Exclusive, Progress, NoParseWasted
    <3> QED
      BY <1>0, <3>11, <3>12, <3>13, <3>14 DEF IInv
  <2>2. CASE Find(w)
    <3>1. CASE apps[url[w]] # 0
      <4>1. /\ pc[w] = "find" /\ pc'[w] = "idle" /\ ret'[w] = apps[url[w]]
            /\ \A v \in Workers \ {w} : pc'[v] = pc[v] /\ ret'[v] = ret[v]
            /\ UNCHANGED <<phase, use_cache, apps, m, url, made>>
        BY <1>0, <2>2, <3>1, GotoAt, YieldAt DEF Find, config
      <4>11. Exclusive'
        BY <3>1, <4>1 DEF IInv, Exclusive
      <4>12. Progress'
        BY <3>1, <4>1 DEF IInv, Exclusive, Progress
      <4>13. SameInstance'
        BY <3>1, <4>1 DEF IInv, Exclusive, Progress, SameInstance
      <4>14. NoParseWasted'
        BY <3>1, <4>1 DEF IInv, Exclusive, Progress, NoParseWasted
      <4> QED
        BY <1>0, <4>11, <4>12, <4>13, <4>14 DEF IInv
    <3>2. CASE apps[url[w]] = 0
      <4>1. /\ pc[w] = "find" /\ pc'[w] = "lock" /\ ret' = ret
            /\ \A v \in Workers \ {w} : pc'[v] = pc[v]
            /\ UNCHANGED <<phase, use_cache, apps, m, url, made>>
        BY <1>0, <2>2, <3>2, GotoAt DEF Find, config, result
      <4>11. Exclusive'
        BY <3>2, <4>1 DEF IInv, Exclusive
      <4>12. Progress'
        BY <3>2, <4>1 DEF IInv, Exclusive, Progress
      <4>13. SameInstance'
        BY <3>2, <4>1 DEF IInv, Exclusive, Progress, SameInstance
      <4>14. NoParseWasted'
        BY <3>2, <4>1 DEF IInv, Exclusive, Progress, NoParseWasted
      <4> QED
        BY <1>0, <4>11, <4>12, <4>13, <4>14 DEF IInv
    <3> QED
      BY <3>1, <3>2
  <2>3. CASE RacyFind(w)
    <3>1. PICK v \in Workers :
             /\ pc[v] = "insert"
             /\ \/ Goto(w, "lock") /\ UNCHANGED result
                \/ url[v] = url[w] /\ Goto(w, "idle") /\ Yield(w, ret[v], "app")
                \/ Goto(w, "crashed") /\ Yield(w, 0, "undefined")
      BY <2>3 DEF RacyFind
    <3>2. pc[w] = "find" /\ UNCHANGED <<phase, use_cache, apps, m, url, made>>
      BY <2>3 DEF RacyFind, config
    <3>3. /\ \A x \in Workers \ {w} : pc'[x] = pc[x] /\ ret'[x] = ret[x]
          /\ \/ pc'[w] = "lock" /\ ret'[w] = ret[w]
             \/ pc'[w] = "idle" /\ ret'[w] = ret[v] /\ url[v] = url[w]
             \/ pc'[w] = "crashed" /\ ret'[w] = 0
      <4>1. CASE Goto(w, "lock") /\ UNCHANGED result
        BY <1>0, <4>1, GotoAt DEF result
      <4>2. CASE url[v] = url[w] /\ Goto(w, "idle") /\ Yield(w, ret[v], "app")
        BY <1>0, <4>2, GotoAt, YieldAt
      <4>3. CASE Goto(w, "crashed") /\ Yield(w, 0, "undefined")
        BY <1>0, <4>3, GotoAt, YieldAt
      <4> QED
        BY <3>1, <4>1, <4>2, <4>3
    <3>4. v # w /\ pc'[v] = "insert" /\ ret'[v] = ret[v]
      BY <3>1, <3>2, <3>3
    <3>11. Exclusive'
      BY <3>2, <3>3, <3>4 DEF IInv, Exclusive
    <3>12. Progress'
      BY <3>2, <3>3, <3>4 DEF IInv, Exclusive, Progress
    <3>13. SameInstance'
      BY <3>2, <3>3, <3>4 DEF IInv, Exclusive, Progress, SameInstance
    <3>14. NoParseWasted'
      BY <3>2, <3>3, <3>4 DEF IInv, Exclusive, Progress, NoParseWasted
    <3> QED
      BY <1>0, <3>11, <3>12, <3>13, <3>14 DEF IInv
  <2>4. CASE Lock(w)
    <3>1. /\ pc[w] = "lock" /\ pc'[w] = "refind" /\ m = NoWorker /\ m' = w
          /\ \A v \in Workers \ {w} : pc'[v] = pc[v]
          /\ UNCHANGED <<phase, use_cache, apps, url, ret, made>>
      BY <1>0, <2>4, GotoAt DEF Lock, config, result
    <3>11. Exclusive'
      BY <3>1 DEF IInv, Exclusive
    <3>12. Progress'
      BY <3>1 DEF IInv, Exclusive, Progress
    <3>13. SameInstance'
      BY <3>1 DEF IInv, Exclusive, Progress, SameInstance
    <3>14. NoParseWasted'
      BY <3>1 DEF IInv, Exclusive, Progress, NoParseWasted
    <3> QED
      BY <1>0, <3>11, <3>12, <3>13, <3>14 DEF IInv
  <2>5. CASE Refind(w)
    <3>1. CASE apps[url[w]] # 0
      <4>1. /\ pc[w] = "refind" /\ pc'[w] = "unlock" /\ ret'[w] = apps[url[w]]
            /\ \A v \in Workers \ {w} : pc'[v] = pc[v] /\ ret'[v] = ret[v]
            /\ UNCHANGED <<phase, use_cache, apps, m, url, made>>
        BY <1>0, <2>5, <3>1, GotoAt, YieldAt DEF Refind, config
      <4>11. Exclusive'
        BY <3>1, <4>1 DEF IInv, Exclusive
      <4>12. Progress'
        BY <3>1, <4>1 DEF IInv, Exclusive, Progress
      <4>13. SameInstance'
        BY <3>1, <4>1 DEF IInv, Exclusive, Progress, SameInstance
      <4>14. NoParseWasted'
        BY <3>1, <4>1 DEF IInv, Exclusive, Progress, NoParseWasted
      <4> QED
        BY <1>0, <4>11, <4>12, <4>13, <4>14 DEF IInv
    <3>2. CASE apps[url[w]] = 0
      <4>1. /\ pc[w] = "refind" /\ pc'[w] = "parse" /\ ret' = ret
            /\ \A v \in Workers \ {w} : pc'[v] = pc[v]
            /\ UNCHANGED <<phase, use_cache, apps, m, url, made>>
        BY <1>0, <2>5, <3>2, GotoAt DEF Refind, config, result
      <4>11. Exclusive'
        BY <3>2, <4>1 DEF IInv, Exclusive
      <4>12. Progress'
        BY <3>2, <4>1 DEF IInv, Exclusive, Progress
      <4>13. SameInstance'
        BY <3>2, <4>1 DEF IInv, Exclusive, Progress, SameInstance
      <4>14. NoParseWasted'
        BY <3>2, <4>1 DEF IInv, Exclusive, Progress, NoParseWasted
      <4> QED
        BY <1>0, <4>11, <4>12, <4>13, <4>14 DEF IInv
    <3> QED
      BY <3>1, <3>2
  <2>6. CASE Parse(w)
    <3>1. /\ pc[w] = "parse" /\ pc'[w] = (IF doc[url[w]] = "ok" THEN "insert" ELSE "unlock")
          /\ \A v \in Workers \ {w} : pc'[v] = pc[v] /\ ret'[v] = ret[v]
          /\ UNCHANGED <<phase, use_cache, apps, m, url>>
      BY <1>0, <2>6, GotoAt, ConstructAt DEF Parse, config
    <3>2. \/ pc'[w] = "insert" /\ made' = made + 1 /\ ret'[w] = made + 1
          \/ pc'[w] = "unlock" /\ made' = made /\ ret'[w] = 0
      BY <1>0, <2>6, <3>1, ConstructAt DEF Parse
    <3>3. \A v \in Workers \ {w} : pc[v] # "insert" /\ pc[v] # "parse"
      BY <3>1 DEF IInv, Exclusive
    <3>11. Exclusive'
      BY <2>0, <3>1, <3>2, <3>3 DEF IInv, Exclusive
    <3>12. Progress'
      BY <2>0, <3>1, <3>2, <3>3 DEF IInv, Exclusive, Progress
    <3>13. SameInstance'
      BY <2>0, <3>1, <3>2, <3>3 DEF IInv, Exclusive, Progress, SameInstance
    <3>14. NoParseWasted'
      BY <2>0, <3>1, <3>2, <3>3 DEF IInv, Exclusive, Progress, NoParseWasted
    <3> QED
      BY <1>0, <3>11, <3>12, <3>13, <3>14 DEF IInv
  <2>7. CASE Insert(w)
    <3>1. /\ pc[w] = "insert" /\ pc'[w] = "unlock" /\ apps[url[w]] = 0 /\ ret[w] # 0
          /\ \A v \in Workers \ {w} : pc'[v] = pc[v] /\ pc[v] # "insert" /\ pc[v] # "parse"
          /\ UNCHANGED <<phase, use_cache, m, url, ret, made>>
      BY <1>0, <2>7, GotoAt DEF Insert, config, result, IInv, Progress, Exclusive
    <3>2. /\ apps'[url[w]] = ret[w]
          /\ \A u \in Urls \ {url[w]} : apps'[u] = apps[u]
      BY <1>0, <2>7, <3>1 DEF Insert, TypeOK
    <3>11. Exclusive'
      BY <2>0, <3>1, <3>2 DEF IInv, Exclusive
    <3>12. Progress'
      BY <2>0, <3>1, <3>2 DEF IInv, Exclusive, Progress
    <3>13. SameInstance'
      BY <2>0, <3>1, <3>2 DEF IInv, Exclusive, Progress, SameInstance
    <3>14. NoParseWasted'
      BY <2>0, <3>1, <3>2 DEF IInv, Exclusive, Progress, NoParseWasted
    <3> QED
      BY <1>0, <3>11, <3>12, <3>13, <3>14 DEF IInv
  <2>8. CASE Unlock(w)
    <3>1. /\ pc[w] = "unlock" /\ pc'[w] = "idle" /\ m' = NoWorker
          /\ \A v \in Workers \ {w} : pc'[v] = pc[v]
          /\ UNCHANGED <<phase, use_cache, apps, url, ret, made>>
      BY <1>0, <2>8, GotoAt DEF Unlock, config, result
    <3>11. Exclusive'
      BY <3>1 DEF IInv, Exclusive
    <3>12. Progress'
      BY <3>1 DEF IInv, Exclusive, Progress
    <3>13. SameInstance'
      BY <3>1 DEF IInv, Exclusive, Progress, SameInstance
    <3>14. NoParseWasted'
      BY <3>1 DEF IInv, Exclusive, Progress, NoParseWasted
    <3> QED
      BY <1>0, <3>11, <3>12, <3>13, <3>14 DEF IInv
  <2> QED
    BY <1>6, <2>1, <2>2, <2>3, <2>4, <2>5, <2>6, <2>7, <2>8 DEF GetApp
<1>7. CASE UNCHANGED vars
  BY <1>0, <1>7, QuietStep DEF vars, config, result
<1> QED
  BY <1>1, <1>2, <1>3, <1>4, <1>5, <1>6, <1>7 DEF Next

\* Every reachable state satisfies the inductive invariant.
THEOREM Invariance == Spec => []IInv
<1>1. Init => IInv
  BY InitIInv
<1>2. IInv /\ [Next]_vars => IInv'
  BY StepIInv
<1> QED
  BY <1>1, <1>2, PTL DEF Spec

\* The variables of the interpreter keep their types.
THEOREM TypeCorrect == Spec => []TypeOK
<1>1. IInv => TypeOK
  BY DEF IInv
<1> QED
  BY <1>1, Invariance, PTL

\* At most one worker at a time is between the lock and the unlock of get_app,
\* and it is the holder of the mutex.
THEOREM MutualExclusion == Spec => []Exclusive
<1>1. IInv => Exclusive
  BY DEF IInv
<1> QED
  BY <1>1, Invariance, PTL

\* All workers get the same application for a URL, and no parse is repeated or
\* thrown away, in spite of the look-up that is made without the mutex.
THEOREM OneInstancePerUrl == Spec => [](SameInstance /\ NoParseWasted)
<1>1. IInv => SameInstance /\ NoParseWasted
  BY DEF IInv
<1> QED
  BY <1>1, Invariance, PTL

\* An entry of the cache is never dropped or replaced.
THEOREM CacheOnlyGrows == Spec => CacheGrows
<1>1. IInv /\ [Next]_vars => [\A u \in Urls : apps[u] # 0 => apps'[u] = apps[u]]_vars
  <2> SUFFICES ASSUME IInv, [Next]_vars, NEW u \in Urls, apps[u] # 0
               PROVE  apps'[u] = apps[u]
    OBVIOUS
  <2>1. CASE \E w \in Workers : Insert(w)
    BY <2>1 DEF Insert, IInv, TypeOK
  <2>2. CASE UNCHANGED apps
    BY <2>2
  <2> QED
    BY <2>1, <2>2 DEF Next, Load, Reload, EditConfig, EditDoc, Call, GetApp, Build,
       Find, RacyFind, Lock, Refind, Parse, Unlock, vars
<1> QED
  BY <1>1, Invariance, PTL DEF Spec, CacheGrows

--------------------------------------------------------------------------------
(* Refinement: get_app is atomic *)

\* The outcome of a call is open until the step that ends it, and known from then
\* on, also while the mutex is still held.
Pending ==
    \A w \in Workers :
        /\ pc[w] \in {"find", "lock", "refind", "parse", "build"} => outcome[w] = "pending"
        /\ pc[w] \in {"insert", "unlock"} => outcome[w] # "pending"

\* The assignment of an outcome, worker by worker.
LEMMA OutcomeAt ==
    ASSUME TypeOK, NEW w \in Workers, NEW a, NEW o, Yield(w, a, o)
    PROVE  outcome'[w] = o /\ \A v \in Workers \ {w} : outcome'[v] = outcome[v]
BY DEF TypeOK, Yield

\* What the constructor of an application yields, as one of three answers.
LEMMA ConstructYields ==
    ASSUME TypeOK, NEW w \in Workers, Construct(w)
    PROVE  \/ doc[url[w]] = "ok" /\ made' = made + 1 /\ Yield(w, made + 1, "app")
           \/ /\ doc[url[w]] # "ok" /\ made' = made
              /\ \E o \in {"not_found", "parse_error"} : Yield(w, 0, o)
<1>1. doc[url[w]] \in {"ok", "bad", "absent"}
  BY DEF TypeOK, DocStates
<1>2. CASE doc[url[w]] = "ok"
  BY <1>2 DEF Construct
<1>3. CASE doc[url[w]] = "bad"
  BY <1>3 DEF Construct
<1>4. CASE doc[url[w]] = "absent"
  BY <1>4 DEF Construct
<1> QED
  BY <1>1, <1>2, <1>3, <1>4

\* Every step keeps outcomes open for as long as the call is undecided.
LEMMA PendingStep == IInv /\ Pending /\ [Next]_vars => Pending'
<1> SUFFICES ASSUME IInv, Pending, [Next]_vars PROVE Pending'
  OBVIOUS
<1>0. TypeOK
  BY DEF IInv
<1>1. CASE UNCHANGED <<pc, outcome>>
  BY <1>1 DEF Pending
<1>2. ASSUME NEW w \in Workers, Call(w) PROVE Pending'
  <2>1. /\ pc'[w] \in {"find", "build"} /\ outcome'[w] = "pending"
        /\ \A v \in Workers \ {w} : pc'[v] = pc[v] /\ outcome'[v] = outcome[v]
    BY <1>0, <1>2, GotoAt, OutcomeAt DEF Call
  <2> QED
    BY <2>1 DEF Pending
<1>3. ASSUME NEW w \in Workers, Build(w) \/ Parse(w) PROVE Pending'
  <2>1. \E o \in {"app", "not_found", "parse_error"}, a \in Nat : Yield(w, a, o)
    <3>1. Construct(w)
      BY <1>3 DEF Build, Parse
    <3>a. made \in Nat
      BY <1>0 DEF TypeOK
    <3>2. made + 1 \in Nat /\ 0 \in Nat
      BY <3>a
    <3> QED
      BY <1>0, <3>1, <3>2, ConstructYields
  <2>2. \E l \in {"idle", "insert", "unlock"} : Goto(w, l)
    BY <1>3 DEF Build, Parse
  <2>3. /\ pc'[w] \in {"idle", "insert", "unlock"}
        /\ outcome'[w] \in {"app", "not_found", "parse_error"}
        /\ \A v \in Workers \ {w} : pc'[v] = pc[v] /\ outcome'[v] = outcome[v]
    BY <1>0, <2>1, <2>2, GotoAt, OutcomeAt
  <2> QED
    BY <2>3 DEF Pending
<1>4. ASSUME NEW w \in Workers, Find(w) \/ RacyFind(w) \/ Refind(w) PROVE Pending'
  <2>1. \/ /\ \E l \in {"lock", "parse"} : Goto(w, l)
           /\ UNCHANGED outcome
        \/ /\ \E l \in {"idle", "crashed", "unlock"} : Goto(w, l)
           /\ \E a \in Nat, o \in {"app", "undefined"} : Yield(w, a, o)
    BY <1>0, <1>4 DEF Find, RacyFind, Refind, result, TypeOK
  <2>2. pc[w] \in {"find", "refind"}
    BY <1>4 DEF Find, RacyFind, Refind
  <2>3. CASE (\E l \in {"lock", "parse"} : Goto(w, l)) /\ UNCHANGED outcome
    <3>1. pc'[w] \in {"lock", "parse"} /\ \A v \in Workers \ {w} : pc'[v] = pc[v]
      BY <1>0, <2>3, GotoAt
    <3> QED
      BY <2>2, <2>3, <3>1 DEF Pending
  <2>4. CASE /\ \E l \in {"idle", "crashed", "unlock"} : Goto(w, l)
             /\ \E a \in Nat, o \in {"app", "undefined"} : Yield(w, a, o)
    <3>1. /\ pc'[w] \in {"idle", "crashed", "unlock"}
          /\ outcome'[w] \in {"app", "undefined"}
          /\ \A v \in Workers \ {w} : pc'[v] = pc[v] /\ outcome'[v] = outcome[v]
      BY <1>0, <2>4, GotoAt, OutcomeAt
    <3> QED
      BY <3>1 DEF Pending
  <2> QED
    BY <2>1, <2>3, <2>4
<1>5. ASSUME NEW w \in Workers, Lock(w) \/ Insert(w) \/ Unlock(w) PROVE Pending'
  <2>1. /\ UNCHANGED outcome
        /\ \/ pc[w] = "lock" /\ Goto(w, "refind")
           \/ pc[w] = "insert" /\ Goto(w, "unlock")
           \/ pc[w] = "unlock" /\ Goto(w, "idle")
    BY <1>5 DEF Lock, Insert, Unlock, result
  <2>2. /\ \A v \in Workers \ {w} : pc'[v] = pc[v]
        /\ \/ pc[w] = "lock" /\ pc'[w] = "refind"
           \/ pc[w] = "insert" /\ pc'[w] = "unlock"
           \/ pc[w] = "unlock" /\ pc'[w] = "idle"
    BY <1>0, <2>1, GotoAt
  <2> QED
    BY <2>1, <2>2 DEF Pending
<1> QED
  BY <1>1, <1>2, <1>3, <1>4, <1>5 DEF Next, GetApp, Load, Reload, EditConfig, EditDoc,
     vars, result

\* What the cache is taken to hold: the application that is being inserted, else
\* the entry of apps.
LEMMA Shown ==
    IInv => \A u \in Urls :
              /\ ShownCache[u] = apps[u] \/ apps[u] = 0
              /\ (\A w \in Workers : ~(pc[w] = "insert" /\ url[w] = u))
                    => ShownCache[u] = apps[u]
              /\ \A w \in Workers :
                    pc[w] = "insert" /\ url[w] = u => ShownCache[u] = ret[w]
<1> SUFFICES ASSUME IInv, NEW u \in Urls
             PROVE  /\ ShownCache[u] = apps[u] \/ apps[u] = 0
                    /\ (\A w \in Workers : ~(pc[w] = "insert" /\ url[w] = u))
                          => ShownCache[u] = apps[u]
                    /\ \A w \in Workers :
                          pc[w] = "insert" /\ url[w] = u => ShownCache[u] = ret[w]
  OBVIOUS
<1>1. CASE \A w \in Workers : ~(pc[w] = "insert" /\ url[w] = u)
  BY <1>1 DEF ShownCache
<1>2. CASE \E w \in Workers : pc[w] = "insert" /\ url[w] = u
  <2> DEFINE v == CHOOSE w \in Workers : pc[w] = "insert" /\ url[w] = u
  <2>1. v \in Workers /\ pc[v] = "insert" /\ url[v] = u
    BY <1>2
  <2>2. ShownCache[u] = ret[v]
    BY <1>2 DEF ShownCache
  <2>3. \A w \in Workers : pc[w] = "insert" => w = v
    BY <2>1 DEF IInv, Exclusive
  <2>4. apps[u] = 0
    BY <2>1 DEF IInv, Progress
  <2> QED
    BY <2>1, <2>2, <2>3, <2>4
<1> QED
  BY <1>1, <1>2

LEMMA ShownNext ==
    (IInv => \A u \in Urls :
              /\ ShownCache[u] = apps[u] \/ apps[u] = 0
              /\ (\A w \in Workers : ~(pc[w] = "insert" /\ url[w] = u))
                    => ShownCache[u] = apps[u]
              /\ \A w \in Workers :
                    pc[w] = "insert" /\ url[w] = u => ShownCache[u] = ret[w])'
BY Shown, PTL

\* The initial states of the interpreter show an empty cache and no call.
LEMMA InitAtomic == Init => Atomic!Init
<1> SUFFICES ASSUME Init PROVE Atomic!Init
  OBVIOUS
<1>1. ShownCache = [u \in Urls |-> 0]
  BY DEF Init, ShownCache
<1>2. ShownCall = [w \in Workers |-> "none"]
  BY DEF Init, ShownCall
<1> QED
  BY <1>1, <1>2 DEF Init, Atomic!Init

\* A step of w that decides nothing shows nothing.
LEMMA CallKept ==
    ASSUME TypeOK, NEW w \in Workers, UNCHANGED outcome,
           \A v \in Workers \ {w} : pc'[v] = pc[v],
           pc[w] # "idle", pc'[w] # "idle" \/ outcome[w] # "pending"
    PROVE  ShownCall' = ShownCall
BY DEF ShownCall, TypeOK

\* A step of w that decides its call shows its outcome.
LEMMA CallAnswered ==
    ASSUME TypeOK, TypeOK', NEW w \in Workers, NEW o,
           \A v \in Workers \ {w} : pc'[v] = pc[v] /\ outcome'[v] = outcome[v],
           outcome'[w] = o, o # "pending" \/ pc'[w] # "idle"
    PROVE  ShownCall' = [ShownCall EXCEPT ![w] = o]
BY DEF ShownCall, TypeOK

\* A step in which nobody begins or ends an insertion shows the same cache.
LEMMA CacheKept ==
    ASSUME IInv, IInv', NEW w \in Workers, UNCHANGED apps,
           pc[w] # "insert", pc'[w] # "insert",
           \A v \in Workers \ {w} : pc'[v] = pc[v] /\ ret'[v] = ret[v] /\ url'[v] = url[v]
    PROVE  ShownCache' = ShownCache
<1>1. ASSUME NEW u \in Urls PROVE ShownCache'[u] = ShownCache[u]
  <2>1. CASE \E v \in Workers : pc[v] = "insert" /\ url[v] = u
    <3>1. PICK v \in Workers : pc[v] = "insert" /\ url[v] = u
      BY <2>1
    <3>2. v # w /\ pc'[v] = "insert" /\ url'[v] = u /\ ret'[v] = ret[v]
      BY <3>1
    <3>3. ShownCache[u] = ret[v]
      BY <3>1, Shown
    <3>4. ShownCache'[u] = ret'[v]
      BY <3>2, ShownNext
    <3> QED
      BY <3>2, <3>3, <3>4
  <2>2. CASE \A v \in Workers : ~(pc[v] = "insert" /\ url[v] = u)
    <3>1. \A v \in Workers : ~(pc'[v] = "insert" /\ url'[v] = u)
      BY <2>2
    <3>2. ShownCache[u] = apps[u]
      BY <2>2, Shown
    <3>3. ShownCache'[u] = apps'[u]
      BY <3>1, ShownNext
    <3> QED
      BY <3>2, <3>3
  <2> QED
    BY <2>1, <2>2
<1>2. /\ ShownCache = [u \in Urls |-> ShownCache[u]]
      /\ ShownCache' = [u \in Urls |-> ShownCache'[u]]
  BY DEF ShownCache
<1> QED
  BY <1>1, <1>2

\* Every step of the interpreter is a step of the atomic cache or shows nothing.
LEMMA StepAtomic ==
    IInv /\ IInv' /\ Pending /\ [Next]_vars => [Atomic!Next]_(Atomic!vars)
<1> SUFFICES ASSUME IInv, IInv', Pending, [Next]_vars
             PROVE  Atomic!Next \/ UNCHANGED Atomic!vars
  OBVIOUS
<1>0. TypeOK /\ TypeOK'
  BY DEF IInv
<1>1. CASE Load
  <2>1. made = 0 /\ use_cache' \in BOOLEAN
    BY <1>0, <1>1 DEF Load, IInv, Progress, TypeOK
  <2>2. UNCHANGED <<ShownCache, ShownCall, url, ret, made>>
    BY <1>1 DEF Load, ShownCache, ShownCall, result
  <2> QED
    BY <2>1, <2>2 DEF Atomic!Next, Atomic!Configure
<1>2. CASE UNCHANGED <<use_cache, apps, pc, url, ret, outcome, made>>
  BY <1>2 DEF Atomic!vars, ShownCache, ShownCall
<1>3. ASSUME NEW w \in Workers, Call(w) PROVE Atomic!Ask(w)
  <2>1. /\ pc[w] = "idle" /\ pc'[w] \in {"find", "build"} /\ outcome'[w] = "pending"
        /\ \A v \in Workers \ {w} : /\ pc'[v] = pc[v] /\ ret'[v] = ret[v]
                                    /\ url'[v] = url[v] /\ outcome'[v] = outcome[v]
        /\ UNCHANGED <<apps, use_cache, made>>
    <3>1. /\ pc[w] = "idle" /\ Yield(w, 0, "pending")
          /\ \E l \in {"find", "build"} : Goto(w, l)
          /\ UNCHANGED <<apps, use_cache, made>>
      BY <1>3 DEF Call, config
    <3>2. \A v \in Workers \ {w} : url'[v] = url[v]
      BY <1>0, <1>3 DEF Call, TypeOK
    <3> QED
      BY <1>0, <3>1, <3>2, GotoAt, YieldAt, OutcomeAt
  <2>2. ShownCache' = ShownCache
    BY <2>1, CacheKept
  <2>3. ShownCall' = [ShownCall EXCEPT ![w] = "pending"]
    BY <1>0, <2>1, CallAnswered
  <2>4. ShownCall[w] # "pending"
    BY <2>1 DEF ShownCall
  <2>5. /\ ret' = [ret EXCEPT ![w] = 0]
        /\ \E u \in Urls : url' = [url EXCEPT ![w] = u]
    BY <1>3 DEF Call, Yield
  <2> QED
    BY <2>1, <2>2, <2>3, <2>4, <2>5 DEF Atomic!Ask, Atomic!Answer
<1>4. ASSUME NEW w \in Workers, GetApp(w)
      PROVE  Atomic!Next \/ UNCHANGED Atomic!vars
  <2>0. url[w] \in Urls
    BY <1>0 DEF TypeOK
  \* A call that is decided outside of an insertion.
  <2>1. ASSUME NEW a, NEW o, o # "pending", Yield(w, a, o),
               UNCHANGED <<apps, url, use_cache>>, pc'[w] # "insert",
               pc[w] \in {"find", "refind", "parse", "build"},
               \A v \in Workers \ {w} : pc'[v] = pc[v]
        PROVE  /\ ShownCache' = ShownCache
               /\ ShownCall[w] = "pending"
               /\ Atomic!Answer(w, a, o)
    <3>1. \A v \in Workers \ {w} : ret'[v] = ret[v] /\ outcome'[v] = outcome[v]
      BY <1>0, <2>1, YieldAt, OutcomeAt
    <3>2. outcome'[w] = o
      BY <1>0, <2>1, OutcomeAt
    <3>3. ShownCache' = ShownCache
      BY <2>1, <3>1, CacheKept
    <3>4. ShownCall' = [ShownCall EXCEPT ![w] = o]
      BY <1>0, <2>1, <3>1, <3>2, CallAnswered
    <3>5. ShownCall[w] = "pending"
      BY <2>1 DEF ShownCall, Pending
    <3>6. ret' = [ret EXCEPT ![w] = a]
      BY <2>1 DEF Yield
    <3> QED
      BY <3>3, <3>4, <3>5, <3>6 DEF Atomic!Answer
  \* A step that decides nothing, outside of an insertion.
  <2>2. ASSUME UNCHANGED <<apps, url, use_cache, ret, outcome, made>>,
               pc[w] \notin {"idle", "insert"}, pc'[w] # "insert",
               pc'[w] # "idle" \/ outcome[w] # "pending",
               \A v \in Workers \ {w} : pc'[v] = pc[v]
        PROVE  UNCHANGED Atomic!vars
    <3>1. ShownCache' = ShownCache
      BY <2>2, CacheKept
    <3>2. ShownCall' = ShownCall
      BY <1>0, <2>2, CallKept
    <3> QED
      BY <2>2, <3>1, <3>2 DEF Atomic!vars
  <2>3. CASE Build(w)
    <3>1. /\ pc[w] = "build" /\ pc'[w] = "idle" /\ UNCHANGED <<apps, url, use_cache>>
          /\ \A v \in Workers \ {w} : pc'[v] = pc[v]
      BY <1>0, <2>3, GotoAt DEF Build, config
    <3>2. ~use_cache
      BY <3>1 DEF IInv, Progress
    <3>3. CASE made' = made + 1 /\ Yield(w, made + 1, "app")
      BY <2>1, <3>1, <3>2, <3>3 DEF Atomic!Next, Atomic!Create
    <3>4. CASE made' = made /\ \E o \in {"not_found", "parse_error"} : Yield(w, 0, o)
      BY <2>1, <3>1, <3>2, <3>4 DEF Atomic!Next, Atomic!Fail
    <3> QED
      BY <1>0, <2>3, <3>3, <3>4, ConstructYields DEF Build
  <2>4. CASE Find(w)
    <3>1. pc[w] = "find" /\ UNCHANGED <<apps, url, use_cache, made>>
      BY <2>4 DEF Find, config
    <3>2. use_cache
      BY <3>1 DEF IInv, Progress
    <3>3. CASE apps[url[w]] # 0
      <4>1. /\ Yield(w, apps[url[w]], "app") /\ pc'[w] = "idle"
            /\ \A v \in Workers \ {w} : pc'[v] = pc[v]
        BY <1>0, <2>4, <3>3, GotoAt DEF Find
      <4>2. ShownCache[url[w]] = apps[url[w]]
        BY <2>0, <3>3, Shown
      <4> QED
        BY <2>1, <3>1, <3>2, <3>3, <4>1, <4>2 DEF Atomic!Next, Atomic!GetCached
    <3>4. CASE apps[url[w]] = 0
      <4>1. /\ pc'[w] = "lock" /\ UNCHANGED <<ret, outcome>>
            /\ \A v \in Workers \ {w} : pc'[v] = pc[v]
        BY <1>0, <2>4, <3>4, GotoAt DEF Find, result
      <4> QED
        BY <2>2, <3>1, <4>1
    <3> QED
      BY <3>3, <3>4
  <2>5. CASE RacyFind(w)
    <3>1. pc[w] = "find" /\ UNCHANGED <<apps, url, use_cache, made>>
      BY <2>5 DEF RacyFind, config
    <3>2. use_cache
      BY <3>1 DEF IInv, Progress
    <3>3. PICK x \in Workers :
             /\ pc[x] = "insert"
             /\ \/ Goto(w, "lock") /\ UNCHANGED result
                \/ url[x] = url[w] /\ Goto(w, "idle") /\ Yield(w, ret[x], "app")
                \/ Goto(w, "crashed") /\ Yield(w, 0, "undefined")
      BY <2>5 DEF RacyFind
    <3>4. CASE Goto(w, "lock") /\ UNCHANGED result
      <4>1. /\ pc'[w] = "lock" /\ UNCHANGED <<ret, outcome>>
            /\ \A v \in Workers \ {w} : pc'[v] = pc[v]
        BY <1>0, <3>4, GotoAt DEF result
      <4> QED
        BY <2>2, <3>1, <4>1
    <3>5. CASE url[x] = url[w] /\ Goto(w, "idle") /\ Yield(w, ret[x], "app")
      <4>1. pc'[w] = "idle" /\ \A v \in Workers \ {w} : pc'[v] = pc[v]
        BY <1>0, <3>5, GotoAt
      <4>2. ShownCache[url[w]] = ret[x]
        BY <2>0, <3>3, <3>5, Shown
      <4>3. ret[x] # 0
        BY <3>3 DEF IInv, Progress
      <4> QED
        BY <2>1, <3>1, <3>2, <3>5, <4>1, <4>2, <4>3 DEF Atomic!Next, Atomic!GetCached
    <3>6. CASE Goto(w, "crashed") /\ Yield(w, 0, "undefined")
      <4>1. pc'[w] = "crashed" /\ \A v \in Workers \ {w} : pc'[v] = pc[v]
        BY <1>0, <3>6, GotoAt
      <4> QED
        BY <2>1, <3>1, <3>2, <3>6, <4>1 DEF Atomic!Next, Atomic!Crash
    <3> QED
      BY <3>3, <3>4, <3>5, <3>6
  <2>6. CASE Lock(w)
    <3>1. /\ pc[w] = "lock" /\ pc'[w] = "refind"
          /\ UNCHANGED <<apps, url, use_cache, ret, outcome, made>>
          /\ \A v \in Workers \ {w} : pc'[v] = pc[v]
      BY <1>0, <2>6, GotoAt DEF Lock, config, result
    <3> QED
      BY <2>2, <3>1
  <2>7. CASE Refind(w)
    <3>1. pc[w] = "refind" /\ UNCHANGED <<apps, url, use_cache, made>>
      BY <2>7 DEF Refind, config
    <3>2. use_cache
      BY <3>1 DEF IInv, Progress
    <3>3. CASE apps[url[w]] # 0
      <4>1. /\ Yield(w, apps[url[w]], "app") /\ pc'[w] = "unlock"
            /\ \A v \in Workers \ {w} : pc'[v] = pc[v]
        BY <1>0, <2>7, <3>3, GotoAt DEF Refind
      <4>2. ShownCache[url[w]] = apps[url[w]]
        BY <2>0, <3>3, Shown
      <4> QED
        BY <2>1, <3>1, <3>2, <3>3, <4>1, <4>2 DEF Atomic!Next, Atomic!GetCached
    <3>4. CASE apps[url[w]] = 0
      <4>1. /\ pc'[w] = "parse" /\ UNCHANGED <<ret, outcome>>
            /\ \A v \in Workers \ {w} : pc'[v] = pc[v]
        BY <1>0, <2>7, <3>4, GotoAt DEF Refind, result
      <4> QED
        BY <2>2, <3>1, <4>1
    <3> QED
      BY <3>3, <3>4
  <2>8. CASE Parse(w)
    <3>1. /\ pc[w] = "parse" /\ UNCHANGED <<apps, url, use_cache>>
          /\ pc'[w] = IF doc[url[w]] = "ok" THEN "insert" ELSE "unlock"
          /\ \A v \in Workers \ {w} : pc'[v] = pc[v]
      BY <1>0, <2>8, GotoAt DEF Parse, config
    <3>2. use_cache /\ apps[url[w]] = 0
      BY <3>1 DEF IInv, Progress
    <3>3. \A v \in Workers : pc[v] # "insert"
      BY <3>1 DEF IInv, Exclusive
    <3>4. ShownCache[url[w]] = 0
      BY <2>0, <3>2, <3>3, Shown
    <3>5. CASE doc[url[w]] # "ok" /\ made' = made
                 /\ \E o \in {"not_found", "parse_error"} : Yield(w, 0, o)
      BY <2>1, <3>1, <3>4, <3>5 DEF Atomic!Next, Atomic!Fail
    <3>6. CASE doc[url[w]] = "ok" /\ made' = made + 1 /\ Yield(w, made + 1, "app")
      <4>1. /\ ret'[w] = made + 1 /\ outcome'[w] = "app" /\ pc'[w] = "insert"
            /\ \A v \in Workers \ {w} : ret'[v] = ret[v] /\ outcome'[v] = outcome[v]
        BY <1>0, <3>1, <3>6, YieldAt, OutcomeAt
      <4>2. ShownCall' = [ShownCall EXCEPT ![w] = "app"]
        BY <1>0, <3>1, <4>1, CallAnswered
      <4>3. ShownCall[w] = "pending"
        BY <3>1 DEF ShownCall, Pending
      <4>4. ShownCache'[url[w]] = made + 1
        BY <2>0, <3>1, <4>1, ShownNext
      <4>5. ASSUME NEW u \in Urls, u # url[w] PROVE ShownCache'[u] = ShownCache[u]
        <5>1. \A v \in Workers : ~(pc'[v] = "insert" /\ url'[v] = u)
          BY <3>1, <3>3, <4>5
        <5>2. ShownCache'[u] = apps'[u]
          BY <5>1, ShownNext
        <5>3. ShownCache[u] = apps[u]
          BY <3>3, Shown
        <5> QED
          BY <3>1, <5>2, <5>3
      <4>6. /\ ShownCache = [u \in Urls |-> ShownCache[u]]
            /\ ShownCache' = [u \in Urls |-> ShownCache'[u]]
        BY DEF ShownCache
      <4>7. ShownCache' = [ShownCache EXCEPT ![url[w]] = made + 1]
        BY <2>0, <4>4, <4>5, <4>6
      <4>8. ret' = [ret EXCEPT ![w] = made + 1]
        BY <3>6 DEF Yield
      <4> QED
        BY <3>1, <3>2, <3>4, <3>6, <4>2, <4>3, <4>7, <4>8
           DEF Atomic!Next, Atomic!CreateAndCache, Atomic!Answer
    <3> QED
      BY <1>0, <2>8, <3>5, <3>6, ConstructYields DEF Parse
  <2>9. CASE Insert(w)
    <3>1. /\ pc[w] = "insert" /\ pc'[w] = "unlock"
          /\ UNCHANGED <<url, use_cache, ret, outcome, made>>
          /\ \A v \in Workers \ {w} : pc'[v] = pc[v] /\ pc[v] # "insert"
      BY <1>0, <2>9, GotoAt DEF Insert, config, result, IInv, Exclusive
    <3>2. apps[url[w]] = 0
      BY <3>1 DEF IInv, Progress
    <3>3. apps'[url[w]] = ret[w] /\ \A u \in Urls \ {url[w]} : apps'[u] = apps[u]
      BY <1>0, <2>9, <3>2 DEF Insert, TypeOK
    <3>4. \A v \in Workers : pc'[v] # "insert"
      BY <3>1
    <3>5. ASSUME NEW u \in Urls PROVE ShownCache'[u] = ShownCache[u]
      <4>1. ShownCache'[u] = apps'[u]
        BY <3>4, ShownNext
      <4>2. CASE u = url[w]
        BY <3>1, <3>3, <4>1, <4>2, Shown
      <4>3. CASE u # url[w]
        <5>1. \A v \in Workers : ~(pc[v] = "insert" /\ url[v] = u)
          BY <3>1, <4>3
        <5> QED
          BY <3>3, <4>1, <4>3, <5>1, Shown
      <4> QED
        BY <4>2, <4>3
    <3>6. /\ ShownCache = [u \in Urls |-> ShownCache[u]]
          /\ ShownCache' = [u \in Urls |-> ShownCache'[u]]
      BY DEF ShownCache
    <3>7. ShownCache' = ShownCache
      BY <3>5, <3>6
    <3>8. ShownCall' = ShownCall
      BY <1>0, <3>1, CallKept
    <3> QED
      BY <3>1, <3>7, <3>8 DEF Atomic!vars
  <2>10. CASE Unlock(w)
    <3>1. /\ pc[w] = "unlock" /\ pc'[w] = "idle"
          /\ UNCHANGED <<apps, url, use_cache, ret, outcome, made>>
          /\ \A v \in Workers \ {w} : pc'[v] = pc[v]
      BY <1>0, <2>10, GotoAt DEF Unlock, config, result
    <3>2. outcome[w] # "pending"
      BY <3>1 DEF Pending
    <3> QED
      BY <2>2, <3>1, <3>2
  <2> QED
    BY <1>4, <2>3, <2>4, <2>5, <2>6, <2>7, <2>8, <2>9, <2>10 DEF GetApp
<1>5. CASE Reload \/ EditConfig \/ EditDoc \/ UNCHANGED vars
  BY <1>2, <1>5 DEF Reload, EditConfig, EditDoc, vars, config, result
<1> QED
  BY <1>1, <1>3, <1>4, <1>5 DEF Next, Atomic!Next

\* get_app is atomic for any number of workers, documents and configuration files:
\* each call finds, or creates and caches, the one application of its URL at some
\* instant of the call.
THEOREM GetAppIsAtomic == Spec => GetAppAtomic
<1>1. Init => Atomic!Init
  BY InitAtomic
<1>2. Init => Pending
  BY DEF Init, Pending
<1>3. IInv /\ Pending /\ [Next]_vars => Pending'
  BY PendingStep
<1>4. IInv /\ IInv' /\ Pending /\ [Next]_vars => [Atomic!Next]_(Atomic!vars)
  BY StepAtomic
<1>5. Spec => Atomic!Init /\ [][Atomic!Next]_(Atomic!vars)
  BY <1>1, <1>2, <1>3, <1>4, Invariance, PTL DEF Spec
<1> QED
  BY <1>5 DEF GetAppAtomic, Atomic!Spec

\* No application that was built with the cache on is thrown away.
THEOREM ParsedOnce == Spec => []NoParseWasted
<1>1. IInv => NoParseWasted
  BY DEF IInv
<1> QED
  BY <1>1, Invariance, PTL

================================================================================
