---------------------------- MODULE TagMachineProofs ----------------------------
(***************************************************************************)
(* Proofs about TagMachine for scripts of any nesting, any values and any  *)
(* number of leaked layers: the layers and the call stack of the context   *)
(* are balanced, no ended invocation stays on the call stack, and, as long *)
(* as no layer has leaked, the layers belong to the running activations    *)
(* and give a variable its value back when its dbp:var ends.               *)
(***************************************************************************)
EXTENDS TagMachine, Induction, SequenceTheorems

--------------------------------------------------------------------------------
(* Sequences and the innermost layer *)

\* The innermost of some layers is one of them, and no other is further in.
LEMMA InnermostIn ==
    ASSUME NEW n \in Nat, NEW S \in SUBSET (1..n), S # {}
    PROVE  Innermost(S) \in S /\ \A j \in S : j <= Innermost(S)
<1>1. S \in SUBSET (0..n)
  OBVIOUS
<1>2. \E x \in S : \A y \in S : y <= x
  BY <1>1, GreatestElement
<1> QED
  BY <1>2 DEF Innermost

\* What dropping the last element leaves.
LEMMA FrontProperties ==
    ASSUME NEW S, NEW s \in Seq(S), s # <<>>
    PROVE  /\ Len(s) \in Nat /\ Len(s) >= 1
           /\ Front(s) \in Seq(S)
           /\ Len(Front(s)) = Len(s) - 1
           /\ \A i \in 1..(Len(s) - 1) : Front(s)[i] = s[i]
           /\ Last(s) \in S
<1>1. Len(s) \in Nat /\ Len(s) >= 1
  OBVIOUS
<1>2. 1 \in Int /\ Len(s) - 1 \in Int /\ \A i \in 1..(Len(s) - 1) : s[i] \in S
  BY <1>1
<1> DEFINE f == SubSeq(s, 1, Len(s) - 1)
<1>3. /\ f \in Seq(S)
      /\ Len(f) = IF 1 <= Len(s) - 1 THEN Len(s) - 1 - 1 + 1 ELSE 0
      /\ \A i \in 1..(Len(s) - 1 - 1 + 1) : f[i] = s[1 + i - 1]
  BY <1>2, SubSeqProperties
<1> HIDE DEF f
<1>4. Len(f) = Len(s) - 1
  <2> DEFINE n == Len(s)
  <2> HIDE DEF n
  <2>1. n \in Nat /\ n >= 1 /\ Len(f) = IF 1 <= n - 1 THEN n - 1 - 1 + 1 ELSE 0
    BY <1>1, <1>3 DEF n
  <2>2. Len(f) = n - 1
    BY <2>1
  <2> QED
    BY <2>2 DEF n
<1>5. \A i \in 1..(Len(s) - 1) : f[i] = s[i]
  BY <1>1, <1>3
<1>6. Last(s) \in S
  BY <1>1 DEF Last
<1> QED
  BY <1>1, <1>3, <1>4, <1>5, <1>6 DEF Front, f

\* Of an empty sequence nothing is left either.
LEMMA FrontType ==
    ASSUME NEW S, NEW s \in Seq(S)
    PROVE  Front(s) \in Seq(S)
<1>1. CASE s = <<>>
  <2>1. SubSeq(<<>>, 1, -1) = <<>>
    BY SubSeqEmpty
  <2>2. Front(s) = <<>>
    BY <1>1, <2>1 DEF Front
  <2> QED
    BY <2>2
<1>2. CASE s # <<>>
  BY <1>2, FrontProperties
<1> QED
  BY <1>1, <1>2

\* Dropping the element just appended gives the sequence back, and appending
\* the last one to the front does.
LEMMA FrontAppend ==
    ASSUME NEW S, NEW s \in Seq(S), NEW e \in S
    PROVE  Front(Append(s, e)) = s
BY DEF Front

LEMMA AppendFront ==
    ASSUME NEW S, NEW s \in Seq(S), s # <<>>
    PROVE  Append(Front(s), Last(s)) = s
BY DEF Front, Last

\* The visible value of the variable is a value or undefined.
LEMMA LocalValueType ==
    ASSUME NEW ls \in Seq(Layer)
    PROVE  LocalValue(ls) \in Values \cup {Undef}
<1>1. CASE Defining(ls) = {}
  BY <1>1 DEF LocalValue
<1>2. CASE Defining(ls) # {}
  <2>1. Len(ls) \in Nat /\ Defining(ls) \in SUBSET (1..Len(ls))
    BY DEF Defining
  <2>2. Innermost(Defining(ls)) \in 1..Len(ls)
    BY <1>2, <2>1, InnermostIn
  <2>3. ls[Innermost(Defining(ls))] \in Layer
    BY <2>2
  <2> QED
    BY <1>2, <2>3 DEF LocalValue, Layer
<1> QED
  BY <1>1, <1>2

--------------------------------------------------------------------------------
(* Types *)

LEMMA TopType ==
    ASSUME TypeOK, frames # <<>>
    PROVE  Top \in Frame
BY FrontProperties DEF TypeOK, Top

\* The activation of a child is a frame.
LEMMA InnerType ==
    ASSUME TypeOK, frames # <<>>, NEW k \in FrameKinds, NEW d \in {0, 1}
    PROVE  Inner(k, d) \in Frame
<1>1. Top \in Frame
  BY TopType
<1>2. LocalValue(layers) \in Values \cup {Undef}
  BY LocalValueType DEF TypeOK
<1> QED
  BY <1>1, <1>2 DEF Inner, Frame

\* A child that opens a layer, or none, keeps the types.
LEMMA EnterScopeType ==
    ASSUME TypeOK, NEW k \in FrameKinds, NEW l \in Layer, EnterScope(k, l)
    PROVE  TypeOK'
<1>1. frames # <<>>
  BY DEF EnterScope, CanStart, Running
<1>2. Inner(k, 1) \in Frame
  BY <1>1, InnerType
<1>3. frames' \in Seq(Frame)
  BY <1>2 DEF TypeOK, EnterScope
<1>4. layers' \in Seq(Layer)
  BY DEF TypeOK, EnterScope
<1> QED
  BY <1>3, <1>4 DEF TypeOK, EnterScope, history

LEMMA EnterPlainType ==
    ASSUME TypeOK, NEW k \in FrameKinds, NEW h \in BOOLEAN, EnterPlain(k, h)
    PROVE  TypeOK'
<1>1. frames # <<>>
  BY DEF EnterPlain, CanStart, Running
<1>2. Inner(k, 0) \in Frame
  BY <1>1, InnerType
<1>3. [Inner(k, 0) EXCEPT !.handler = h] \in Frame
  BY <1>2 DEF Frame
<1>4. frames' \in Seq(Frame)
  BY <1>3 DEF TypeOK, EnterPlain
<1> QED
  BY <1>4 DEF TypeOK, EnterPlain, ctx, history

\* The layers that tags put on the stack.
LEMMA LayerTypes ==
    /\ NoVars \in Layer
    /\ \A v \in Values \cup {Undef} : [NoVars EXCEPT !.x = v] \in Layer
    /\ \A n \in Nat : [NoVars EXCEPT !.list = n] \in Layer
    /\ [NoVars EXCEPT !.html = TRUE] \in Layer
BY DEF NoVars, Layer

\* Starting a tag keeps the types.
LEMMA StartType == TypeOK /\ Start => TypeOK'
<1> SUFFICES ASSUME TypeOK, Start PROVE TypeOK'
  OBVIOUS
<1>0. AllKinds \ {"leaf"} \subseteq FrameKinds
  BY DEF FrameKinds
<1>k. {"var", "outervar", "set", "while", "switch", "case", "try", "throw",
       "split", "substr", "regexp", "locale", "list", "element", "html",
       "inner html", "usr", "call", "execute", "tag"} \subseteq FrameKinds
  BY DEF FrameKinds, AllKinds
<1>1. CASE StartVar
  BY <1>1, <1>k, LayerTypes, EnterScopeType DEF StartVar
<1>2. CASE StartOuterVar
  <2>1. frames # <<>>
    BY <1>2 DEF StartOuterVar, CanStart, Running
  <2>2. Inner("outervar", 1) \in Frame
    BY <2>1, <1>k, InnerType
  <2>3. frames' \in Seq(Frame)
    <3>1. frames' = frames \/ frames' = Append(frames, Inner("outervar", 1))
      BY <1>2 DEF StartOuterVar
    <3> QED
      BY <3>1, <2>2 DEF TypeOK
  <2>5. layers' \in Seq(Layer)
    <3>1. layers' = layers \/ layers' = Append(layers, NoVars)
      BY <1>2 DEF StartOuterVar
    <3>2. NoVars \in Layer /\ layers \in Seq(Layer)
      BY LayerTypes DEF TypeOK
    <3> QED
      BY <3>1, <3>2
  <2>4. outer' \in Values \cup {Undef} /\ thrown' \in Exceptions \cup {"none"}
    BY <1>2 DEF StartOuterVar, TypeOK, Exceptions
  <2> QED
    BY <1>2, <2>3, <2>4, <2>5 DEF StartOuterVar, TypeOK, history
<1>3. CASE StartSet \/ StartWhile \/ StartCase \/ StartThrow
  BY <1>3, <1>k, EnterPlainType DEF StartSet, StartWhile, StartCase, StartThrow
<1>4. CASE StartTry
  BY <1>4, <1>k, EnterPlainType DEF StartTry
<1>5. CASE StartSwitch \/ StartLocale
  BY <1>5, <1>k, LayerTypes, EnterScopeType DEF StartSwitch, StartLocale
<1>6. CASE StartSubstr
  BY <1>6, <1>k, LayerTypes, EnterScopeType DEF StartSubstr
<1>7. CASE StartRegexp
  BY <1>7, <1>k, LayerTypes, EnterScopeType DEF StartRegexp
<1>8. CASE StartHtml
  BY <1>8, <1>k, LayerTypes, EnterScopeType, EnterPlainType DEF StartHtml
<1>9. CASE StartList
  <2>1. Len(frames) + 1 \in Nat
    BY DEF TypeOK
  <2> QED
    BY <1>9, <2>1, <1>k, LayerTypes, EnterScopeType DEF StartList
<1>10. CASE StartElement
  <2>1. CASE VisibleList(layers) # 0
    BY <1>10, <2>1, <1>k, LayerTypes, EnterScopeType DEF StartElement
  <2>2. CASE VisibleList(layers) = 0
    BY <1>10, <2>2 DEF StartElement, TypeOK, Exceptions, ctx, history
  <2> QED
    BY <2>1, <2>2
<1>11. CASE StartSplit
  BY <1>11, <1>k, LayerTypes, EnterScopeType DEF StartSplit
<1>12. ASSUME NEW k \in FrameKinds, Invoke(k) PROVE TypeOK'
  <2> DEFINE g == [Inner(k, 1) EXCEPT !.caller = "usr",
                                      !.scope = Append(Top.scope, Len(frames) + 1)]
  <2>1. frames # <<>> /\ Len(frames) + 1 \in Nat
    BY <1>12 DEF Invoke, CanStart, Running, TypeOK
  <2>2. Inner(k, 1) \in Frame /\ Top \in Frame
    BY <2>1, InnerType, TopType
  <2>3. Append(Top.scope, Len(frames) + 1) \in Seq(Nat)
    BY <2>1, <2>2 DEF Frame
  <2>4. g \in Frame
    BY <2>2, <2>3 DEF Frame
  <2>5. frames' \in Seq(Frame)
    BY <1>12, <2>4 DEF Invoke, TypeOK
  <2>6. exec' \in Seq(Nat)
    BY <1>12, <2>1 DEF Invoke, PushCall, TypeOK
  <2>7. layers' \in Seq(Layer)
    BY <1>12, LayerTypes DEF Invoke, TypeOK
  <2> QED
    BY <1>12, <2>5, <2>6, <2>7 DEF Invoke, TypeOK, history
<1>13. CASE StartUsr \/ StartCall
  BY <1>12, <1>13, <1>k DEF StartUsr, StartCall
<1>14. CASE StartTag
  BY <1>14, <1>k, EnterPlainType DEF StartTag
<1>15. CASE StartExecute
  <2>1. frames # <<>> /\ exec # <<>> /\ exec \in Seq(Nat)
    BY <1>15 DEF StartExecute, CanStart, Running, TypeOK
  <2>2. Inner("execute", 0) \in Frame /\ Top \in Frame
    BY <2>1, <1>k, InnerType, TopType
  <2>3. Last(exec) \in Nat /\ Front(exec) \in Seq(Nat)
    BY <2>1, FrontProperties
  <2>4. Front(Top.scope) \in Seq(Nat)
    <3>1. Top.scope \in Seq(Nat)
      BY <2>2 DEF Frame
    <3> QED
      BY <3>1, FrontType
  <2>5. frames' \in Seq(Frame)
    <3>1. PICK c \in {"execute", "usr"} :
            frames' = Append(frames, [Inner("execute", 0) EXCEPT
                        !.caller = c, !.target = Last(exec), !.scope = Front(Top.scope)])
      BY <1>15 DEF StartExecute
    <3>2. [Inner("execute", 0) EXCEPT
             !.caller = c, !.target = Last(exec), !.scope = Front(Top.scope)] \in Frame
      BY <2>2, <2>3, <2>4 DEF Frame
    <3> QED
      BY <3>1, <3>2 DEF TypeOK
  <2>6. exec' \in Seq(Nat)
    BY <1>15, <2>1, <2>3 DEF StartExecute, PopCall
  <2> QED
    BY <1>15, <2>5, <2>6 DEF StartExecute, TypeOK, history
<1> QED
  BY <1>1, <1>2, <1>3, <1>4, <1>5, <1>6, <1>7, <1>8, <1>9, <1>10, <1>11, <1>13,
     <1>14, <1>15 DEF Start

\* Popping the call stack, empty or not, keeps its type.
LEMMA PopCallType == TypeOK /\ PopCall => exec' \in Seq(Nat)
BY FrontType DEF TypeOK, PopCall

\* Ending an activation keeps the type of the stack, and so does leaving a layer.
LEMMA PopType ==
    /\ TypeOK /\ Pop => frames' \in Seq(Frame)
    /\ TypeOK /\ layers' = Front(layers) => layers' \in Seq(Layer)
BY FrontType DEF TypeOK, Pop

\* An exception that a tag raises keeps the types.
LEMMA RaiseType == TypeOK /\ Raise => TypeOK'
<1> SUFFICES ASSUME TypeOK, Raise PROVE TypeOK'
  OBVIOUS
<1>1. CASE LeafThrows
  BY <1>1 DEF LeafThrows, TypeOK, Exceptions, ctx, history
<1>2. CASE Throw
  BY <1>2 DEF Throw, TypeOK, Exceptions, ctx, history
<1>3. CASE SplitParameterThrows
  <2>1. layers' \in Seq(Layer)
    BY <1>3, LayerTypes DEF SplitParameterThrows, TypeOK
  <2> QED
    BY <1>3, <2>1 DEF SplitParameterThrows, TypeOK, Exceptions
<1>4. CASE ExecuteParameterThrows
  <2>1. exec' \in Seq(Nat)
    BY <1>4, PopCallType DEF ExecuteParameterThrows
  <2> QED
    BY <1>4, <2>1 DEF ExecuteParameterThrows, TypeOK, Exceptions
<1> QED
  BY <1>1, <1>2, <1>3, <1>4 DEF Raise

\* Assigning to the variable keeps the types.
LEMMA SetValueType ==
    ASSUME TypeOK, NEW v \in Values, SetValue(v)
    PROVE  /\ layers' \in Seq(Layer) /\ Len(layers') = Len(layers)
           /\ outer' \in Values \cup {Undef}
           /\ thrown' \in Exceptions \cup {"none"}
<1>1. CASE Defining(layers) # {}
  <2> DEFINE i == Innermost(Defining(layers))
  <2>1. Len(layers) \in Nat /\ Defining(layers) \in SUBSET (1..Len(layers))
    BY DEF Defining, TypeOK
  <2>2. i \in 1..Len(layers)
    BY <1>1, <2>1, InnermostIn
  <2>3. layers' = [layers EXCEPT ![i].x = v] /\ UNCHANGED <<outer, thrown>>
    BY <1>1 DEF SetValue
  <2> HIDE DEF i
  <2>4. [layers[i] EXCEPT !.x = v] \in Layer
    <3>1. layers[i] \in Layer
      BY <2>2 DEF TypeOK
    <3> QED
      BY <3>1 DEF Layer
  <2>5. layers' = [layers EXCEPT ![i] = [layers[i] EXCEPT !.x = v]]
    BY <2>3
  <2>6. layers' \in Seq(Layer) /\ Len(layers') = Len(layers)
    BY <2>2, <2>4, <2>5, ExceptSeq DEF TypeOK
  <2> QED
    BY <2>3, <2>6 DEF TypeOK
<1>2. CASE Defining(layers) = {}
  BY <1>2 DEF SetValue, TypeOK, Exceptions
<1> QED
  BY <1>1, <1>2

\* The end of a tag's content keeps the types.
LEMMA EndType == TypeOK /\ End => TypeOK'
<1> SUFFICES ASSUME TypeOK, End PROVE TypeOK'
  OBVIOUS
<1>1. CASE LeaveScope
  BY <1>1, PopType DEF LeaveScope, TypeOK, history
<1>2. CASE EndInvocation
  BY <1>2, PopType, PopCallType DEF EndInvocation, TypeOK, history
<1>3. CASE EndExecute
  <2>1. Top \in Frame
    BY <1>3, TopType DEF EndExecute, Ending, Running
  <2>2. Top.target \in Nat
    BY <2>1 DEF Frame
  <2>3. exec' \in Seq(Nat)
    BY <1>3, <2>2 DEF EndExecute, PushCall, TypeOK
  <2> QED
    BY <1>3, <2>3, PopType DEF EndExecute, TypeOK, history
<1>4. CASE EndSet
  <2>1. PICK v \in Values : SetValue(v)
    BY <1>4 DEF EndSet
  <2> QED
    BY <1>4, <2>1, PopType, SetValueType DEF EndSet, TypeOK, history
<1>5. CASE EndCase
  BY <1>5, PopType DEF EndCase, TypeOK, ctx, history, Exceptions
<1>6. CASE EndThrow
  BY <1>6, PopType DEF EndThrow, TypeOK, ctx, history, Exceptions
<1>7. CASE EndPlain
  BY <1>7, PopType DEF EndPlain, TypeOK, ctx, history
<1>8. CASE SplitNext
  <2>1. PICK v \in Values : SetValue(v)
    BY <1>8 DEF SplitNext
  <2> QED
    BY <1>8, <2>1, SetValueType DEF SplitNext, TypeOK, history
<1> QED
  BY <1>1, <1>2, <1>3, <1>4, <1>5, <1>6, <1>7, <1>8 DEF End

\* The activation of a dbp:catch, which replaces that of its dbp:try.
Caught == [Top EXCEPT !.kind = "catch", !.handler = FALSE, !.depth = Top.depth + 1]

\* Unwinding an activation, or handling the exception in it, keeps the types.
LEMMA UnwindType == TypeOK /\ Unwind => TypeOK'
<1> SUFFICES ASSUME TypeOK, Unwind PROVE TypeOK'
  OBVIOUS
<1>1. CASE UnwindScope
  BY <1>1, PopType DEF UnwindScope, TypeOK, history
<1>2. CASE SwitchDone
  BY <1>2, PopType DEF SwitchDone, TypeOK, history
<1>3. CASE UnwindInvocation
  BY <1>3, PopType, PopCallType DEF UnwindInvocation, TypeOK, history
<1>4. CASE UnwindExecute
  BY <1>4, PopType DEF UnwindExecute, TypeOK, ctx
<1>5. CASE Handle
  <2>1. frames \in Seq(Frame) /\ frames # <<>> /\ Top \in Frame
    BY <1>5, TopType DEF Handle, Unwinding, TypeOK
  <2>2. Caught \in Frame
    <3>1. Top.depth + 1 \in Nat /\ "catch" \in FrameKinds
      BY <2>1 DEF Frame, FrameKinds
    <3> QED
      BY <2>1, <3>1 DEF Caught, Frame
  <2>3. frames' = [frames EXCEPT ![Len(frames)] = Caught]
    BY <1>5 DEF Handle, Caught
  <2>4. Len(frames) \in 1..Len(frames)
    BY <2>1
  <2>5. frames' \in Seq(Frame)
    BY <2>1, <2>2, <2>3, <2>4, ExceptSeq
  <2>6. layers' \in Seq(Layer)
    BY <1>5, LayerTypes DEF Handle, TypeOK
  <2> QED
    BY <1>5, <2>5, <2>6 DEF Handle, TypeOK, history
<1>6. CASE UnwindPlain
  BY <1>6, PopType DEF UnwindPlain, TypeOK, ctx, history
<1> QED
  BY <1>1, <1>2, <1>3, <1>4, <1>5, <1>6 DEF Unwind

\* The activation of the root tag.
Module == [kind |-> "module", caller |-> "none", target |-> 0, handler |-> FALSE,
           depth |-> 1, scope |-> <<>>, saved |-> Undef]

\* The start of a request establishes the types.
LEMMA ExecuteType == TypeOK /\ Execute => TypeOK'
<1> SUFFICES ASSUME Execute, TypeOK PROVE TypeOK'
  OBVIOUS
<1>1. Module \in Frame
  BY DEF Module, Frame, FrameKinds
<1>2. frames' = <<Module>>
  BY DEF Execute, Module
<1>3. frames' \in Seq(Frame)
  BY <1>1, <1>2
<1>4. layers' \in Seq(Layer)
  BY LayerTypes DEF Execute
<1>5. exec' \in Seq(Nat)
  BY DEF Execute
<1> QED
  BY <1>3, <1>4, <1>5 DEF Execute, TypeOK

\* Every step keeps the types.
LEMMA TypeStep == TypeOK /\ [Next]_vars => TypeOK'
<1> SUFFICES ASSUME TypeOK, [Next]_vars PROVE TypeOK'
  OBVIOUS
<1>1. CASE UNCHANGED vars
  BY <1>1 DEF vars, TypeOK
<1> QED
  BY <1>1, ExecuteType, StartType, RaiseType, EndType, UnwindType DEF Next

\* Whatever the script does, the context, the stack of activations and the
\* exception in flight keep their types.
THEOREM TypeCorrect == Spec => []TypeOK
<1>1. Init => TypeOK
  <2> SUFFICES ASSUME Init PROVE TypeOK
    OBVIOUS
  <2>1. frames \in Seq(Frame) /\ layers \in Seq(Layer) /\ exec \in Seq(Nat)
    BY DEF Init
  <2> QED
    BY <2>1 DEF Init, TypeOK
<1> QED
  BY <1>1, TypeStep, PTL DEF Spec

--------------------------------------------------------------------------------
(* The context is balanced *)

\* An activation that frees a layer finds one.
LEMMA LayerPresent ==
    ASSUME TypeOK, Balanced, frames # <<>>, Top.kind \in Scoped
    PROVE  layers # <<>>
<1> DEFINE n == Len(frames)
<1>1. n \in Nat /\ n >= 1 /\ Top = frames[n]
  BY DEF TypeOK, Top, Last
<1>2. n > 1
  BY <1>1 DEF Balanced, Scoped
<1>3. n - 1 \in 1..n /\ n - 1 \in 1..(n - 1) /\ n - 1 + 1 = n
  BY <1>1, <1>2
<1>4. frames[n - 1] \in Frame
  BY <1>3 DEF TypeOK
<1>5. DepthLinked(frames[n - 1], frames[n - 1 + 1])
  BY <1>3 DEF Balanced
<1>6. Top.depth = frames[n - 1].depth + 1 /\ frames[n - 1].depth \in Nat
  BY <1>1, <1>3, <1>4, <1>5 DEF DepthLinked, Frame
<1>7. Len(layers) = Top.depth + leaks /\ leaks \in Nat
  BY DEF Balanced, LayersBalanced, TypeOK
<1> QED
  BY <1>6, <1>7

\* A step that starts an activation linked to the innermost one.
LEMMA PushStep ==
    ASSUME TypeOK, Balanced, frames # <<>>, NEW g \in Frame,
           frames' = Append(frames, g), lost' = lost, leaks' = leaks,
           DepthLinked(Top, g), ~lost => ScopeLinked(Top, g, Len(frames) + 1),
           Len(layers') = g.depth + leaks, ~lost => exec' = g.scope
    PROVE  Balanced'
<1> DEFINE n == Len(frames)
<1>1. n \in Nat /\ n >= 1 /\ Top = frames[n]
  BY DEF TypeOK, Top, Last
<1>2. /\ Len(frames') = n + 1
      /\ frames'[n + 1] = g
      /\ \A i \in 1..n : frames'[i] = frames[i]
  BY DEF TypeOK
<1>3. frames' # <<>> /\ Top' = g
  BY <1>1, <1>2 DEF Top, Last
<1>4. frames'[1].depth = 1 /\ frames'[1].kind = "module"
  BY <1>1, <1>2 DEF Balanced
<1>5. ASSUME NEW i \in 1..(Len(frames') - 1)
      PROVE  /\ DepthLinked(frames'[i], frames'[i + 1])
             /\ ~lost' => ScopeLinked(frames'[i], frames'[i + 1], i + 1)
  <2> HIDE DEF n
  <2>1. i \in 1..n
    BY <1>1, <1>2
  <2>2. CASE i = n
    BY <1>1, <1>2, <2>1, <2>2 DEF n
  <2>3. CASE i # n
    <3>1. i \in 1..(n - 1) /\ i + 1 \in 1..n
      BY <1>1, <2>1, <2>3
    <3>2. frames'[i] = frames[i] /\ frames'[i + 1] = frames[i + 1]
      BY <1>2, <2>1, <3>1
    <3> QED
      BY <3>1, <3>2 DEF Balanced, n
  <2> QED
    BY <2>2, <2>3
<1>6. LayersBalanced' /\ CallsBalanced'
  BY <1>3 DEF LayersBalanced, CallsBalanced
<1> QED
  BY <1>3, <1>4, <1>5, <1>6 DEF Balanced

\* What the context must be when the innermost activation goes.
Restored ==
    /\ Len(layers') = Len(layers) - (IF Top.kind \in Scoped THEN 1 ELSE 0)
    /\ ~lost' => /\ Top.kind \in {"usr", "call"} => exec' = Front(exec)
                 /\ Top.kind = "execute" => exec' = Append(exec, Top.target)
                 /\ Top.kind \notin {"usr", "call", "execute"} => exec' = exec

\* A step that ends the innermost activation and restores the context.
LEMMA PopStep ==
    ASSUME TypeOK, Balanced, frames # <<>>, Pop, leaks' = leaks,
           ~lost' => ~lost, Restored
    PROVE  Balanced'
<1> DEFINE n == Len(frames)
<1>1. /\ n \in Nat /\ n >= 1 /\ Top = frames[n]
      /\ Len(frames') = n - 1
      /\ \A i \in 1..(n - 1) : frames'[i] = frames[i]
  BY FrontProperties DEF TypeOK, Pop, Top, Last
<1>2. CASE n = 1
  <2>1. frames' = <<>>
    BY <1>1, <1>2, FrontType DEF TypeOK, Pop
  <2> QED
    BY <1>1, <1>2, <2>1 DEF Balanced, LayersBalanced, CallsBalanced
<1>3. CASE n > 1
  <2> DEFINE f == frames[n - 1]
  <2> HIDE DEF n, f
  <2>0. f \in Frame /\ Top \in Frame
    BY <1>1, <1>3, TopType DEF TypeOK, f, n
  <2>1. frames' # <<>> /\ Top' = f
    <3>1. Len(frames') >= 1 /\ n - 1 \in 1..(n - 1)
      BY <1>1, <1>3
    <3>2. frames'[n - 1] = f
      BY <1>1, <3>1 DEF f
    <3> QED
      BY <1>1, <3>1, <3>2 DEF Top, Last
  <2>2. DepthLinked(f, Top) /\ (~lost => ScopeLinked(f, Top, n))
    <3>1. n - 1 \in 1..(n - 1) /\ n - 1 + 1 = n
      BY <1>1, <1>3
    <3>2. /\ DepthLinked(frames[n - 1], frames[n - 1 + 1])
          /\ ~lost => ScopeLinked(frames[n - 1], frames[n - 1 + 1], n - 1 + 1)
      BY <3>1 DEF Balanced, n
    <3> QED
      BY <1>1, <3>1, <3>2 DEF f
  <2>3. Len(layers') = f.depth + leaks'
    <3>1. Len(layers) = Top.depth + leaks /\ f.depth \in Nat /\ leaks \in Nat
      BY <2>0 DEF Balanced, LayersBalanced, Frame, TypeOK
    <3>2. Top.depth = f.depth + (IF Top.kind \in Scoped THEN 1 ELSE 0)
      BY <2>2 DEF DepthLinked
    <3>3. Len(layers') = Len(layers) - (IF Top.kind \in Scoped THEN 1 ELSE 0)
      BY DEF Restored
    <3> QED
      BY <3>1, <3>2, <3>3
  <2>4. ~lost' => exec' = f.scope
    <3> SUFFICES ASSUME ~lost' PROVE exec' = f.scope
      OBVIOUS
    <3>1. exec = Top.scope /\ ScopeLinked(f, Top, n)
      BY <2>2 DEF Balanced, CallsBalanced
    <3>2. f.scope \in Seq(Nat) /\ n \in Nat
      BY <1>1, <2>0 DEF Frame
    <3>3. CASE Top.kind \in {"usr", "call"}
      <4>1. exec' = Front(Append(f.scope, n))
        BY <3>1, <3>3 DEF Restored, ScopeLinked
      <4> QED
        BY <3>2, <4>1, FrontAppend
    <3>4. CASE Top.kind = "execute"
      <4>1. f.scope # <<>> /\ exec' = Append(Front(f.scope), Last(f.scope))
        BY <3>1, <3>4 DEF Restored, ScopeLinked
      <4> QED
        BY <3>2, <4>1, AppendFront
    <3>5. CASE Top.kind \notin {"usr", "call", "execute"}
      BY <3>1, <3>5 DEF Restored, ScopeLinked
    <3> QED
      BY <3>3, <3>4, <3>5
  <2>5. LayersBalanced' /\ CallsBalanced'
    BY <2>1, <2>3, <2>4 DEF LayersBalanced, CallsBalanced
  <2>6. frames'[1].depth = 1 /\ frames'[1].kind = "module"
    <3>1. 1 \in 1..(n - 1)
      BY <1>1, <1>3
    <3> QED
      BY <1>1, <3>1 DEF Balanced
  <2>7. ASSUME NEW i \in 1..(Len(frames') - 1)
        PROVE  /\ DepthLinked(frames'[i], frames'[i + 1])
               /\ ~lost' => ScopeLinked(frames'[i], frames'[i + 1], i + 1)
    <3>1. i \in 1..(n - 1) /\ i + 1 \in 1..(n - 1)
      BY <1>1
    <3>2. frames'[i] = frames[i] /\ frames'[i + 1] = frames[i + 1]
      BY <1>1, <3>1
    <3> QED
      BY <3>1, <3>2 DEF Balanced, n
  <2> QED
    BY <2>5, <2>6, <2>7 DEF Balanced
<1> QED
  BY <1>1, <1>2, <1>3

\* A step that leaves the stack of activations alone.
LEMMA StayStep ==
    ASSUME TypeOK, Balanced, frames' = frames, ~lost' => ~lost /\ exec' = exec,
           leaks' \in Nat, Len(layers') \in Nat, Len(layers') - leaks' = Len(layers) - leaks
    PROVE  Balanced'
<1>1. Top' = Top
  BY DEF Top
<1>2. LayersBalanced'
  <2> SUFFICES ASSUME frames # <<>> PROVE Len(layers') = Top.depth + leaks'
    BY <1>1 DEF LayersBalanced
  <2>1. Len(layers) = Top.depth + leaks /\ Top.depth \in Nat /\ leaks \in Nat
    BY TopType DEF Balanced, LayersBalanced, TypeOK, Frame
  <2> QED
    BY <2>1
<1>3. CallsBalanced'
  BY <1>1 DEF Balanced, CallsBalanced
<1> QED
  BY <1>2, <1>3 DEF Balanced

\* Starting a tag keeps the balance.
LEMMA EnterScopeBalanced ==
    ASSUME TypeOK, Balanced, NEW k \in FrameKinds, NEW l \in Layer, EnterScope(k, l),
           k \in Scoped \ {"usr", "call"}
    PROVE  Balanced'
<1>1. frames # <<>> /\ Top \in Frame /\ Inner(k, 1) \in Frame
  BY TopType, InnerType DEF EnterScope, CanStart, Running
<1>2. DepthLinked(Top, Inner(k, 1))
  BY DEF DepthLinked, Inner
<1>3. ScopeLinked(Top, Inner(k, 1), Len(frames) + 1)
  BY DEF ScopeLinked, Inner, Scoped
<1>4. Len(layers') = Inner(k, 1).depth + leaks
  <2>1. Len(layers') = Len(layers) + 1
    BY DEF EnterScope, TypeOK
  <2>2. Len(layers) = Top.depth + leaks /\ Top.depth \in Nat /\ leaks \in Nat
    BY <1>1 DEF Balanced, LayersBalanced, TypeOK, Frame
  <2>3. Inner(k, 1).depth = Top.depth + 1
    BY DEF Inner
  <2>4. \A d, e \in Nat : d + e + 1 = d + 1 + e
    OBVIOUS
  <2> QED
    BY <2>1, <2>2, <2>3, <2>4
<1>5. ~lost => exec' = Inner(k, 1).scope
  BY <1>1 DEF EnterScope, Inner, Balanced, CallsBalanced
<1> QED
  BY <1>1, <1>2, <1>3, <1>4, <1>5, PushStep DEF EnterScope, history

LEMMA EnterPlainBalanced ==
    ASSUME TypeOK, Balanced, NEW k \in FrameKinds, NEW h \in BOOLEAN, EnterPlain(k, h),
           k \notin Scoped, k # "execute"
    PROVE  Balanced'
<1> DEFINE g == [Inner(k, 0) EXCEPT !.handler = h]
<1>1. frames # <<>> /\ Top \in Frame /\ Inner(k, 0) \in Frame
  BY TopType, InnerType DEF EnterPlain, CanStart, Running
<1>2. g \in Frame
  BY <1>1 DEF Frame
<1>3. g.kind = k /\ g.depth = Top.depth + 0 /\ g.scope = Top.scope
  BY DEF Inner
<1>4. frames' = Append(frames, g)
  BY DEF EnterPlain
<1> HIDE DEF g
<1>5. g.depth = Top.depth /\ Top.depth \in Nat
  BY <1>1, <1>3 DEF Frame
<1>6. DepthLinked(Top, g)
  BY <1>3, <1>5 DEF DepthLinked
<1>7. ScopeLinked(Top, g, Len(frames) + 1)
  BY <1>3 DEF ScopeLinked, Scoped
<1>8. Len(layers') = g.depth + leaks
  BY <1>1, <1>5 DEF EnterPlain, ctx, Balanced, LayersBalanced
<1>9. ~lost => exec' = g.scope
  BY <1>1, <1>3 DEF EnterPlain, ctx, Balanced, CallsBalanced
<1> QED
  BY <1>1, <1>2, <1>4, <1>6, <1>7, <1>8, <1>9, PushStep DEF EnterPlain, history

LEMMA InvokeBalanced ==
    ASSUME TypeOK, Balanced, NEW k \in {"usr", "call"}, Invoke(k)
    PROVE  Balanced'
<1> DEFINE here == Len(frames) + 1
           g == [Inner(k, 1) EXCEPT !.caller = "usr", !.scope = Append(Top.scope, here)]
<1>1. frames # <<>> /\ here \in Nat
  BY DEF Invoke, CanStart, Running, TypeOK
<1>2. Top \in Frame /\ Inner(k, 1) \in Frame
  BY <1>1, TopType, InnerType DEF FrameKinds, AllKinds
<1>3. Append(Top.scope, here) \in Seq(Nat)
  BY <1>1, <1>2 DEF Frame
<1>4. g \in Frame
  BY <1>2, <1>3 DEF Frame
<1>5. g.kind = k /\ g.depth = Top.depth + 1 /\ g.scope = Append(Top.scope, here)
  BY DEF Inner
<1>6. frames' = Append(frames, g) /\ exec' = Append(exec, here)
  BY DEF Invoke, PushCall
<1>7. Len(layers') = Len(layers) + 1
  BY LayerTypes DEF Invoke, TypeOK
<1> HIDE DEF g
<1>8. DepthLinked(Top, g)
  BY <1>5 DEF DepthLinked, Scoped
<1>9. ScopeLinked(Top, g, Len(frames) + 1)
  BY <1>5 DEF ScopeLinked
<1>10. Len(layers') = g.depth + leaks
  <2>1. Len(layers) = Top.depth + leaks /\ Top.depth \in Nat /\ leaks \in Nat
    BY <1>1, <1>2 DEF Balanced, LayersBalanced, TypeOK, Frame
  <2>2. \A d, e \in Nat : d + e + 1 = d + 1 + e
    OBVIOUS
  <2> QED
    BY <1>5, <1>7, <2>1, <2>2
<1>11. ~lost => exec' = g.scope
  BY <1>1, <1>5, <1>6 DEF Balanced, CallsBalanced
<1> QED
  BY <1>1, <1>4, <1>6, <1>8, <1>9, <1>10, <1>11, PushStep DEF Invoke, history

LEMMA ExecuteTagBalanced ==
    ASSUME TypeOK, Balanced, StartExecute
    PROVE  Balanced'
<1>1. frames # <<>> /\ exec # <<>> /\ exec \in Seq(Nat)
  BY DEF StartExecute, CanStart, Running, TypeOK
<1>2. PICK c \in {"execute", "usr"} :
        frames' = Append(frames, [Inner("execute", 0) EXCEPT
                    !.caller = c, !.target = Last(exec), !.scope = Front(Top.scope)])
  BY DEF StartExecute
<1> DEFINE g == [Inner("execute", 0) EXCEPT
                   !.caller = c, !.target = Last(exec), !.scope = Front(Top.scope)]
<1>3. Top \in Frame /\ Inner("execute", 0) \in Frame
  BY <1>1, TopType, InnerType DEF FrameKinds, AllKinds
<1>4. Last(exec) \in Nat /\ Front(Top.scope) \in Seq(Nat)
  BY <1>1, <1>3, FrontProperties, FrontType DEF Frame
<1>5. g \in Frame
  BY <1>3, <1>4 DEF Frame
<1>6. /\ g.kind = "execute" /\ g.depth = Top.depth + 0
      /\ g.scope = Front(Top.scope) /\ g.target = Last(exec)
  BY DEF Inner
<1>7. frames' = Append(frames, g) /\ exec' = Front(exec)
  BY <1>1, <1>2 DEF StartExecute, PopCall
<1> HIDE DEF g
<1>8. g.depth = Top.depth /\ Top.depth \in Nat
  BY <1>3, <1>6 DEF Frame
<1>9. DepthLinked(Top, g)
  BY <1>6, <1>8 DEF DepthLinked, Scoped
<1>10. ~lost => ScopeLinked(Top, g, Len(frames) + 1)
  BY <1>1, <1>6 DEF ScopeLinked, Balanced, CallsBalanced
<1>11. Len(layers') = g.depth + leaks
  BY <1>1, <1>8 DEF StartExecute, Balanced, LayersBalanced
<1>12. ~lost => exec' = g.scope
  BY <1>1, <1>6, <1>7 DEF Balanced, CallsBalanced
<1> QED
  BY <1>1, <1>5, <1>7, <1>9, <1>10, <1>11, <1>12, PushStep DEF StartExecute, history

\* A step that raises an exception where it is.
LEMMA ThrowsBalanced ==
    ASSUME TypeOK, Balanced, UNCHANGED <<frames, layers, exec, leaks, lost>>
    PROVE  Balanced'
<1>1. Len(layers') \in Nat /\ leaks' \in Nat /\ Len(layers') - leaks' = Len(layers) - leaks
  BY DEF TypeOK
<1> QED
  BY <1>1, StayStep

LEMMA StartBalanced == TypeOK /\ Balanced /\ Start => Balanced'
<1> SUFFICES ASSUME TypeOK, Balanced, Start PROVE Balanced'
  OBVIOUS
<1>s. \A k \in {"var", "switch", "split", "substr", "regexp", "locale", "list",
               "element", "html"} :
        k \in FrameKinds /\ k \in Scoped \ {"usr", "call"}
  BY DEF FrameKinds, AllKinds, Scoped
<1>p. \A k \in {"set", "while", "case", "try", "throw", "inner html", "tag"} :
        k \in FrameKinds /\ k \notin Scoped /\ k # "execute"
  BY DEF FrameKinds, AllKinds, Scoped
<1>1. CASE StartVar
  BY <1>1, <1>s, LayerTypes, EnterScopeBalanced DEF StartVar
<1>2. CASE StartOuterVar
  <2>1. CASE UNCHANGED <<frames, layers, outer>>
    BY <1>2, <2>1, ThrowsBalanced DEF StartOuterVar, history
  <2>2. CASE /\ frames' = Append(frames, Inner("outervar", 1))
             /\ layers' = Append(layers, NoVars)
    <3> DEFINE g == Inner("outervar", 1)
    <3>1. frames # <<>>
      BY <1>2 DEF StartOuterVar, CanStart, Running
    <3>2. Top \in Frame /\ g \in Frame
      BY <3>1, TopType, InnerType DEF FrameKinds, AllKinds
    <3>3. g.kind = "outervar" /\ g.depth = Top.depth + 1 /\ g.scope = Top.scope
      BY DEF Inner
    <3> HIDE DEF g
    <3>4. DepthLinked(Top, g) /\ ScopeLinked(Top, g, Len(frames) + 1)
      BY <3>3 DEF DepthLinked, ScopeLinked, Scoped
    <3>5. Len(layers') = g.depth + leaks
      <4>1. Len(layers') = Len(layers) + 1
        BY <2>2 DEF TypeOK
      <4>2. Len(layers) = Top.depth + leaks /\ Top.depth \in Nat /\ leaks \in Nat
        BY <3>1, <3>2 DEF Balanced, LayersBalanced, TypeOK, Frame
      <4>3. \A d, e \in Nat : d + e + 1 = d + 1 + e
        OBVIOUS
      <4> QED
        BY <3>3, <4>1, <4>2, <4>3
    <3>6. ~lost => exec' = g.scope
      BY <1>2, <3>1, <3>3 DEF StartOuterVar, Balanced, CallsBalanced
    <3>7. frames' = Append(frames, g) /\ lost' = lost /\ leaks' = leaks
      BY <1>2, <2>2 DEF g, StartOuterVar, history
    <3> QED
      BY <3>1, <3>2, <3>4, <3>5, <3>6, <3>7, PushStep
  <2> QED
    BY <1>2, <2>1, <2>2 DEF StartOuterVar
<1>3. CASE StartSet \/ StartWhile \/ StartCase \/ StartThrow
  BY <1>3, <1>p, EnterPlainBalanced DEF StartSet, StartWhile, StartCase, StartThrow
<1>4. CASE StartTry
  BY <1>4, <1>p, EnterPlainBalanced DEF StartTry
<1>5. CASE StartSwitch \/ StartLocale
  BY <1>5, <1>s, LayerTypes, EnterScopeBalanced DEF StartSwitch, StartLocale
<1>6. CASE StartSubstr
  BY <1>6, <1>s, LayerTypes, EnterScopeBalanced DEF StartSubstr
<1>7. CASE StartRegexp
  BY <1>7, <1>s, LayerTypes, EnterScopeBalanced DEF StartRegexp
<1>8. CASE StartHtml
  BY <1>8, <1>s, <1>p, LayerTypes, EnterScopeBalanced, EnterPlainBalanced DEF StartHtml
<1>9. CASE StartList
  <2>1. Len(frames) + 1 \in Nat
    BY DEF TypeOK
  <2> QED
    BY <1>9, <2>1, <1>s, LayerTypes, EnterScopeBalanced DEF StartList
<1>10. CASE StartElement
  <2>1. CASE VisibleList(layers) # 0
    BY <1>10, <2>1, <1>s, LayerTypes, EnterScopeBalanced DEF StartElement
  <2>2. CASE VisibleList(layers) = 0
    BY <1>10, <2>2, ThrowsBalanced DEF StartElement, ctx, history
  <2> QED
    BY <2>1, <2>2
<1>11. CASE StartSplit
  BY <1>11, <1>s, LayerTypes, EnterScopeBalanced DEF StartSplit
<1>12. CASE StartUsr \/ StartCall
  BY <1>12, InvokeBalanced DEF StartUsr, StartCall
<1>13. CASE StartTag
  BY <1>13, <1>p, EnterPlainBalanced DEF StartTag
<1>14. CASE StartExecute
  BY <1>14, ExecuteTagBalanced
<1> QED
  BY <1>1, <1>2, <1>3, <1>4, <1>5, <1>6, <1>7, <1>8, <1>9, <1>10, <1>11, <1>12,
     <1>13, <1>14 DEF Start

LEMMA RaiseBalanced == TypeOK /\ Balanced /\ Raise => Balanced'
<1> SUFFICES ASSUME TypeOK, Balanced, Raise PROVE Balanced'
  OBVIOUS
<1>1. CASE LeafThrows \/ Throw
  BY <1>1, ThrowsBalanced DEF LeafThrows, Throw, ctx, history
<1>2. CASE SplitParameterThrows
  <2>1. Len(layers') = Len(layers) + 1 /\ leaks' = leaks + 1
    BY <1>2 DEF SplitParameterThrows, TypeOK
  <2>2. Len(layers) \in Nat /\ leaks \in Nat
    BY DEF TypeOK
  <2>3. \A m, d \in Nat : m + 1 - (d + 1) = m - d /\ m + 1 \in Nat
    OBVIOUS
  <2>4. Len(layers') \in Nat /\ leaks' \in Nat /\ Len(layers') - leaks' = Len(layers) - leaks
    BY <2>1, <2>2, <2>3
  <2> QED
    BY <1>2, <2>4, StayStep DEF SplitParameterThrows
<1>3. CASE ExecuteParameterThrows
  <2>1. Len(layers') \in Nat /\ leaks' \in Nat /\ Len(layers') - leaks' = Len(layers) - leaks
    BY <1>3 DEF ExecuteParameterThrows, TypeOK
  <2> QED
    BY <1>3, <2>1, StayStep DEF ExecuteParameterThrows
<1> QED
  BY <1>1, <1>2, <1>3 DEF Raise

\* An activation that did nothing to the context goes.
LEMMA PlainPop ==
    ASSUME TypeOK, Balanced, frames # <<>>, Pop, Top.kind \notin Scoped \cup {"execute"},
           Len(layers') = Len(layers), UNCHANGED <<exec, leaks, lost>>
    PROVE  Balanced'
<1>1. Len(layers) \in Nat
  BY DEF TypeOK
<1>2. Restored
  BY <1>1 DEF Restored, Scoped
<1> QED
  BY <1>2, PopStep

\* An activation goes that opened a layer, and leaves it.
LEMMA ScopePop ==
    ASSUME TypeOK, Balanced, frames # <<>>, Pop, Top.kind \in Scoped \ {"usr", "call"},
           layers' = Front(layers), UNCHANGED <<exec, leaks, lost>>
    PROVE  Balanced'
<1>1. Len(layers') = Len(layers) - 1
  BY LayerPresent, FrontProperties DEF TypeOK
<1>2. Restored
  BY <1>1 DEF Restored, Scoped
<1> QED
  BY <1>2, PopStep

\* An invocation of a custom tag goes.
LEMMA InvocationPop ==
    ASSUME TypeOK, Balanced, frames # <<>>, Pop, Top.kind \in {"usr", "call"},
           layers' = Front(layers), PopCall, UNCHANGED <<leaks, lost>>
    PROVE  Balanced'
<1>0. Top.kind \in Scoped
  BY DEF Scoped
<1>1. Len(layers') = Len(layers) - 1
  BY <1>0, LayerPresent, FrontProperties DEF TypeOK
<1>2. ~lost => exec' = Front(exec)
  <2> SUFFICES ASSUME ~lost PROVE exec # <<>>
    BY DEF PopCall
  <2> DEFINE n == Len(frames)
  <2>1. n \in Nat /\ n >= 1 /\ Top = frames[n]
    BY DEF TypeOK, Top, Last
  <2>2. n > 1
    BY <2>1 DEF Balanced
  <2>3. n - 1 \in 1..n /\ n - 1 \in 1..(n - 1) /\ n - 1 + 1 = n
    BY <2>1, <2>2
  <2>4. ScopeLinked(frames[n - 1], frames[n - 1 + 1], n - 1 + 1)
    BY <2>3 DEF Balanced
  <2>5. exec = Append(frames[n - 1].scope, n)
    BY <2>1, <2>3, <2>4 DEF ScopeLinked, Balanced, CallsBalanced
  <2>6. frames[n - 1] \in Frame
    BY <2>3 DEF TypeOK
  <2>7. frames[n - 1].scope \in Seq(Nat)
    BY <2>6 DEF Frame
  <2> HIDE DEF n
  <2> QED
    BY <2>1, <2>5, <2>7
<1>3. Restored
  BY <1>0, <1>1, <1>2 DEF Restored
<1> QED
  BY <1>3, PopStep

\* The end of a tag's content keeps the balance.
LEMMA EndBalanced == TypeOK /\ Balanced /\ End => Balanced'
<1> SUFFICES ASSUME TypeOK, Balanced, End PROVE Balanced'
  OBVIOUS
<1>1. CASE LeaveScope
  BY <1>1, ScopePop DEF LeaveScope, Running, history
<1>2. CASE EndInvocation
  BY <1>2, InvocationPop DEF EndInvocation, Running, history
<1>3. CASE EndExecute
  <2>1. Len(layers) \in Nat
    BY DEF TypeOK
  <2>2. Restored
    BY <1>3, <2>1 DEF EndExecute, Ending, Restored, PushCall, Scoped
  <2> QED
    BY <1>3, <2>2, PopStep DEF EndExecute, Ending, Running, history
<1>4. CASE EndSet
  <2>1. Len(layers') = Len(layers)
    BY <1>4, SetValueType DEF EndSet
  <2>2. Top.kind \notin Scoped \cup {"execute"}
    BY <1>4 DEF EndSet, Ending, Scoped
  <2> QED
    BY <1>4, <2>1, <2>2, PlainPop DEF EndSet, Ending, Running, history
<1>5. CASE EndCase \/ EndThrow \/ EndPlain
  <2>1. Top.kind \notin Scoped \cup {"execute"}
    BY <1>5 DEF EndCase, EndThrow, EndPlain, Ending, Scoped
  <2> QED
    BY <1>5, <2>1, PlainPop DEF EndCase, EndThrow, EndPlain, Ending, Running, ctx, history
<1>6. CASE SplitNext
  <2>1. Len(layers') = Len(layers)
    BY <1>6, SetValueType DEF SplitNext
  <2>2. Len(layers') \in Nat /\ leaks' \in Nat /\ Len(layers') - leaks' = Len(layers) - leaks
    BY <1>6, <2>1 DEF SplitNext, TypeOK, history
  <2> QED
    BY <1>6, <2>2, StayStep DEF SplitNext, history
<1> QED
  BY <1>1, <1>2, <1>3, <1>4, <1>5, <1>6 DEF End

\* The dbp:catch takes the place of its dbp:try, with a layer of its own.
LEMMA HandleBalanced ==
    ASSUME TypeOK, Balanced, Handle
    PROVE  Balanced'
<1> DEFINE n == Len(frames)
<1>1. n \in Nat /\ n >= 1 /\ Top = frames[n] /\ frames # <<>> /\ Top \in Frame
  BY TopType DEF Handle, Unwinding, TypeOK, Top, Last
<1>2. frames' = [frames EXCEPT ![n] = Caught]
  BY DEF Handle, Caught
<1>3. /\ Len(frames') = n /\ frames'[n] = Caught
      /\ \A i \in 1..n : i # n => frames'[i] = frames[i]
  BY <1>1, <1>2 DEF TypeOK
<1>4. Top.kind = "try" /\ Len(layers') = Len(layers) + 1
  BY DEF Handle, TypeOK
<1>5. Caught.kind = "catch" /\ Caught.depth = Top.depth + 1 /\ Caught.scope = Top.scope
  BY <1>1 DEF Caught, Frame
<1> HIDE DEF n
<1>6. frames' # <<>> /\ Top' = Caught
  BY <1>1, <1>3 DEF Top, Last
<1>7. n > 1
  BY <1>1, <1>4 DEF Balanced
<1>8. frames'[1].depth = 1 /\ frames'[1].kind = "module"
  BY <1>1, <1>3, <1>7 DEF Balanced
<1>9. ASSUME NEW i \in 1..(Len(frames') - 1)
      PROVE  /\ DepthLinked(frames'[i], frames'[i + 1])
             /\ ~lost' => ScopeLinked(frames'[i], frames'[i + 1], i + 1)
  <2>1. i \in 1..(n - 1) /\ i \in 1..n /\ i # n /\ i + 1 \in 1..n
    BY <1>1, <1>3
  <2>2. /\ DepthLinked(frames[i], frames[i + 1])
        /\ ~lost => ScopeLinked(frames[i], frames[i + 1], i + 1)
    BY <2>1 DEF Balanced, n
  <2>3. frames'[i] = frames[i] /\ lost' = lost
    BY <1>3, <2>1 DEF Handle, history
  <2>4. CASE i + 1 # n
    BY <1>3, <2>1, <2>2, <2>3, <2>4
  <2>5. CASE i + 1 = n
    <3>1. frames'[i + 1] = Caught /\ frames[i + 1] = Top
      BY <1>1, <1>3, <2>5
    <3>2. frames[i] \in Frame
      BY <2>1 DEF TypeOK, n
    <3>3. Top.depth = frames[i].depth + 0 /\ frames[i].depth \in Nat
      BY <1>4, <2>2, <3>1, <3>2 DEF DepthLinked, Scoped, Frame
    <3>4. DepthLinked(frames[i], Caught)
      BY <1>5, <3>3 DEF DepthLinked, Scoped
    <3>5. ~lost => ScopeLinked(frames[i], Caught, i + 1)
      BY <1>4, <1>5, <2>2, <3>1 DEF ScopeLinked
    <3> QED
      BY <2>3, <3>1, <3>4, <3>5
  <2> QED
    BY <2>4, <2>5
<1>10. LayersBalanced'
  <2>1. Len(layers) = Top.depth + leaks /\ Top.depth \in Nat /\ leaks \in Nat
    BY <1>1 DEF Balanced, LayersBalanced, TypeOK, Frame
  <2>2. \A d, e \in Nat : d + e + 1 = d + 1 + e
    OBVIOUS
  <2>3. leaks' = leaks
    BY DEF Handle, history
  <2> QED
    BY <1>4, <1>5, <1>6, <2>1, <2>2, <2>3 DEF LayersBalanced
<1>11. CallsBalanced'
  BY <1>1, <1>5, <1>6 DEF Handle, history, Balanced, CallsBalanced
<1> QED
  BY <1>8, <1>9, <1>10, <1>11 DEF Balanced

LEMMA UnwindBalanced == TypeOK /\ Balanced /\ Unwind => Balanced'
<1> SUFFICES ASSUME TypeOK, Balanced, Unwind PROVE Balanced'
  OBVIOUS
<1>1. CASE UnwindScope
  BY <1>1, ScopePop DEF UnwindScope, Unwinding, history
<1>2. CASE SwitchDone
  BY <1>2, ScopePop DEF SwitchDone, Unwinding, history, Scoped
<1>3. CASE UnwindInvocation
  BY <1>3, InvocationPop DEF UnwindInvocation, Unwinding, history
<1>4. CASE UnwindExecute
  <2>1. Len(layers) \in Nat
    BY DEF TypeOK
  <2>2. Restored
    BY <1>4, <2>1 DEF UnwindExecute, Restored, Scoped, ctx
  <2> QED
    BY <1>4, <2>2, PopStep DEF UnwindExecute, Unwinding
<1>5. CASE Handle
  BY <1>5, HandleBalanced
<1>6. CASE UnwindPlain
  <2>1. Top.kind \notin Scoped \cup {"execute"}
    BY <1>6 DEF UnwindPlain, Scoped
  <2> QED
    BY <1>6, <2>1, PlainPop DEF UnwindPlain, Unwinding, ctx, history
<1> QED
  BY <1>1, <1>2, <1>3, <1>4, <1>5, <1>6 DEF Unwind

LEMMA ExecuteBalanced == Execute => Balanced'
<1> SUFFICES ASSUME Execute PROVE Balanced'
  OBVIOUS
<1>1. frames' = <<Module>>
  BY DEF Execute, Module
<1>2. Len(frames') = 1 /\ frames'[1] = Module
  BY <1>1
<1>3. Top' = Module
  BY <1>2 DEF Top, Last
<1>4. layers' = <<NoVars>> /\ exec' = <<>> /\ leaks' = 0
  BY DEF Execute
<1>5. Len(layers') = 1
  BY <1>4
<1>6. Module.depth = 1 /\ Module.scope = <<>> /\ Module.kind = "module"
  BY DEF Module
<1>7. LayersBalanced' /\ CallsBalanced'
  BY <1>3, <1>4, <1>5, <1>6 DEF LayersBalanced, CallsBalanced
<1>8. 1..(Len(frames') - 1) = {}
  BY <1>2
<1> QED
  BY <1>2, <1>6, <1>7, <1>8 DEF Balanced

\* The links between activations are inductive.
LEMMA BalancedStep == TypeOK /\ Balanced /\ [Next]_vars => Balanced'
<1> SUFFICES ASSUME TypeOK, Balanced, [Next]_vars PROVE Balanced'
  OBVIOUS
<1>1. CASE UNCHANGED vars
  BY <1>1, ThrowsBalanced DEF vars
<1> QED
  BY <1>1, ExecuteBalanced, StartBalanced, RaiseBalanced, EndBalanced, UnwindBalanced
     DEF Next

LEMMA BalancedInvariance == Spec => [](TypeOK /\ Balanced)
<1>1. Init => Balanced
  BY DEF Init, Balanced, LayersBalanced, CallsBalanced
<1> QED
  BY <1>1, TypeCorrect, BalancedStep, PTL DEF Spec

\* Whatever a script nests, and whichever of its tags throw, the layers and the
\* call stack that execute() leaves to the enclosing tag are the ones it found,
\* up to the layers that dbp:split leaks and the call that a dbp:execute loses.
THEOREM ContextBalanced == Spec => [](LayersBalanced /\ CallsBalanced)
<1>1. Balanced => LayersBalanced /\ CallsBalanced
  BY DEF Balanced
<1> QED
  BY <1>1, BalancedInvariance, PTL

\* The same for every activation below the innermost one: a tag that ends, or that
\* an exception leaves, finds the layers and the call stack of its own execute().
THEOREM ActivationsLinked == Spec => []Balanced
  BY BalancedInvariance, PTL

\* push and pop of the call stack by custom tags, dbp:call and dbp:execute make up
\* for each other in every nesting, until an exception passes a dbp:execute.
THEOREM CallsAsNested == Spec => []CallsBalanced
  BY ContextBalanced, PTL

--------------------------------------------------------------------------------
(* The call stack holds running invocations *)

IsCall(f) == f.kind \in {"usr", "call"}
IsExecute(f) == f.kind = "execute"

\* Alike for the call stack.
Alike(f, g) ==
    /\ IsCall(f) <=> IsCall(g)
    /\ IsExecute(f) <=> IsExecute(g)
    /\ f.target = g.target

\* The call stack after the step is the one before, perhaps shortened.
Shortened ==
    /\ Len(exec') \in Nat /\ Len(exec') <= Len(exec)
    /\ \A i \in 1..Len(exec') : exec'[i] = exec[i]

LEMMA PopCallShortens ==
    ASSUME TypeOK, PopCall \/ exec' = exec
    PROVE  Shortened
<1>1. CASE exec' = exec
  BY <1>1 DEF Shortened, TypeOK
<1>2. CASE exec # <<>> /\ exec' = Front(exec)
  <2>1. /\ Len(exec) \in Nat /\ Len(exec) >= 1
        /\ Len(exec') = Len(exec) - 1
        /\ \A i \in 1..(Len(exec) - 1) : exec'[i] = exec[i]
    BY <1>2, FrontProperties DEF TypeOK
  <2> QED
    BY <2>1 DEF Shortened
<1> QED
  BY <1>1, <1>2 DEF PopCall

\* A step that keeps the invocations and starts no dbp:execute.
LEMMA GrowAlive ==
    ASSUME TypeOK, CallsAlive, TargetsAlive, Shortened,
           Len(frames') \in Nat, Len(frames') >= Len(frames),
           \A p \in 1..Len(frames) : Alike(frames'[p], frames[p]),
           \A p \in 1..Len(frames') : p > Len(frames) => ~IsExecute(frames'[p])
    PROVE  CallsAlive' /\ TargetsAlive'
<1> DEFINE n == Len(frames)
           n1 == Len(frames')
           m == Len(exec)
           m1 == Len(exec')
<1>1. n \in Nat /\ n1 \in Nat /\ n <= n1 /\ m \in Nat /\ m1 \in Nat /\ m1 <= m
  BY DEF TypeOK, Shortened
<1>2. \A i \in 1..m1 : i \in 1..m /\ exec'[i] = exec[i]
  BY <1>1 DEF Shortened
<1>3. \A i \in 1..m : /\ exec[i] \in 1..n /\ IsCall(frames[exec[i]])
                      /\ \A j \in 1..m : j < i => exec[j] < exec[i]
  BY DEF CallsAlive, IsCall
<1>4. \A p \in 1..n : IsExecute(frames[p]) =>
        /\ frames[p].target \in 1..(p - 1)
        /\ IsCall(frames[frames[p].target])
        /\ \A i \in 1..m : exec[i] < p => exec[i] < frames[p].target
        /\ \A q \in (p + 1)..n : IsExecute(frames[q]) /\ frames[q].target < p =>
              frames[q].target < frames[p].target
  BY DEF TargetsAlive, IsCall, IsExecute
<1>5. \A p \in 1..n1 : IsExecute(frames'[p]) =>
        p \in 1..n /\ IsExecute(frames[p]) /\ frames'[p].target = frames[p].target
  BY <1>1 DEF Alike
<1>6. \A p \in 1..n : IsCall(frames[p]) => p \in 1..n1 /\ IsCall(frames'[p])
  BY <1>1 DEF Alike
<1> HIDE DEF n, n1, m, m1
<1>7. \A i \in 1..m1 : /\ exec'[i] \in 1..n1 /\ IsCall(frames'[exec'[i]])
                       /\ \A j \in 1..m1 : j < i => exec'[j] < exec'[i]
  BY <1>2, <1>3, <1>6
<1>8. ASSUME NEW p \in 1..n1, IsExecute(frames'[p])
      PROVE  /\ frames'[p].target \in 1..(p - 1)
             /\ IsCall(frames'[frames'[p].target])
             /\ \A i \in 1..m1 : exec'[i] < p => exec'[i] < frames'[p].target
             /\ \A q \in (p + 1)..n1 : IsExecute(frames'[q]) /\ frames'[q].target < p =>
                  frames'[q].target < frames'[p].target
  <2>1. p \in 1..n /\ IsExecute(frames[p]) /\ frames'[p].target = frames[p].target
    BY <1>5, <1>8
  <2>2. frames'[p].target \in 1..(p - 1) /\ IsCall(frames[frames'[p].target])
    BY <1>4, <2>1
  <2>3. frames'[p].target \in 1..n
    BY <1>1, <2>1, <2>2
  <2>4. IsCall(frames'[frames'[p].target])
    BY <1>6, <2>2, <2>3
  <2>5. \A i \in 1..m1 : exec'[i] < p => exec'[i] < frames'[p].target
    BY <1>2, <1>4, <2>1
  <2>6. ASSUME NEW q \in (p + 1)..n1, IsExecute(frames'[q]), frames'[q].target < p
        PROVE  frames'[q].target < frames'[p].target
    <3>1. q \in 1..n1
      BY <1>1
    <3>2. q \in 1..n /\ IsExecute(frames[q]) /\ frames'[q].target = frames[q].target
      BY <1>5, <2>6, <3>1
    <3>3. q \in (p + 1)..n
      BY <1>1, <3>2
    <3> QED
      BY <1>4, <2>1, <2>6, <3>2, <3>3
  <2> QED
    BY <2>2, <2>4, <2>5, <2>6
<1>9. CallsAlive'
  BY <1>7 DEF CallsAlive, IsCall, n1, m1
<1>10. TargetsAlive'
  BY <1>8 DEF TargetsAlive, IsCall, IsExecute, n1, m1
<1> QED
  BY <1>9, <1>10

\* A step that ends the innermost activation, which the call stack does not name
\* afterwards.
LEMMA ShrinkAlive ==
    ASSUME TypeOK, CallsAlive, TargetsAlive, frames # <<>>, Pop, Shortened,
           \A i \in 1..Len(exec') : exec'[i] # Len(frames)
    PROVE  CallsAlive' /\ TargetsAlive'
<1> DEFINE n == Len(frames)
           n1 == Len(frames')
           m == Len(exec)
           m1 == Len(exec')
<1>1. n \in Nat /\ n >= 1 /\ m \in Nat /\ m1 \in Nat /\ m1 <= m
  BY DEF TypeOK, Shortened
<1>2. n1 = n - 1 /\ \A p \in 1..(n - 1) : frames'[p] = frames[p]
  BY FrontProperties DEF TypeOK, Pop
<1>3. \A i \in 1..m1 : i \in 1..m /\ exec'[i] = exec[i] /\ exec'[i] # n
  BY <1>1 DEF Shortened
<1>4. \A i \in 1..m : /\ exec[i] \in 1..n /\ IsCall(frames[exec[i]])
                      /\ \A j \in 1..m : j < i => exec[j] < exec[i]
  BY DEF CallsAlive, IsCall
<1>5. \A p \in 1..n : IsExecute(frames[p]) =>
        /\ frames[p].target \in 1..(p - 1)
        /\ IsCall(frames[frames[p].target])
        /\ \A i \in 1..m : exec[i] < p => exec[i] < frames[p].target
        /\ \A q \in (p + 1)..n : IsExecute(frames[q]) /\ frames[q].target < p =>
              frames[q].target < frames[p].target
  BY DEF TargetsAlive, IsCall, IsExecute
<1> HIDE DEF n, n1, m, m1
<1>6. \A i \in 1..m1 : /\ exec'[i] \in 1..n1 /\ IsCall(frames'[exec'[i]])
                       /\ \A j \in 1..m1 : j < i => exec'[j] < exec'[i]
  <2>1. ASSUME NEW i \in 1..m1
        PROVE  exec'[i] \in 1..(n - 1)
    BY <1>1, <1>3, <1>4
  <2> QED
    BY <1>2, <1>3, <1>4, <2>1
<1>7. ASSUME NEW p \in 1..n1, IsExecute(frames'[p])
      PROVE  /\ frames'[p].target \in 1..(p - 1)
             /\ IsCall(frames'[frames'[p].target])
             /\ \A i \in 1..m1 : exec'[i] < p => exec'[i] < frames'[p].target
             /\ \A q \in (p + 1)..n1 : IsExecute(frames'[q]) /\ frames'[q].target < p =>
                  frames'[q].target < frames'[p].target
  <2>1. p \in 1..n /\ p \in 1..(n - 1) /\ frames'[p] = frames[p]
    BY <1>1, <1>2
  <2>2. frames[p].target \in 1..(p - 1) /\ IsCall(frames[frames[p].target])
    BY <1>5, <1>7, <2>1
  <2>3. frames[p].target \in 1..(n - 1)
    BY <1>1, <2>1, <2>2
  <2>4. IsCall(frames'[frames'[p].target])
    BY <1>2, <2>1, <2>2, <2>3
  <2>5. \A i \in 1..m1 : exec'[i] < p => exec'[i] < frames'[p].target
    BY <1>3, <1>5, <1>7, <2>1
  <2>6. \A q \in (p + 1)..n1 : q \in (p + 1)..n /\ frames'[q] = frames[q]
    BY <1>1, <1>2
  <2> QED
    BY <1>5, <1>7, <2>1, <2>2, <2>4, <2>5, <2>6
<1>8. CallsAlive'
  BY <1>6 DEF CallsAlive, IsCall, n1, m1
<1>9. TargetsAlive'
  BY <1>7 DEF TargetsAlive, IsCall, IsExecute, n1, m1
<1> QED
  BY <1>8, <1>9

\* The tag that is not an invocation is not on the call stack.
LEMMA TopNotCalled ==
    ASSUME TypeOK, CallsAlive, frames # <<>>, ~IsCall(Top), Shortened
    PROVE  \A i \in 1..Len(exec') : exec'[i] # Len(frames)
BY DEF CallsAlive, IsCall, Top, Last, Shortened, TypeOK

\* Popping the call stack takes the innermost invocation off it.
LEMMA TopPopped ==
    ASSUME TypeOK, CallsAlive, frames # <<>>, PopCall
    PROVE  \A i \in 1..Len(exec') : exec'[i] # Len(frames)
<1>1. CASE exec = <<>>
  BY <1>1 DEF PopCall
<1>2. CASE exec # <<>>
  <2> DEFINE m == Len(exec)
  <2>1. /\ m \in Nat /\ m >= 1 /\ Len(exec') = m - 1 /\ Len(frames) \in Nat
        /\ \A i \in 1..(m - 1) : exec'[i] = exec[i]
    BY <1>2, FrontProperties DEF TypeOK, PopCall
  <2>2. /\ exec[m] \in 1..Len(frames)
        /\ \A i \in 1..m : i < m => exec[i] < exec[m]
    BY <2>1 DEF CallsAlive
  <2>3. \A i \in 1..m : exec[i] \in 1..Len(frames)
    BY DEF CallsAlive
  <2> HIDE DEF m
  <2> TAKE i \in 1..Len(exec')
  <2>4. i \in 1..(m - 1) /\ i \in 1..m /\ i < m
    BY <2>1
  <2>5. exec[i] < exec[m] /\ exec'[i] = exec[i]
    BY <2>1, <2>2, <2>4
  <2> QED
    BY <2>1, <2>2, <2>3, <2>4, <2>5
<1> QED
  BY <1>1, <1>2

\* An invocation starts and is pushed on the call stack.
LEMMA InvokeAlive ==
    ASSUME TypeOK, CallsAlive, TargetsAlive, NEW g, IsCall(g),
           frames' = Append(frames, g), exec' = Append(exec, Len(frames) + 1)
    PROVE  CallsAlive' /\ TargetsAlive'
<1> DEFINE n == Len(frames)
           m == Len(exec)
<1>1. n \in Nat /\ m \in Nat
  BY DEF TypeOK
<1>2. Len(frames') = n + 1 /\ frames'[n + 1] = g /\ \A p \in 1..n : frames'[p] = frames[p]
  BY DEF TypeOK
<1>3. Len(exec') = m + 1 /\ exec'[m + 1] = n + 1 /\ \A i \in 1..m : exec'[i] = exec[i]
  BY DEF TypeOK
<1>4. \A i \in 1..m : /\ exec[i] \in 1..n /\ IsCall(frames[exec[i]])
                      /\ \A j \in 1..m : j < i => exec[j] < exec[i]
  BY DEF CallsAlive, IsCall
<1>5. \A p \in 1..n : IsExecute(frames[p]) =>
        /\ frames[p].target \in 1..(p - 1)
        /\ IsCall(frames[frames[p].target])
        /\ \A i \in 1..m : exec[i] < p => exec[i] < frames[p].target
        /\ \A q \in (p + 1)..n : IsExecute(frames[q]) /\ frames[q].target < p =>
              frames[q].target < frames[p].target
  BY DEF TargetsAlive, IsCall, IsExecute
<1>6. ~IsExecute(g)
  BY DEF IsCall, IsExecute
<1> HIDE DEF n, m
<1>7. \A i \in 1..(m + 1) : /\ exec'[i] \in 1..(n + 1) /\ IsCall(frames'[exec'[i]])
                           /\ \A j \in 1..(m + 1) : j < i => exec'[j] < exec'[i]
  <2> TAKE i \in 1..(m + 1)
  <2>1. \A j \in 1..m : exec'[j] \in 1..n
    BY <1>3, <1>4
  <2>2. CASE i = m + 1
    BY <1>1, <1>2, <1>3, <2>1, <2>2
  <2>3. CASE i # m + 1
    <3>1. i \in 1..m
      BY <1>1, <2>3
    <3>2. exec[i] \in 1..n /\ exec[i] \in 1..(n + 1)
      BY <1>1, <1>4, <3>1
    <3>3. \A j \in 1..(m + 1) : j < i => j \in 1..m
      BY <1>1, <3>1
    <3> QED
      BY <1>2, <1>3, <1>4, <3>1, <3>2, <3>3
  <2> QED
    BY <2>2, <2>3
<1>8. ASSUME NEW p \in 1..(n + 1), IsExecute(frames'[p])
      PROVE  /\ frames'[p].target \in 1..(p - 1)
             /\ IsCall(frames'[frames'[p].target])
             /\ \A i \in 1..(m + 1) : exec'[i] < p => exec'[i] < frames'[p].target
             /\ \A q \in (p + 1)..(n + 1) :
                  IsExecute(frames'[q]) /\ frames'[q].target < p =>
                    frames'[q].target < frames'[p].target
  <2>1. p \in 1..n /\ frames'[p] = frames[p]
    BY <1>1, <1>2, <1>6, <1>8
  <2>2. frames[p].target \in 1..(p - 1) /\ IsCall(frames[frames[p].target])
    BY <1>5, <1>8, <2>1
  <2>3. frames[p].target \in 1..n
    BY <1>1, <2>1, <2>2
  <2>4. IsCall(frames'[frames'[p].target])
    BY <1>2, <2>1, <2>2, <2>3
  <2>5. ASSUME NEW i \in 1..(m + 1), exec'[i] < p
        PROVE  exec'[i] < frames'[p].target
    <3>1. i \in 1..m
      BY <1>1, <1>3, <2>1, <2>5
    <3> QED
      BY <1>3, <1>5, <1>8, <2>1, <2>5, <3>1
  <2>6. ASSUME NEW q \in (p + 1)..(n + 1), IsExecute(frames'[q]), frames'[q].target < p
        PROVE  frames'[q].target < frames'[p].target
    <3>0. q # n + 1
      BY <1>2, <1>6, <2>6
    <3>1. q \in (p + 1)..n /\ q \in 1..n
      BY <1>1, <2>1, <3>0
    <3> QED
      BY <1>2, <1>5, <1>8, <2>1, <2>6, <3>1
  <2> QED
    BY <2>1, <2>2, <2>4, <2>5, <2>6
<1>9. CallsAlive'
  BY <1>2, <1>3, <1>7 DEF CallsAlive, IsCall
<1>10. TargetsAlive'
  BY <1>2, <1>3, <1>8 DEF TargetsAlive, IsCall, IsExecute
<1> QED
  BY <1>9, <1>10

\* A dbp:execute starts with the innermost invocation of the call stack.
LEMMA ExecuteAlive ==
    ASSUME TypeOK, CallsAlive, TargetsAlive, exec # <<>>, NEW g, IsExecute(g),
           g.target = Last(exec), frames' = Append(frames, g), exec' = Front(exec)
    PROVE  CallsAlive' /\ TargetsAlive'
<1> DEFINE n == Len(frames)
           m == Len(exec)
<1>1. n \in Nat /\ m \in Nat /\ m >= 1 /\ g.target = exec[m]
  BY DEF TypeOK, Last
<1>2. Len(frames') = n + 1 /\ frames'[n + 1] = g /\ \A p \in 1..n : frames'[p] = frames[p]
  BY DEF TypeOK
<1>3. Len(exec') = m - 1 /\ \A i \in 1..(m - 1) : exec'[i] = exec[i]
  BY FrontProperties DEF TypeOK
<1>4. \A i \in 1..m : /\ exec[i] \in 1..n /\ IsCall(frames[exec[i]])
                      /\ \A j \in 1..m : j < i => exec[j] < exec[i]
  BY DEF CallsAlive, IsCall
<1>5. \A p \in 1..n : IsExecute(frames[p]) =>
        /\ frames[p].target \in 1..(p - 1)
        /\ IsCall(frames[frames[p].target])
        /\ \A i \in 1..m : exec[i] < p => exec[i] < frames[p].target
        /\ \A q \in (p + 1)..n : IsExecute(frames[q]) /\ frames[q].target < p =>
              frames[q].target < frames[p].target
  BY DEF TargetsAlive, IsCall, IsExecute
<1> HIDE DEF n, m
<1>6. \A i \in 1..(m - 1) : i \in 1..m /\ i < m /\ exec'[i] = exec[i]
  BY <1>1, <1>3
<1>m. m \in 1..m /\ exec[m] \in 1..n /\ IsCall(frames[exec[m]])
  BY <1>1, <1>4
<1>7. \A i \in 1..(m - 1) : /\ exec'[i] \in 1..(n + 1) /\ IsCall(frames'[exec'[i]])
                           /\ \A j \in 1..(m - 1) : j < i => exec'[j] < exec'[i]
  <2> TAKE i \in 1..(m - 1)
  <2>1. exec[i] \in 1..n /\ exec[i] \in 1..(n + 1) /\ IsCall(frames[exec[i]])
    BY <1>1, <1>4, <1>6
  <2> QED
    BY <1>2, <1>4, <1>6, <2>1
<1>8. ASSUME NEW p \in 1..(n + 1), IsExecute(frames'[p])
      PROVE  /\ frames'[p].target \in 1..(p - 1)
             /\ IsCall(frames'[frames'[p].target])
             /\ \A i \in 1..(m - 1) : exec'[i] < p => exec'[i] < frames'[p].target
             /\ \A q \in (p + 1)..(n + 1) :
                  IsExecute(frames'[q]) /\ frames'[q].target < p =>
                    frames'[q].target < frames'[p].target
  <2>1. CASE p = n + 1
    <3>1. frames'[p].target = exec[m]
      BY <1>1, <1>2, <2>1
    <3>2. exec[m] \in 1..(p - 1) /\ IsCall(frames'[exec[m]])
      BY <1>1, <1>2, <1>m, <2>1
    <3>3. \A i \in 1..(m - 1) : exec'[i] < exec[m]
      BY <1>4, <1>6, <1>m
    <3>4. (p + 1)..(n + 1) = {}
      BY <1>1, <2>1
    <3> QED
      BY <3>1, <3>2, <3>3, <3>4
  <2>2. CASE p # n + 1
    <3>1. p \in 1..n /\ frames'[p] = frames[p]
      BY <1>1, <1>2, <2>2
    <3>2. frames[p].target \in 1..(p - 1) /\ IsCall(frames[frames[p].target])
      BY <1>5, <1>8, <3>1
    <3>3. frames[p].target \in 1..n
      BY <1>1, <3>1, <3>2
    <3>4. IsCall(frames'[frames'[p].target])
      BY <1>2, <3>1, <3>2, <3>3
    <3>5. \A i \in 1..(m - 1) : exec'[i] < p => exec'[i] < frames'[p].target
      BY <1>5, <1>6, <1>8, <3>1
    <3>6. ASSUME NEW q \in (p + 1)..(n + 1), IsExecute(frames'[q]), frames'[q].target < p
          PROVE  frames'[q].target < frames'[p].target
      <4>1. CASE q = n + 1
        BY <1>1, <1>2, <1>5, <1>8, <1>m, <3>1, <3>6, <4>1
      <4>2. CASE q # n + 1
        <5>1. q \in (p + 1)..n /\ q \in 1..n
          BY <1>1, <3>1, <4>2
        <5> QED
          BY <1>2, <1>5, <1>8, <3>1, <3>6, <5>1
      <4> QED
        BY <4>1, <4>2
    <3> QED
      BY <3>1, <3>2, <3>4, <3>5, <3>6
  <2> QED
    BY <2>1, <2>2
<1>9. CallsAlive'
  BY <1>2, <1>3, <1>7 DEF CallsAlive, IsCall
<1>10. TargetsAlive'
  BY <1>2, <1>3, <1>8 DEF TargetsAlive, IsCall, IsExecute
<1> QED
  BY <1>9, <1>10

\* A dbp:execute ends and pushes back the invocation that it took.
LEMMA EndExecuteAlive ==
    ASSUME TypeOK, CallsAlive, TargetsAlive, frames # <<>>, IsExecute(Top), Pop,
           exec' = Append(exec, Top.target)
    PROVE  CallsAlive' /\ TargetsAlive'
<1> DEFINE n == Len(frames)
           m == Len(exec)
           t == Top.target
<1>1. n \in Nat /\ n >= 1 /\ m \in Nat /\ Top = frames[n]
  BY DEF TypeOK, Top, Last
<1>2. Len(frames') = n - 1 /\ \A p \in 1..(n - 1) : frames'[p] = frames[p]
  BY FrontProperties DEF TypeOK, Pop
<1>0. t \in Nat
  BY TopType DEF Frame
<1>3. Len(exec') = m + 1 /\ exec'[m + 1] = t /\ \A i \in 1..m : exec'[i] = exec[i]
  BY <1>0 DEF TypeOK
<1>4. \A i \in 1..m : /\ exec[i] \in 1..n /\ IsCall(frames[exec[i]])
                      /\ \A j \in 1..m : j < i => exec[j] < exec[i]
  BY DEF CallsAlive, IsCall
<1>5. \A p \in 1..n : IsExecute(frames[p]) =>
        /\ frames[p].target \in 1..(p - 1)
        /\ IsCall(frames[frames[p].target])
        /\ \A i \in 1..m : exec[i] < p => exec[i] < frames[p].target
        /\ \A q \in (p + 1)..n : IsExecute(frames[q]) /\ frames[q].target < p =>
              frames[q].target < frames[p].target
  BY DEF TargetsAlive, IsCall, IsExecute
<1>6. n \in 1..n /\ IsExecute(frames[n]) /\ t = frames[n].target
  BY <1>1
<1> HIDE DEF n, m, t
<1>7. \A i \in 1..m : exec[i] # n
  BY <1>4, <1>6 DEF IsCall, IsExecute
<1>8. \A i \in 1..m : exec[i] \in 1..(n - 1) /\ exec[i] < n
  BY <1>1, <1>4, <1>7
<1>9. t \in 1..(n - 1) /\ IsCall(frames[t]) /\ \A i \in 1..m : exec[i] < t
  BY <1>5, <1>6, <1>8
<1>10. \A i \in 1..(m + 1) : /\ exec'[i] \in 1..(n - 1) /\ IsCall(frames'[exec'[i]])
                            /\ \A j \in 1..(m + 1) : j < i => exec'[j] < exec'[i]
  <2> TAKE i \in 1..(m + 1)
  <2>1. CASE i = m + 1
    <3>1. \A j \in 1..(m + 1) : j < i => j \in 1..m
      BY <1>1, <2>1
    <3> QED
      BY <1>2, <1>3, <1>9, <2>1, <3>1
  <2>2. CASE i # m + 1
    <3>1. i \in 1..m /\ \A j \in 1..(m + 1) : j < i => j \in 1..m
      BY <1>1, <2>2
    <3> QED
      BY <1>2, <1>3, <1>4, <1>8, <3>1
  <2> QED
    BY <2>1, <2>2
<1>11. ASSUME NEW p \in 1..(n - 1), IsExecute(frames'[p])
       PROVE  /\ frames'[p].target \in 1..(p - 1)
              /\ IsCall(frames'[frames'[p].target])
              /\ \A i \in 1..(m + 1) : exec'[i] < p => exec'[i] < frames'[p].target
              /\ \A q \in (p + 1)..(n - 1) :
                   IsExecute(frames'[q]) /\ frames'[q].target < p =>
                     frames'[q].target < frames'[p].target
  <2>1. p \in 1..n /\ frames'[p] = frames[p]
    BY <1>1, <1>2
  <2>2. frames[p].target \in 1..(p - 1) /\ IsCall(frames[frames[p].target])
    BY <1>5, <1>11, <2>1
  <2>3. frames[p].target \in 1..(n - 1)
    BY <1>1, <2>1, <2>2
  <2>4. IsCall(frames'[frames'[p].target])
    BY <1>2, <2>1, <2>2, <2>3
  <2>5. ASSUME NEW i \in 1..(m + 1), exec'[i] < p
        PROVE  exec'[i] < frames'[p].target
    <3>1. CASE i = m + 1
      <4>1. n \in (p + 1)..n
        BY <1>1
      <4>2. t < p => t < frames[p].target
        BY <1>5, <1>6, <1>11, <2>1, <4>1
      <4> QED
        BY <1>3, <2>1, <2>5, <3>1, <4>2
    <3>2. CASE i # m + 1
      <4>1. i \in 1..m
        BY <1>1, <3>2
      <4> QED
        BY <1>3, <1>5, <1>11, <2>1, <2>5, <4>1
    <3> QED
      BY <3>1, <3>2
  <2>6. ASSUME NEW q \in (p + 1)..(n - 1), IsExecute(frames'[q]), frames'[q].target < p
        PROVE  frames'[q].target < frames'[p].target
    <3>1. q \in (p + 1)..n /\ q \in 1..(n - 1)
      BY <1>1
    <3> QED
      BY <1>2, <1>5, <1>11, <2>1, <2>6, <3>1
  <2> QED
    BY <2>1, <2>2, <2>4, <2>5, <2>6
<1>12. CallsAlive'
  BY <1>2, <1>3, <1>10 DEF CallsAlive, IsCall
<1>13. TargetsAlive'
  BY <1>2, <1>3, <1>11 DEF TargetsAlive, IsCall, IsExecute
<1> QED
  BY <1>12, <1>13

\* Steps that leave the stack of activations alone and at most pop the call stack.
LEMMA StayAlive ==
    ASSUME TypeOK, CallsAlive, TargetsAlive, frames' = frames, PopCall \/ exec' = exec
    PROVE  CallsAlive' /\ TargetsAlive'
<1>1. Len(frames') \in Nat /\ Len(frames') >= Len(frames)
  BY DEF TypeOK
<1>2. \A p \in 1..Len(frames) : Alike(frames'[p], frames[p])
  BY DEF Alike
<1>3. \A p \in 1..Len(frames') : p > Len(frames) => ~IsExecute(frames'[p])
  BY DEF TypeOK
<1> QED
  BY <1>1, <1>2, <1>3, PopCallShortens, GrowAlive

\* Tags other than invocations and dbp:execute that start.
LEMMA PushAlive ==
    ASSUME TypeOK, CallsAlive, TargetsAlive, NEW g, ~IsExecute(g),
           frames' = Append(frames, g), exec' = exec
    PROVE  CallsAlive' /\ TargetsAlive'
<1> DEFINE n == Len(frames)
<1>0. /\ n \in Nat /\ Len(frames') = n + 1 /\ frames'[n + 1] = g
      /\ \A p \in 1..n : frames'[p] = frames[p]
  BY DEF TypeOK
<1>1. Len(frames') \in Nat /\ Len(frames') >= Len(frames)
  BY <1>0
<1>2. \A p \in 1..Len(frames) : Alike(frames'[p], frames[p])
  BY <1>0 DEF Alike
<1>3. \A p \in 1..Len(frames') : p > Len(frames) => ~IsExecute(frames'[p])
  <2> SUFFICES ASSUME NEW p \in 1..(n + 1), p > n PROVE ~IsExecute(frames'[p])
    BY <1>0
  <2>1. p = n + 1
    BY <1>0
  <2> QED
    BY <1>0, <2>1
<1> QED
  BY <1>1, <1>2, <1>3, PopCallShortens, GrowAlive

\* The end of an activation that is no invocation and no dbp:execute, or whose
\* dbp:execute does not push anything back, and the end of an invocation.
LEMMA PopAlive ==
    ASSUME TypeOK, CallsAlive, TargetsAlive, frames # <<>>, Pop,
           PopCall \/ (exec' = exec /\ ~IsCall(Top))
    PROVE  CallsAlive' /\ TargetsAlive'
<1>1. Shortened
  BY PopCallShortens
<1>2. \A i \in 1..Len(exec') : exec'[i] # Len(frames)
  BY <1>1, TopNotCalled, TopPopped
<1> QED
  BY <1>1, <1>2, ShrinkAlive

LEMMA StartAlive == TypeOK /\ CallsAlive /\ TargetsAlive /\ Start => CallsAlive' /\ TargetsAlive'
<1> SUFFICES ASSUME TypeOK, CallsAlive, TargetsAlive, Start
             PROVE  CallsAlive' /\ TargetsAlive'
  OBVIOUS
<1>s. ASSUME NEW k \in Scoped \cup {"inner html"}, NEW l, EnterScope(k, l)
      PROVE  CallsAlive' /\ TargetsAlive'
  <2>1. ~IsExecute(Inner(k, 1))
    BY DEF IsExecute, Inner, Scoped
  <2> QED
    BY <1>s, <2>1, PushAlive DEF EnterScope
<1>p. ASSUME NEW k, k # "execute", NEW h, EnterPlain(k, h)
      PROVE  CallsAlive' /\ TargetsAlive'
  <2>1. ~IsExecute([Inner(k, 0) EXCEPT !.handler = h])
    BY <1>p DEF IsExecute, Inner
  <2> QED
    BY <1>p, <2>1, PushAlive DEF EnterPlain, ctx
<1>k. {"var", "switch", "split", "substr", "regexp", "locale", "list", "element", "html"}
        \subseteq Scoped
  BY DEF Scoped
<1>i. ASSUME NEW k \in {"usr", "call"}, Invoke(k)
      PROVE  CallsAlive' /\ TargetsAlive'
  <2> DEFINE g == [Inner(k, 1) EXCEPT !.caller = "usr",
                                      !.scope = Append(Top.scope, Len(frames) + 1)]
  <2>1. IsCall(g)
    BY DEF IsCall, Inner
  <2>2. frames' = Append(frames, g) /\ exec' = Append(exec, Len(frames) + 1)
    BY <1>i DEF Invoke, PushCall
  <2> HIDE DEF g
  <2> QED
    BY <2>1, <2>2, InvokeAlive
<1>1. CASE StartVar
  BY <1>1, <1>k, <1>s DEF StartVar
<1>2. CASE StartOuterVar
  <2>1. ~IsExecute(Inner("outervar", 1))
    BY DEF IsExecute, Inner
  <2>2. exec' = exec /\ (frames' = frames \/ frames' = Append(frames, Inner("outervar", 1)))
    BY <1>2 DEF StartOuterVar
  <2> QED
    BY <2>1, <2>2, PushAlive, StayAlive
<1>3. CASE StartSet \/ StartWhile \/ StartCase \/ StartThrow \/ StartTry \/ StartTag
  BY <1>3, <1>p DEF StartSet, StartWhile, StartCase, StartThrow, StartTry, StartTag
<1>5. CASE StartSwitch \/ StartLocale \/ StartList
  BY <1>5, <1>k, <1>s DEF StartSwitch, StartLocale, StartList
<1>6. CASE StartSubstr \/ StartRegexp \/ StartSplit
  BY <1>6, <1>k, <1>s DEF StartSubstr, StartRegexp, StartSplit
<1>8. CASE StartHtml
  BY <1>8, <1>k, <1>s, <1>p DEF StartHtml
<1>10. CASE StartElement
  <2>1. CASE VisibleList(layers) # 0
    BY <1>10, <2>1, <1>k, <1>s DEF StartElement
  <2>2. CASE VisibleList(layers) = 0
    BY <1>10, <2>2, StayAlive DEF StartElement, ctx
  <2> QED
    BY <2>1, <2>2
<1>12. CASE StartUsr \/ StartCall
  BY <1>12, <1>i DEF StartUsr, StartCall
<1>14. CASE StartExecute
  <2>1. PICK c \in {"execute", "usr"} :
          frames' = Append(frames, [Inner("execute", 0) EXCEPT
                      !.caller = c, !.target = Last(exec), !.scope = Front(Top.scope)])
    BY <1>14 DEF StartExecute
  <2> DEFINE g == [Inner("execute", 0) EXCEPT
                     !.caller = c, !.target = Last(exec), !.scope = Front(Top.scope)]
  <2>2. IsExecute(g) /\ g.target = Last(exec)
    BY DEF IsExecute, Inner
  <2>3. frames' = Append(frames, g) /\ exec # <<>> /\ exec' = Front(exec)
    BY <1>14, <2>1 DEF StartExecute, PopCall
  <2> HIDE DEF g
  <2> QED
    BY <2>2, <2>3, ExecuteAlive
<1> QED
  BY <1>1, <1>2, <1>3, <1>5, <1>6, <1>8, <1>10, <1>12, <1>14 DEF Start

LEMMA EndAlive ==
    TypeOK /\ CallsAlive /\ TargetsAlive /\ (End \/ Unwind) => CallsAlive' /\ TargetsAlive'
<1> SUFFICES ASSUME TypeOK, CallsAlive, TargetsAlive, End \/ Unwind
             PROVE  CallsAlive' /\ TargetsAlive'
  OBVIOUS
<1>1. CASE LeaveScope \/ UnwindScope
  BY <1>1, PopAlive DEF LeaveScope, UnwindScope, Running, Unwinding, IsCall
<1>2. CASE EndInvocation \/ UnwindInvocation
  BY <1>2, PopAlive DEF EndInvocation, UnwindInvocation, Running, Unwinding
<1>3. CASE EndExecute
  BY <1>3, EndExecuteAlive DEF EndExecute, Ending, Running, PushCall, IsExecute
<1>4. CASE EndSet
  BY <1>4, PopAlive DEF EndSet, Ending, Running, IsCall
<1>5. CASE EndCase \/ EndThrow \/ EndPlain
  BY <1>5, PopAlive DEF EndCase, EndThrow, EndPlain, Ending, Running, IsCall, ctx
<1>6. CASE SwitchDone
  BY <1>6, PopAlive DEF SwitchDone, Unwinding, IsCall
<1>7. CASE UnwindExecute \/ UnwindPlain
  BY <1>7, PopAlive DEF UnwindExecute, UnwindPlain, Unwinding, IsCall, ctx
<1>8. CASE Handle
  <2> DEFINE n == Len(frames)
  <2>1. n \in Nat /\ n >= 1 /\ Top = frames[n] /\ Top \in Frame
    BY <1>8, TopType DEF Handle, Unwinding, TypeOK, Top, Last
  <2>2. frames' = [frames EXCEPT ![n] = Caught] /\ exec' = exec /\ Top.kind = "try"
    BY <1>8 DEF Handle, Caught
  <2>3. Caught.kind = "catch" /\ Caught.target = Top.target
    BY <2>1 DEF Caught, Frame
  <2>4. Alike(Caught, Top)
    BY <2>2, <2>3 DEF Alike, IsCall, IsExecute
  <2>5. Len(frames') = n /\ \A p \in 1..n : frames'[p] = IF p = n THEN Caught ELSE frames[p]
    BY <2>1, <2>2 DEF TypeOK
  <2>6. \A p \in 1..n : Alike(frames'[p], frames[p])
    <3> TAKE p \in 1..n
    <3>1. Alike(frames[p], frames[p])
      BY DEF Alike
    <3> QED
      BY <2>1, <2>4, <2>5, <3>1
  <2>7. \A p \in 1..Len(frames') : p > n => ~IsExecute(frames'[p])
    BY <2>1, <2>5
  <2>8. Len(frames') \in Nat /\ Len(frames') >= n
    BY <2>1, <2>5
  <2>9. Shortened
    BY <2>2, PopCallShortens
  <2> QED
    BY <2>6, <2>7, <2>8, <2>9, GrowAlive
<1>9. CASE SplitNext
  BY <1>9, StayAlive DEF SplitNext
<1> QED
  BY <1>1, <1>2, <1>3, <1>4, <1>5, <1>6, <1>7, <1>8, <1>9 DEF End, Unwind

LEMMA AliveInvariance == Spec => [](CallsAlive /\ TargetsAlive)
<1>1. Init => CallsAlive /\ TargetsAlive
  BY DEF Init, CallsAlive, TargetsAlive
<1>2. TypeOK /\ CallsAlive /\ TargetsAlive /\ [Next]_vars => CallsAlive' /\ TargetsAlive'
  <2> SUFFICES ASSUME TypeOK, CallsAlive, TargetsAlive, [Next]_vars
               PROVE  CallsAlive' /\ TargetsAlive'
    OBVIOUS
  <2>1. CASE UNCHANGED vars
    BY <2>1, StayAlive DEF vars
  <2>2. CASE Execute
    <3>1. frames' = <<Module>> /\ exec' = <<>>
      BY <2>2 DEF Execute, Module
    <3>2. Len(frames') = 1 /\ frames'[1].kind = "module" /\ Len(exec') = 0
      BY <3>1 DEF Module
    <3> QED
      BY <3>2 DEF CallsAlive, TargetsAlive
  <2>3. CASE Raise
    BY <2>3, StayAlive DEF Raise, LeafThrows, Throw, SplitParameterThrows,
                           ExecuteParameterThrows, ctx
  <2> QED
    BY <2>1, <2>2, <2>3, StartAlive, EndAlive DEF Next
<1> QED
  BY <1>1, <1>2, TypeCorrect, PTL DEF Spec

\* Whatever exceptions a script throws and catches, the call stack of the context
\* names running invocations only, outer ones below inner ones.
THEOREM NoDeadCalls == Spec => []CallsAlive
  BY AliveInvariance, PTL

\* What a dbp:execute will push back at its end (execute_direct) is an invocation
\* that is still running then, and belongs above what is on the call stack.
THEOREM NoDeadTargets == Spec => []TargetsAlive
  BY AliveInvariance, PTL

\* Both, for scripts of any depth: a dbp:execute never renders the content of an
\* invocation that has ended, now or after any dbp:execute around it has ended.
THEOREM NoDeadInvocations == Spec => []InvocationsAlive
<1>1. CallsAlive /\ TargetsAlive => InvocationsAlive
  BY DEF InvocationsAlive
<1> QED
  BY <1>1, AliveInvariance, PTL

--------------------------------------------------------------------------------
(* Scopes: what the layers hold belongs to the activations *)

\* Activation p owns layer i, which it opened, and what is hidden in it.
Owns(F, L, p, i) ==
    /\ F[p].kind \in Scoped
    /\ F[p].depth = i
    /\ L[i].list # 0 => L[i].list = p /\ F[p].kind = "list"
    /\ L[i].html => F[p].kind = "html"

\* The layers of activations nest as the activations do.
Nested(F, L) ==
    /\ \A p \in 1..Len(F) : F[p].depth \in 1..Len(L)
    /\ \A p, q \in 1..Len(F) :
          p < q => /\ F[p].depth <= F[q].depth
                   /\ F[q].kind \in Scoped => F[p].depth < F[q].depth

\* Every layer but the one of the script itself has its activation.
Owned(F, L) ==
    \A i \in 1..Len(L) : \/ i = 1 /\ L[i].list = 0 /\ ~L[i].html
                         \/ \E p \in 1..Len(F) : Owns(F, L, p, i)

\* The layer of a dbp:var defines its variable, over the value from before it.
Shadows(F, L) ==
    \A p \in 1..Len(F) : F[p].kind = "var" =>
        /\ L[F[p].depth].x # Undef
        /\ LocalValue(SubSeq(L, 1, F[p].depth - 1)) = F[p].saved

Fit(F, L) == Nested(F, L) /\ Owned(F, L) /\ Shadows(F, L)

ScopesFit == leaks = 0 => Fit(frames, layers)

\* What the first d layers are depends on them only.
LEMMA SameCut ==
    ASSUME NEW S, NEW s \in Seq(S), NEW t \in Seq(S), NEW d \in Nat,
           d <= Len(s), d <= Len(t), \A i \in 1..d : s[i] = t[i]
    PROVE  SubSeq(s, 1, d) = SubSeq(t, 1, d)
<1>1. \A i \in 1..d : s[i] \in S /\ t[i] \in S
  OBVIOUS
<1>2. /\ SubSeq(s, 1, d) \in Seq(S) /\ Len(SubSeq(s, 1, d)) = d
      /\ \A i \in 1..d : SubSeq(s, 1, d)[i] = s[i]
  BY <1>1, SubSeqProperties
<1>3. /\ SubSeq(t, 1, d) \in Seq(S) /\ Len(SubSeq(t, 1, d)) = d
      /\ \A i \in 1..d : SubSeq(t, 1, d)[i] = t[i]
  BY <1>1, SubSeqProperties
<1> QED
  BY <1>2, <1>3, SeqEqual

\* All the layers are the layers.
LEMMA WholeCut ==
    ASSUME NEW S, NEW s \in Seq(S)
    PROVE  SubSeq(s, 1, Len(s)) = s
<1>1. \A i \in 1..Len(s) : s[i] \in S
  OBVIOUS
<1>2. /\ SubSeq(s, 1, Len(s)) \in Seq(S) /\ Len(SubSeq(s, 1, Len(s))) = Len(s)
      /\ \A i \in 1..Len(s) : SubSeq(s, 1, Len(s))[i] = s[i]
  BY <1>1, SubSeqProperties
<1> QED
  BY <1>2, SeqEqual

\* A scope is kept by what leaves its layers alone.
LEMMA ShadowKept ==
    ASSUME NEW L \in Seq(Layer), NEW M \in Seq(Layer), NEW f \in Frame,
           f.depth \in 1..Len(L), f.depth <= Len(M),
           \A i \in 1..(f.depth - 1) : M[i] = L[i],
           L[f.depth].x # Undef => M[f.depth].x # Undef,
           f.kind = "var" => /\ L[f.depth].x # Undef
                             /\ LocalValue(SubSeq(L, 1, f.depth - 1)) = f.saved
    PROVE  f.kind = "var" => /\ M[f.depth].x # Undef
                             /\ LocalValue(SubSeq(M, 1, f.depth - 1)) = f.saved
<1> DEFINE d == f.depth - 1
<1>1. d \in Nat /\ d <= Len(L) /\ d <= Len(M)
  OBVIOUS
<1> HIDE DEF d
<1>2. SubSeq(L, 1, d) = SubSeq(M, 1, d)
  BY <1>1, SameCut DEF d
<1> QED
  BY <1>2 DEF d

\* An activation with a layer of its own begins.
LEMMA PushScopedFit ==
    ASSUME NEW F \in Seq(Frame), NEW L \in Seq(Layer), Fit(F, L),
           NEW f \in Frame, NEW l \in Layer, f.kind \in Scoped, f.depth = Len(L) + 1,
           l.list # 0 => l.list = Len(F) + 1 /\ f.kind = "list",
           l.html => f.kind = "html",
           f.kind = "var" => l.x # Undef /\ f.saved = LocalValue(L)
    PROVE  Fit(Append(F, f), Append(L, l))
<1> DEFINE G == Append(F, f)
           M == Append(L, l)
           n == Len(F)
           m == Len(L)
<1>1. /\ n \in Nat /\ Len(G) = n + 1 /\ G[n + 1] = f /\ \A p \in 1..n : G[p] = F[p]
      /\ m \in Nat /\ Len(M) = m + 1 /\ M[m + 1] = l /\ \A i \in 1..m : M[i] = L[i]
      /\ M \in Seq(Layer)
  OBVIOUS
<1>2. \A p \in 1..n : F[p] \in Frame /\ F[p].depth \in 1..m
  BY DEF Fit, Nested
<1>3. f.depth = m + 1 /\ (l.list # 0 => l.list = n + 1 /\ f.kind = "list")
  OBVIOUS
<1> HIDE DEF G, M
<1>4. Nested(G, M)
  <2> SUFFICES /\ \A p \in 1..(n + 1) : G[p].depth \in 1..(m + 1)
               /\ \A p, q \in 1..(n + 1) :
                     p < q => /\ G[p].depth <= G[q].depth
                              /\ G[q].kind \in Scoped => G[p].depth < G[q].depth
    BY <1>1 DEF Nested
  <2>1. ASSUME NEW p \in 1..(n + 1)
        PROVE  G[p].depth \in 1..(m + 1) /\ (p # n + 1 => p \in 1..n /\ G[p].depth < f.depth)
    BY <1>1, <1>2, <1>3
  <2>2. ASSUME NEW p \in 1..(n + 1), NEW q \in 1..(n + 1), p < q
        PROVE  /\ G[p].depth <= G[q].depth
               /\ G[q].kind \in Scoped => G[p].depth < G[q].depth
    <3>1. CASE q = n + 1
      BY <1>1, <1>3, <2>1, <2>2, <3>1
    <3>2. CASE q # n + 1
      <4>1. \A k \in Nat : \A i, j \in 1..(k + 1) :
               i < j /\ j # k + 1 => i \in 1..k /\ j \in 1..k
        OBVIOUS
      <4>2. p \in 1..n /\ q \in 1..n
        BY <1>1, <2>2, <3>2, <4>1
      <4> QED BY <1>1, <2>2, <4>2 DEF Fit, Nested
    <3> QED BY <3>1, <3>2
  <2> QED BY <2>1, <2>2
<1>5. Owned(G, M)
  <2> SUFFICES ASSUME NEW i \in 1..(m + 1)
               PROVE  \/ i = 1 /\ M[i].list = 0 /\ ~M[i].html
                      \/ \E p \in 1..(n + 1) : Owns(G, M, p, i)
    BY <1>1 DEF Owned
  <2>1. CASE i \in 1..m
    <3>1. \/ i = 1 /\ L[i].list = 0 /\ ~L[i].html
          \/ \E p \in 1..n : Owns(F, L, p, i)
      BY <2>1 DEF Fit, Owned
    <3>2. ASSUME NEW p \in 1..n, Owns(F, L, p, i)
          PROVE  p \in 1..(n + 1) /\ Owns(G, M, p, i)
      BY <1>1, <2>1, <3>2 DEF Owns
    <3> QED BY <1>1, <2>1, <3>1, <3>2
  <2>2. CASE i = m + 1
    <3>1. Owns(G, M, n + 1, i) /\ n + 1 \in 1..(n + 1)
      BY <1>1, <1>3, <2>2 DEF Owns
    <3> QED BY <3>1
  <2> QED BY <1>1, <2>1, <2>2
<1>6. Shadows(G, M)
  <2> SUFFICES ASSUME NEW p \in 1..(n + 1)
               PROVE  G[p].kind = "var" =>
                         /\ M[G[p].depth].x # Undef
                         /\ LocalValue(SubSeq(M, 1, G[p].depth - 1)) = G[p].saved
    BY <1>1 DEF Shadows
  <2>1. CASE p \in 1..n
    <3> DEFINE g == F[p]
    <3>1. g \in Frame /\ g.depth \in 1..m /\ G[p] = g
      BY <1>1, <1>2, <2>1
    <3>2. g.kind = "var" => /\ L[g.depth].x # Undef
                            /\ LocalValue(SubSeq(L, 1, g.depth - 1)) = g.saved
      BY <2>1 DEF Fit, Shadows
    <3> HIDE DEF g
    <3>3. /\ g.depth \in 1..Len(L) /\ g.depth <= Len(M)
          /\ \A i \in 1..(g.depth - 1) : M[i] = L[i]
          /\ M[g.depth] = L[g.depth]
      BY <1>1, <3>1
    <3> QED BY <1>1, <3>1, <3>2, <3>3, ShadowKept
  <2>2. CASE p = n + 1
    <3>1. G[p] = f /\ M[f.depth] = l /\ f.depth - 1 = m
      BY <1>1, <1>3, <2>2
    <3>2. SubSeq(M, 1, m) = L
      <4>1. SubSeq(M, 1, m) = SubSeq(L, 1, m)
        BY <1>1, SameCut
      <4> QED BY <4>1, WholeCut
    <3> QED BY <3>1, <3>2
  <2> QED BY <1>1, <2>1, <2>2
<1> QED BY <1>4, <1>5, <1>6 DEF Fit, G, M

\* An activation without a layer begins.
LEMMA PushPlainFit ==
    ASSUME NEW F \in Seq(Frame), NEW L \in Seq(Layer), Fit(F, L),
           NEW f \in Frame, f.kind \notin Scoped, f.depth = Len(L), L # <<>>
    PROVE  Fit(Append(F, f), L)
<1> DEFINE G == Append(F, f)
           n == Len(F)
           m == Len(L)
<1>1. /\ n \in Nat /\ Len(G) = n + 1 /\ G[n + 1] = f /\ \A p \in 1..n : G[p] = F[p]
      /\ m \in Nat /\ m >= 1
  OBVIOUS
<1>2. \A p \in 1..n : F[p] \in Frame /\ F[p].depth \in 1..m
  BY DEF Fit, Nested
<1> HIDE DEF G
<1>3. f.kind # "var"
  BY DEF Scoped
<1>4. Nested(G, L)
  <2> SUFFICES /\ \A p \in 1..(n + 1) : G[p].depth \in 1..m
               /\ \A p, q \in 1..(n + 1) :
                     p < q => /\ G[p].depth <= G[q].depth
                              /\ G[q].kind \in Scoped => G[p].depth < G[q].depth
    BY <1>1 DEF Nested
  <2>1. \A p \in 1..(n + 1) : G[p].depth \in 1..m /\ G[p].depth <= f.depth
    BY <1>1, <1>2
  <2>2. ASSUME NEW p \in 1..(n + 1), NEW q \in 1..(n + 1), p < q
        PROVE  /\ G[p].depth <= G[q].depth
               /\ G[q].kind \in Scoped => G[p].depth < G[q].depth
    <3>1. CASE q = n + 1
      BY <1>1, <2>1, <3>1
    <3>2. CASE q # n + 1
      <4>1. p \in 1..n /\ q \in 1..n
        BY <1>1, <2>2, <3>2, SMTT(30)
      <4> QED BY <1>1, <2>2, <4>1 DEF Fit, Nested
    <3> QED BY <3>1, <3>2
  <2> QED BY <2>1, <2>2
<1>5. Owned(G, L)
  <2> SUFFICES ASSUME NEW i \in 1..m
               PROVE  \/ i = 1 /\ L[i].list = 0 /\ ~L[i].html
                      \/ \E p \in 1..(n + 1) : Owns(G, L, p, i)
    BY <1>1 DEF Owned
  <2>1. \/ i = 1 /\ L[i].list = 0 /\ ~L[i].html
        \/ \E p \in 1..n : Owns(F, L, p, i)
    BY DEF Fit, Owned
  <2>2. ASSUME NEW p \in 1..n, Owns(F, L, p, i)
        PROVE  p \in 1..(n + 1) /\ Owns(G, L, p, i)
    BY <1>1, <2>2 DEF Owns
  <2> QED BY <2>1, <2>2
<1>6. Shadows(G, L)
  BY <1>1, <1>3 DEF Fit, Shadows
<1> QED BY <1>4, <1>5, <1>6 DEF Fit, G

\* The innermost activation goes, with its layer if it has one.
LEMMA PopFit ==
    ASSUME NEW F \in Seq(Frame), F # <<>>, NEW L \in Seq(Layer), NEW M \in Seq(Layer),
           Fit(F, L), F[Len(F)].depth = Len(L),
           \/ F[Len(F)].kind \in Scoped /\ M = Front(L)
           \/ F[Len(F)].kind \notin Scoped /\ M = L
    PROVE  Fit(Front(F), M)
<1> DEFINE G == Front(F)
           n == Len(F)
           m == Len(M)
<1>1. /\ n \in Nat /\ n >= 1 /\ Len(G) = n - 1 /\ \A p \in 1..(n - 1) : G[p] = F[p]
  BY FrontProperties
<1>2. \A p \in 1..n : F[p] \in Frame /\ F[p].depth \in 1..Len(L)
  BY DEF Fit, Nested
<1>3. m \in Nat /\ m <= Len(L) /\ Len(L) \in Nat /\ \A i \in 1..m : M[i] = L[i]
  <2>1. L # <<>>
    BY <1>1, <1>2
  <2>2. /\ Len(L) \in Nat /\ Len(L) >= 1 /\ Len(Front(L)) = Len(L) - 1
        /\ \A i \in 1..(Len(L) - 1) : Front(L)[i] = L[i]
    BY <2>1, FrontProperties
  <2>3. CASE M = Front(L)
    BY <2>2, <2>3
  <2>4. CASE M = L
    BY <2>2, <2>4
  <2> QED BY <2>3, <2>4
<1>4. ASSUME NEW p \in 1..(n - 1)
      PROVE  p \in 1..n /\ F[p].depth \in 1..m
  <2>1. p \in 1..n /\ n \in 1..n /\ p < n
    BY <1>1
  <2>2. F[n].kind \in Scoped => F[p].depth < F[n].depth
    BY <2>1 DEF Fit, Nested
  <2>3. F[n].kind \in Scoped => m = Len(L) - 1
    <3>1. L # <<>>
      BY <1>1, <1>2
    <3> QED BY <3>1, FrontProperties
  <2> QED BY <1>2, <1>3, <2>1, <2>2, <2>3
<1> HIDE DEF G, m
<1>5. Nested(G, M)
  <2>1. \A p, q \in 1..(n - 1) :
           p < q => /\ F[p].depth <= F[q].depth
                    /\ F[q].kind \in Scoped => F[p].depth < F[q].depth
    BY <1>4 DEF Fit, Nested
  <2> QED BY <1>1, <1>4, <2>1 DEF Nested, m
<1>6. Owned(G, M)
  <2> SUFFICES ASSUME NEW i \in 1..m
               PROVE  \/ i = 1 /\ M[i].list = 0 /\ ~M[i].html
                      \/ \E p \in 1..(n - 1) : Owns(G, M, p, i)
    BY <1>1 DEF Owned, m
  <2>1. i \in 1..Len(L) /\ M[i] = L[i]
    BY <1>3
  <2>2. \/ i = 1 /\ L[i].list = 0 /\ ~L[i].html
        \/ \E p \in 1..n : Owns(F, L, p, i)
    BY <2>1 DEF Fit, Owned
  <2>3. ASSUME NEW p \in 1..n, Owns(F, L, p, i)
        PROVE  p \in 1..(n - 1) /\ Owns(G, M, p, i)
    <3>1. p # n
      <4>1. F[n].kind \in Scoped => m = Len(L) - 1
        <5>1. L # <<>>
          BY <1>1, <1>2
        <5> QED BY <5>1, FrontProperties DEF m
      <4> QED BY <1>3, <2>3, <4>1 DEF Owns
    <3>2. p \in 1..(n - 1)
      BY <1>1, <3>1
    <3> QED BY <1>1, <2>1, <2>3, <3>2 DEF Owns
  <2> QED BY <2>1, <2>2, <2>3
<1>7. Shadows(G, M)
  <2> SUFFICES ASSUME NEW p \in 1..(n - 1)
               PROVE  F[p].kind = "var" =>
                         /\ M[F[p].depth].x # Undef
                         /\ LocalValue(SubSeq(M, 1, F[p].depth - 1)) = F[p].saved
    BY <1>1 DEF Shadows
  <2> DEFINE g == F[p]
  <2>1. g \in Frame /\ g.depth \in 1..m
    BY <1>2, <1>4
  <2>2. g.kind = "var" => /\ L[g.depth].x # Undef
                          /\ LocalValue(SubSeq(L, 1, g.depth - 1)) = g.saved
    BY <1>4 DEF Fit, Shadows
  <2> HIDE DEF g
  <2>3. /\ g.depth \in 1..Len(L) /\ g.depth <= Len(M)
        /\ \A i \in 1..(g.depth - 1) : M[i] = L[i]
        /\ M[g.depth] = L[g.depth]
    BY <1>3, <2>1 DEF m
  <2>4. g.kind = "var" => /\ M[g.depth].x # Undef
                          /\ LocalValue(SubSeq(M, 1, g.depth - 1)) = g.saved
    BY <2>1, <2>2, <2>3, ShadowKept
  <2> QED BY <2>4 DEF g
<1> QED BY <1>5, <1>6, <1>7 DEF Fit, G

\* An assignment to the innermost variable stays in its scope.
LEMMA AssignFit ==
    ASSUME NEW F \in Seq(Frame), NEW L \in Seq(Layer), Fit(F, L), Defining(L) # {},
           NEW v \in Values
    PROVE  Fit(F, [L EXCEPT ![Innermost(Defining(L))].x = v])
<1> DEFINE s == Innermost(Defining(L))
           l == [L[s] EXCEPT !.x = v]
           M == [L EXCEPT ![s] = l]
<1>1. Len(L) \in Nat /\ Defining(L) \in SUBSET (1..Len(L))
  BY DEF Defining
<1>2. s \in Defining(L) /\ s \in 1..Len(L) /\ \A j \in Defining(L) : j <= s
  BY <1>1, InnermostIn
<1> HIDE DEF s
<1>3. L[s] \in Layer
  BY <1>2
<1>4. l \in Layer /\ l.x = v /\ l.list = L[s].list /\ l.html = L[s].html
  BY <1>3 DEF Layer
<1>5. [L EXCEPT ![s].x = v] = M
  OBVIOUS
<1> HIDE DEF l
<1>6. M \in Seq(Layer) /\ Len(M) = Len(L)
      /\ \A i \in 1..Len(L) : M[i] = IF i = s THEN l ELSE L[i]
  <2>1. M \in Seq(Layer) /\ Len(M) = Len(L)
    BY <1>2, <1>4, ExceptSeq
  <2> QED BY <1>2, <2>1
<1>7. v # Undef
  BY TagMachineAssumption
<1> HIDE DEF M
<1>8. Nested(F, M)
  BY <1>6 DEF Fit, Nested
<1>9. Owned(F, M)
  <2> SUFFICES ASSUME NEW i \in 1..Len(L)
               PROVE  \/ i = 1 /\ M[i].list = 0 /\ ~M[i].html
                      \/ \E p \in 1..Len(F) : Owns(F, M, p, i)
    BY <1>6 DEF Owned
  <2>1. M[i].list = L[i].list /\ M[i].html = L[i].html
    BY <1>4, <1>6
  <2>2. \/ i = 1 /\ L[i].list = 0 /\ ~L[i].html
        \/ \E p \in 1..Len(F) : Owns(F, L, p, i)
    BY DEF Fit, Owned
  <2> QED BY <2>1, <2>2 DEF Owns
<1>10. Shadows(F, M)
  <2> SUFFICES ASSUME NEW p \in 1..Len(F)
               PROVE  F[p].kind = "var" =>
                         /\ M[F[p].depth].x # Undef
                         /\ LocalValue(SubSeq(M, 1, F[p].depth - 1)) = F[p].saved
    BY DEF Shadows
  <2> SUFFICES ASSUME F[p].kind = "var"
               PROVE  /\ M[F[p].depth].x # Undef
                      /\ LocalValue(SubSeq(M, 1, F[p].depth - 1)) = F[p].saved
    OBVIOUS
  <2> DEFINE g == F[p]
  <2>1. g \in Frame /\ g.depth \in 1..Len(L) /\ g.kind = "var"
    BY DEF Fit, Nested
  <2>2. /\ L[g.depth].x # Undef
        /\ LocalValue(SubSeq(L, 1, g.depth - 1)) = g.saved
    BY DEF Fit, Shadows
  <2> HIDE DEF g
  <2>3. g.depth <= s
    BY <1>2, <2>1, <2>2 DEF Defining
  <2>4. /\ g.depth <= Len(M)
        /\ \A i \in 1..(g.depth - 1) : M[i] = L[i]
    BY <1>1, <1>2, <1>6, <2>1, <2>3
  <2>5. M[g.depth].x # Undef
    BY <1>4, <1>6, <1>7, <2>1, <2>2
  <2>6. LocalValue(SubSeq(M, 1, g.depth - 1)) = g.saved
    BY <1>6, <2>1, <2>2, <2>4, <2>5, ShadowKept
  <2> QED BY <2>5, <2>6 DEF g
<1> QED BY <1>5, <1>8, <1>9, <1>10 DEF Fit, s

\* As long as no layer has leaked, the layers are those of the innermost activation.
LEMMA NoLeakDepth ==
    ASSUME TypeOK, Balanced, leaks = 0, frames # <<>>
    PROVE  /\ Top \in Frame /\ Top = frames[Len(frames)] /\ Top.depth \in Nat
           /\ Len(layers) = Top.depth
<1>1. Top \in Frame /\ Top = frames[Len(frames)]
  BY TopType DEF Top, Last
<1>2. Top.depth \in Nat
  BY <1>1 DEF Frame
<1> QED BY <1>1, <1>2 DEF Balanced, LayersBalanced

\* An activation has layers.
LEMMA LayersThere ==
    ASSUME TypeOK, Balanced, leaks = 0, frames # <<>>, Fit(frames, layers)
    PROVE  layers # <<>>
<1>1. Len(frames) \in 1..Len(frames)
  BY DEF TypeOK
<1>2. frames[Len(frames)].depth \in 1..Len(layers)
  BY <1>1 DEF Fit, Nested
<1> QED BY <1>2

\* A tag that opens a layer starts.
LEMMA EnterScopeFit ==
    ASSUME TypeOK, Balanced, leaks = 0, Fit(frames, layers),
           NEW k \in FrameKinds, NEW l \in Layer, k \in Scoped,
           frames # <<>>, frames' = Append(frames, Inner(k, 1)), layers' = Append(layers, l),
           l.list # 0 => l.list = Len(frames) + 1 /\ k = "list",
           l.html => k = "html", k = "var" => l.x # Undef
    PROVE  Fit(frames, layers)'
<1> DEFINE f == Inner(k, 1)
<1>1. f \in Frame /\ f.kind = k /\ f.saved = LocalValue(layers) /\ f.depth = Top.depth + 1
  <2>1. f \in Frame
    BY InnerType
  <2> QED BY <2>1 DEF Inner
<1>2. Len(layers) = Top.depth /\ frames \in Seq(Frame) /\ layers \in Seq(Layer)
  BY NoLeakDepth DEF TypeOK
<1> HIDE DEF f
<1>3. Fit(Append(frames, f), Append(layers, l))
  BY <1>1, <1>2, PushScopedFit
<1> QED BY <1>3 DEF f

\* An activation without a layer, of whatever kind.
LEMMA PushPlain ==
    ASSUME TypeOK, Balanced, leaks = 0, Fit(frames, layers), frames # <<>>,
           NEW f \in Frame, f.kind \notin Scoped, f.depth = Top.depth + 0,
           frames' = Append(frames, f), layers' = layers
    PROVE  Fit(frames, layers)'
<1>1. Len(layers) = Top.depth /\ Top.depth \in Nat /\ frames \in Seq(Frame)
      /\ layers \in Seq(Layer) /\ layers # <<>>
  BY NoLeakDepth, LayersThere DEF TypeOK
<1>2. f.depth = Len(layers)
  BY <1>1
<1> QED BY <1>1, <1>2, PushPlainFit

\* The same for the tags that only execute their children.
LEMMA EnterPlainFit ==
    ASSUME TypeOK, Balanced, leaks = 0, Fit(frames, layers),
           NEW k \in FrameKinds, NEW h \in BOOLEAN, k \notin Scoped, EnterPlain(k, h)
    PROVE  Fit(frames, layers)'
<1> DEFINE f == [Inner(k, 0) EXCEPT !.handler = h]
<1>1. frames # <<>> /\ frames' = Append(frames, f) /\ layers' = layers
  BY DEF EnterPlain, CanStart, Running, ctx
<1>2. Inner(k, 0) \in Frame
  BY <1>1, InnerType
<1>3. f \in Frame
  BY <1>2 DEF Frame
<1>4. f.kind = k /\ f.depth = Top.depth + 0
  BY DEF Inner
<1> HIDE DEF f
<1> QED BY <1>1, <1>3, <1>4, PushPlain

\* The end of an activation, by content or by exception.
LEMMA PopFits ==
    ASSUME TypeOK, Balanced, leaks = 0, Fit(frames, layers), frames # <<>>,
           frames' = Front(frames),
           \/ Top.kind \in Scoped /\ layers' = Front(layers)
           \/ Top.kind \notin Scoped /\ layers' = layers
    PROVE  Fit(frames, layers)'
<1>1. /\ Top = frames[Len(frames)] /\ Top.depth = Len(layers)
      /\ frames \in Seq(Frame) /\ layers \in Seq(Layer) /\ layers # <<>>
  BY NoLeakDepth, LayersThere DEF TypeOK
<1>2. Front(layers) \in Seq(Layer)
  BY <1>1, FrontProperties
<1> QED BY <1>1, <1>2, PopFit

\* Every tag that starts leaves a context that fits.
LEMMA StartFit ==
    ASSUME TypeOK, Balanced, leaks = 0, Fit(frames, layers), Start
    PROVE  Fit(frames, layers)'
<1>k. {"var", "outervar", "set", "while", "switch", "case", "try", "throw",
       "split", "substr", "regexp", "locale", "list", "element", "html",
       "inner html", "usr", "call", "execute", "tag"} \subseteq FrameKinds
  BY DEF FrameKinds, AllKinds
<1>s. ASSUME NEW k \in FrameKinds, k \in Scoped, NEW l \in Layer, EnterScope(k, l),
             l.list # 0 => l.list = Len(frames) + 1 /\ k = "list",
             l.html => k = "html", k = "var" => l.x # Undef
      PROVE  Fit(frames, layers)'
  <2>1. frames # <<>> /\ frames' = Append(frames, Inner(k, 1)) /\ layers' = Append(layers, l)
    BY <1>s DEF EnterScope, CanStart, Running
  <2> QED BY <1>s, <2>1, EnterScopeFit
<1>p. ASSUME NEW k \in FrameKinds, k \notin Scoped, NEW h \in BOOLEAN, EnterPlain(k, h)
      PROVE  Fit(frames, layers)'
  BY <1>p, EnterPlainFit
<1>v. ASSUME NEW v \in Values
      PROVE  LET l == [NoVars EXCEPT !.x = v]
             IN  l \in Layer /\ l.list = 0 /\ l.html = FALSE /\ l.x # Undef
  BY TagMachineAssumption DEF NoVars, Layer
<1>n. NoVars \in Layer /\ NoVars.list = 0 /\ NoVars.html = FALSE
  BY DEF NoVars, Layer
<1>1. CASE StartVar \/ StartSubstr \/ StartRegexp \/ StartSplit
  <2>1. PICK k \in {"var", "substr", "regexp", "split"}, v \in Values :
           EnterScope(k, [NoVars EXCEPT !.x = v])
    BY <1>1 DEF StartVar, StartSubstr, StartRegexp, StartSplit
  <2> DEFINE l == [NoVars EXCEPT !.x = v]
  <2>2. l \in Layer /\ l.list = 0 /\ l.html = FALSE /\ l.x # Undef
    BY <1>v
  <2>3. EnterScope(k, l)
    BY <2>1
  <2>4. k \in FrameKinds /\ k \in Scoped
    BY <1>k DEF Scoped
  <2> HIDE DEF l
  <2> QED BY <1>s, <2>2, <2>3, <2>4
<1>2. CASE StartSwitch \/ StartLocale
  <2>1. PICK k \in {"switch", "locale"} : EnterScope(k, NoVars)
    BY <1>2 DEF StartSwitch, StartLocale
  <2>2. k \in FrameKinds /\ k \in Scoped /\ k # "var"
    BY <1>k DEF Scoped
  <2> QED BY <1>n, <1>s, <2>1, <2>2
<1>3. CASE StartSet \/ StartWhile \/ StartCase \/ StartThrow \/ StartTry \/ StartTag
  <2>1. PICK k \in {"set", "while", "case", "throw", "try", "tag"}, h \in BOOLEAN : EnterPlain(k, h)
    BY <1>3 DEF StartSet, StartWhile, StartCase, StartThrow, StartTry, StartTag
  <2>2. k \in FrameKinds /\ k \notin Scoped
    BY <1>k DEF Scoped
  <2> QED BY <1>p, <2>1, <2>2
<1>4. CASE StartList
  <2> DEFINE l == [NoVars EXCEPT !.list = Len(frames) + 1]
  <2>1. l \in Layer /\ l.list = Len(frames) + 1 /\ l.html = FALSE
    <3>1. Len(frames) + 1 \in Nat
      BY DEF TypeOK
    <3> QED BY <3>1 DEF NoVars, Layer
  <2>2. EnterScope("list", l)
    BY <1>4 DEF StartList
  <2>3. "list" \in FrameKinds /\ "list" \in Scoped
    BY <1>k DEF Scoped
  <2> HIDE DEF l
  <2> QED BY <1>s, <2>1, <2>2, <2>3
<1>5. CASE StartHtml
  <2> DEFINE l == [NoVars EXCEPT !.html = TRUE]
  <2>1. l \in Layer /\ l.list = 0
    BY DEF NoVars, Layer
  <2>2. EnterPlain("inner html", FALSE) \/ EnterScope("html", l)
    BY <1>5 DEF StartHtml
  <2>3. /\ "html" \in FrameKinds /\ "html" \in Scoped
        /\ "inner html" \in FrameKinds /\ "inner html" \notin Scoped
    BY <1>k DEF Scoped
  <2> HIDE DEF l
  <2> QED BY <1>p, <1>s, <2>1, <2>2, <2>3
<1>6. CASE StartElement
  <2>1. CASE VisibleList(layers) # 0
    <3>1. PICK v \in Values : EnterScope("element", [NoVars EXCEPT !.x = v])
      BY <1>6, <2>1 DEF StartElement
    <3> DEFINE l == [NoVars EXCEPT !.x = v]
    <3>2. l \in Layer /\ l.list = 0 /\ l.html = FALSE
      BY <1>v
    <3>3. EnterScope("element", l)
      BY <3>1
    <3>4. "element" \in FrameKinds /\ "element" \in Scoped
      BY <1>k DEF Scoped
    <3> HIDE DEF l
    <3> QED BY <1>s, <3>2, <3>3, <3>4
  <2>2. CASE VisibleList(layers) = 0
    BY <1>6, <2>2 DEF StartElement, ctx
  <2> QED BY <2>1, <2>2
<1>7. CASE StartOuterVar
  <2>1. CASE frames' = frames /\ layers' = layers
    BY <2>1
  <2>2. CASE frames' = Append(frames, Inner("outervar", 1)) /\ layers' = Append(layers, NoVars)
    <3>1. frames # <<>>
      BY <1>7 DEF StartOuterVar, CanStart, Running
    <3>2. "outervar" \in FrameKinds /\ "outervar" \in Scoped
      BY <1>k DEF Scoped
    <3> QED BY <1>n, <2>2, <3>1, <3>2, EnterScopeFit
  <2> QED BY <1>7, <2>1, <2>2 DEF StartOuterVar
<1>8. CASE StartUsr \/ StartCall
  <2>1. PICK k \in {"usr", "call"} : Invoke(k)
    BY <1>8 DEF StartUsr, StartCall
  <2>2. PICK v \in Values \cup {Undef} : layers' = Append(layers, [NoVars EXCEPT !.x = v])
    BY <2>1 DEF Invoke
  <2> DEFINE g == [Inner(k, 1) EXCEPT !.caller = "usr",
                                      !.scope = Append(Top.scope, Len(frames) + 1)]
             l == [NoVars EXCEPT !.x = v]
  <2>3. frames # <<>> /\ frames' = Append(frames, g) /\ layers' = Append(layers, l)
    BY <2>1, <2>2 DEF Invoke, CanStart, Running
  <2>4. k \in FrameKinds /\ k \in Scoped /\ k # "var"
    BY <1>k DEF Scoped
  <2>5. l \in Layer /\ l.list = 0 /\ l.html = FALSE
    BY DEF NoVars, Layer
  <2>6. g \in Frame
    <3>1. Inner(k, 1) \in Frame /\ Top \in Frame
      BY <2>3, <2>4, InnerType, TopType
    <3>2. Append(Top.scope, Len(frames) + 1) \in Seq(Nat)
      BY <3>1 DEF Frame, TypeOK
    <3> QED BY <3>1, <3>2 DEF Frame
  <2>7. g.kind = k /\ g.depth = Top.depth + 1
    BY DEF Inner
  <2> HIDE DEF g, l
  <2>8. Len(layers) = Top.depth /\ frames \in Seq(Frame) /\ layers \in Seq(Layer)
    BY <2>3, NoLeakDepth DEF TypeOK
  <2>9. Fit(Append(frames, g), Append(layers, l))
    BY <2>4, <2>5, <2>6, <2>7, <2>8, PushScopedFit
  <2> QED BY <2>3, <2>9
<1>9. CASE StartExecute
  <2>1. PICK c \in {"execute", "usr"} :
          frames' = Append(frames, [Inner("execute", 0) EXCEPT
                      !.caller = c, !.target = Last(exec), !.scope = Front(Top.scope)])
    BY <1>9 DEF StartExecute
  <2> DEFINE g == [Inner("execute", 0) EXCEPT
                     !.caller = c, !.target = Last(exec), !.scope = Front(Top.scope)]
  <2>2. frames # <<>> /\ frames' = Append(frames, g) /\ layers' = layers
    BY <1>9, <2>1 DEF StartExecute, CanStart, Running
  <2>3. "execute" \in FrameKinds /\ "execute" \notin Scoped
    BY <1>k DEF Scoped
  <2>4. g \in Frame
    <3>1. Inner("execute", 0) \in Frame /\ Top \in Frame
      BY <2>2, <2>3, InnerType, TopType
    <3>2. exec # <<>> /\ exec \in Seq(Nat) /\ Top.scope \in Seq(Nat)
      BY <1>9, <3>1 DEF StartExecute, TypeOK, Frame
    <3>3. Last(exec) \in Nat /\ Front(Top.scope) \in Seq(Nat)
      BY <3>2, FrontProperties, FrontType
    <3> QED BY <3>1, <3>3 DEF Frame
  <2>5. g.kind = "execute" /\ g.depth = Top.depth + 0
    BY DEF Inner
  <2> HIDE DEF g
  <2> QED BY <2>2, <2>3, <2>4, <2>5, PushPlain
<1> QED
  BY <1>1, <1>2, <1>3, <1>4, <1>5, <1>6, <1>7, <1>8, <1>9 DEF Start

\* context::set_value keeps the scopes.
LEMMA SetValueFit ==
    ASSUME NEW F \in Seq(Frame), layers \in Seq(Layer), Fit(F, layers),
           NEW v \in Values, SetValue(v)
    PROVE  Fit(F, layers')
<1>1. CASE Defining(layers) # {}
  BY <1>1, AssignFit DEF SetValue
<1>2. CASE Defining(layers) = {}
  BY <1>2 DEF SetValue
<1> QED BY <1>1, <1>2

\* So does every end of an activation, and every assignment.
LEMMA EndFit ==
    ASSUME TypeOK, Balanced, leaks = 0, Fit(frames, layers), End \/ Unwind
    PROVE  Fit(frames, layers)'
<1>0. frames \in Seq(Frame) /\ layers \in Seq(Layer)
  BY DEF TypeOK
<1>1. CASE LeaveScope \/ EndInvocation \/ UnwindScope \/ SwitchDone \/ UnwindInvocation
  <2>1. frames # <<>> /\ frames' = Front(frames) /\ layers' = Front(layers) /\ Top.kind \in Scoped
    BY <1>1 DEF LeaveScope, EndInvocation, UnwindScope, SwitchDone, UnwindInvocation,
                Running, Unwinding, Pop, Scoped
  <2> QED BY <2>1, PopFits
<1>2. CASE EndExecute \/ EndCase \/ EndThrow \/ EndPlain \/ UnwindExecute \/ UnwindPlain
  <2>1. frames # <<>> /\ frames' = Front(frames) /\ layers' = layers /\ Top.kind \notin Scoped
    BY <1>2 DEF EndExecute, EndCase, EndThrow, EndPlain, UnwindExecute, UnwindPlain,
                Ending, Running, Unwinding, Pop, Scoped, ctx
  <2> QED BY <2>1, PopFits
<1>3. CASE EndSet
  <2>1. frames # <<>> /\ frames' = Front(frames) /\ Top.kind = "set"
    BY <1>3 DEF EndSet, Ending, Running, Pop
  <2>2. PICK v \in Values : SetValue(v)
    BY <1>3 DEF EndSet
  <2>3. Top.kind \notin Scoped /\ Top = frames[Len(frames)] /\ Top.depth = Len(layers)
    BY <2>1, NoLeakDepth DEF Scoped
  <2>4. Fit(Front(frames), layers) /\ Front(frames) \in Seq(Frame)
    BY <1>0, <2>1, <2>3, PopFit, FrontType
  <2>5. Fit(Front(frames), layers')
    BY <1>0, <2>2, <2>4, SetValueFit
  <2> QED BY <2>1, <2>5
<1>4. CASE SplitNext
  <2>1. PICK v \in Values : SetValue(v)
    BY <1>4 DEF SplitNext
  <2>2. Fit(frames, layers')
    BY <1>0, <2>1, SetValueFit
  <2> QED BY <1>4, <2>2 DEF SplitNext
<1>5. CASE Handle
  <2>1. /\ frames # <<>> /\ Top.kind = "try" /\ layers' = Append(layers, NoVars)
        /\ frames' = [frames EXCEPT ![Len(frames)] = Caught]
    BY <1>5 DEF Handle, Unwinding, Caught
  <2>2. /\ Top \in Frame /\ Top = frames[Len(frames)] /\ Top.depth \in Nat
        /\ Top.depth = Len(layers) /\ Top.kind \notin Scoped
    BY <2>1, NoLeakDepth DEF Scoped
  <2>3. Caught \in Frame /\ Caught.kind = "catch" /\ Caught.depth = Top.depth + 1
    <3>1. "catch" \in FrameKinds /\ Top.depth + 1 \in Nat
      BY <2>2 DEF FrameKinds
    <3> QED BY <2>2, <3>1 DEF Caught, Frame
  <2>4. Fit(Front(frames), layers) /\ Front(frames) \in Seq(Frame)
    BY <1>0, <2>1, <2>2, PopFit, FrontType
  <2>5. NoVars \in Layer /\ NoVars.list = 0 /\ NoVars.html = FALSE
    BY DEF NoVars, Layer
  <2>6. Fit(Append(Front(frames), Caught), Append(layers, NoVars))
    <3>1. "catch" \in Scoped
      BY DEF Scoped
    <3> QED BY <1>0, <2>2, <2>3, <2>4, <2>5, <3>1, PushScopedFit
  <2>7. frames' = Append(Front(frames), Caught)
    <3> DEFINE n == Len(frames)
               F == [frames EXCEPT ![n] = Caught]
               G == Append(Front(frames), Caught)
    <3>1. n \in Nat /\ n >= 1
      BY <1>0, <2>1
    <3>2. F \in Seq(Frame) /\ Len(F) = n
      BY <1>0, <2>3, <3>1, ExceptSeq
    <3>3. /\ Len(Front(frames)) = n - 1
          /\ \A i \in 1..(n - 1) : Front(frames)[i] = frames[i]
      BY <1>0, <2>1, FrontProperties
    <3>4. /\ G \in Seq(Frame) /\ Len(G) = n /\ G[n] = Caught
          /\ \A i \in 1..(n - 1) : G[i] = frames[i]
      BY <2>3, <2>4, <3>1, <3>3
    <3>5. \A i \in 1..n : F[i] = IF i = n THEN Caught ELSE frames[i]
      BY <1>0, <3>1
    <3> HIDE DEF F, G, n
    <3>6. \A i \in 1..n : F[i] = G[i]
      BY <3>1, <3>4, <3>5
    <3>7. F = G
      BY <3>2, <3>4, <3>6, SeqEqual
    <3> QED BY <2>1, <3>7 DEF F, G, n
  <2> QED BY <2>1, <2>6, <2>7
<1> QED BY <1>1, <1>2, <1>3, <1>4, <1>5 DEF End, Unwind

\* The layers belong to the activations as long as no layer has leaked.
LEMMA ScopesInvariance == Spec => []ScopesFit
<1>1. Init => ScopesFit
  BY DEF Init, ScopesFit, Fit, Nested, Owned, Shadows
<1>2. TypeOK /\ Balanced /\ ScopesFit /\ [Next]_vars => ScopesFit'
  <2> SUFFICES ASSUME TypeOK, Balanced, ScopesFit, [Next]_vars, leaks' = 0
               PROVE  Fit(frames, layers)'
    BY DEF ScopesFit
  <2>1. CASE UNCHANGED vars
    BY <2>1 DEF vars, ScopesFit
  <2>2. CASE Execute
    <3>1. frames' = <<Module>> /\ layers' = <<NoVars>>
      BY <2>2 DEF Execute, Module
    <3>2. Fit(<<Module>>, <<NoVars>>)
      <4> DEFINE F == <<Module>>
                 L == <<NoVars>>
      <4>1. /\ Len(F) = 1 /\ F[1].depth = 1 /\ F[1].kind = "module"
            /\ Len(L) = 1 /\ L[1].list = 0 /\ ~L[1].html
        BY DEF Module, NoVars
      <4> HIDE DEF F, L
      <4>2. Fit(F, L)
        BY <4>1 DEF Fit, Nested, Owned, Shadows
      <4> QED BY <4>2 DEF F, L
    <3> QED BY <3>1, <3>2
  <2>3. CASE Start
    <3>1. leaks = 0
      BY <2>3 DEF Start, StartVar, StartOuterVar, StartSet, StartWhile, StartSwitch,
           StartCase, StartTry, StartThrow, StartSubstr, StartRegexp, StartLocale,
           StartHtml, StartList, StartElement, StartSplit, StartUsr, StartCall, StartTag,
           StartExecute, EnterScope, EnterPlain, Invoke, history
    <3> QED BY <2>3, <3>1, StartFit DEF ScopesFit
  <2>4. CASE Raise
    <3>1. leaks = 0 /\ frames' = frames /\ layers' = layers
      BY <2>4 DEF Raise, LeafThrows, Throw, SplitParameterThrows, ExecuteParameterThrows,
                  ctx, history, TypeOK
    <3> QED BY <3>1 DEF ScopesFit
  <2>5. CASE End \/ Unwind
    <3>1. leaks = 0
      BY <2>5 DEF End, Unwind, LeaveScope, EndInvocation, EndExecute, EndSet, EndCase,
           EndThrow, EndPlain, SplitNext, UnwindScope, SwitchDone, UnwindInvocation,
           UnwindExecute, Handle, UnwindPlain, history
    <3> QED BY <2>5, <3>1, EndFit DEF ScopesFit
  <2> QED BY <2>1, <2>2, <2>3, <2>4, <2>5 DEF Next
<1> QED
  BY <1>1, <1>2, TypeCorrect, BalancedInvariance, PTL DEF Spec

\* tag_list.cpp saves "the pointer to data for nested tags": as long as no layer
\* has leaked, the pointer that a layer holds is that of a running dbp:list, and
\* a layer with the HTML mark has a running element.
THEOREM HiddenPointersAlive == Spec => []HiddenAlive
<1>1. TypeOK /\ ScopesFit => HiddenAlive
  <2> SUFFICES ASSUME TypeOK, Fit(frames, layers), NEW i \in 1..Len(layers)
               PROVE  /\ layers[i].list # 0 => /\ layers[i].list \in 1..Len(frames)
                                               /\ frames[layers[i].list].kind = "list"
                      /\ layers[i].html => \E j \in 1..Len(frames) : frames[j].kind = "html"
    BY DEF ScopesFit, HiddenAlive
  <2>1. \/ layers[i].list = 0 /\ ~layers[i].html
        \/ \E p \in 1..Len(frames) : Owns(frames, layers, p, i)
    BY DEF Fit, Owned
  <2> QED BY <2>1 DEF Owns
<1> QED
  BY <1>1, ScopesInvariance, TypeCorrect, PTL

\* lang_vars: on every path out of a dbp:var, its content ended or thrown out of,
\* the variable has the value again that it had before, whatever the content
\* assigned, as long as no layer has leaked.
THEOREM RedeclarationsEnd == Spec => RedeclarationEnds
<1>1. ASSUME TypeOK, Balanced, ScopesFit, Next, LeavesVar, leaks = 0
      PROVE  LocalValue(layers') = Top.saved
  <2>1. /\ frames # <<>> /\ frames' = Front(frames) /\ Top.kind = "var"
        /\ frames \in Seq(Frame) /\ layers \in Seq(Layer) /\ Fit(frames, layers)
    BY <1>1 DEF LeavesVar, ScopesFit, TypeOK
  <2>2. Len(frames) \in Nat /\ Len(frames) >= 1 /\ Len(frames') = Len(frames) - 1
    BY <2>1, FrontProperties
  <2>3. layers' = Front(layers)
    <3>1. CASE Start
      <4>1. frames' = frames \/ \E g : frames' = Append(frames, g)
        BY <3>1, Zenon DEF Start, StartVar, StartOuterVar, StartSet, StartWhile,
           StartSwitch, StartCase, StartTry, StartThrow, StartSubstr, StartRegexp,
           StartLocale, StartHtml, StartList, StartElement, StartSplit, StartUsr,
           StartCall, StartTag, StartExecute, EnterScope, EnterPlain, Invoke, ctx
      <4>2. ASSUME NEW g, frames' = Append(frames, g) PROVE Len(frames') = Len(frames) + 1
        BY <2>1, <4>2
      <4> QED BY <2>2, <4>1, <4>2
    <3>2. CASE Raise \/ SplitNext
      <4>1. frames' = frames
        BY <3>2 DEF Raise, LeafThrows, Throw, SplitParameterThrows, ExecuteParameterThrows,
                    SplitNext
      <4> QED BY <2>2, <4>1
    <3>3. ~Execute
      BY <2>1 DEF Execute
    <3>4. CASE LeaveScope \/ UnwindScope
      BY <3>4 DEF LeaveScope, UnwindScope
    <3>5. ~(EndInvocation \/ EndExecute \/ EndSet \/ EndCase \/ EndThrow \/ EndPlain)
      BY <2>1 DEF EndInvocation, EndExecute, EndSet, EndCase, EndThrow, EndPlain, Ending
    <3>6. ~(SwitchDone \/ UnwindInvocation \/ UnwindExecute \/ Handle \/ UnwindPlain)
      BY <2>1 DEF SwitchDone, UnwindInvocation, UnwindExecute, Handle, UnwindPlain
    <3> QED BY <1>1, <3>1, <3>2, <3>3, <3>4, <3>5, <3>6 DEF Next, End, Unwind
  <2>4. Top = frames[Len(frames)] /\ Top.depth = Len(layers)
    BY <1>1, <2>1, NoLeakDepth
  <2>5. LocalValue(SubSeq(layers, 1, Top.depth - 1)) = Top.saved
    <3>1. Len(frames) \in 1..Len(frames)
      BY <2>2
    <3> QED BY <2>1, <2>4, <3>1 DEF Fit, Shadows
  <2> QED BY <2>3, <2>4, <2>5 DEF Front
<1>2. ASSUME TypeOK, Balanced, ScopesFit, [Next]_vars
      PROVE  [LeavesVar /\ leaks = 0 => LocalValue(layers') = Top.saved]_vars
  BY <1>1, <1>2
<1> QED
  BY <1>2, TypeCorrect, BalancedInvariance, ScopesInvariance, PTL DEF Spec, RedeclarationEnds

================================================================================
