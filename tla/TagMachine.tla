------------------------------- MODULE TagMachine -------------------------------
(***************************************************************************)
(* One thread executes the tags of a script: the C++ activations of        *)
(* tag::execute, the layers of variables and the call stack of the local   *)
(* context they share (context.cpp), and the exception in flight.          *)
(*                                                                         *)
(* The script is chosen while it runs: wherever a tag executes its         *)
(* children the next child may be any tag of Kinds, or the content may     *)
(* end.  Tests, matches and parameters of a script depend on its data, so  *)
(* each such run is the run of some script.                                *)
(*                                                                         *)
(* Of the variables one name is kept, and two that tags hide in a layer:   *)
(* the pointer of dbp:list and the mark of the outermost HTML element.  An *)
(* entry of the call stack, or a list pointer, is the position in frames   *)
(* of the activation that stored it.                                       *)
(***************************************************************************)
EXTENDS Naturals, Sequences

CONSTANTS
    Kinds,      \* the tags scripts may use
    Values,     \* values of the variable
    Undef,      \* a layer that does not define it
    MaxDepth,   \* bound: nesting of activations
    MaxLeaks    \* bound: layers that dbp:split may leave behind

AllKinds == {"var", "outervar", "set", "while", "switch", "case", "try", "throw",
             "split", "substr", "regexp", "locale", "list", "element", "html",
             "inner html", "usr", "call", "execute", "tag", "leaf"}

ASSUME TagMachineAssumption ==
    /\ Kinds \subseteq AllKinds
    /\ Undef \notin Values
    /\ MaxDepth \in Nat /\ MaxLeaks \in Nat

VARIABLES
    frames,     \* activations of tag::execute that run children, innermost last
    layers,     \* context::stack of the local context
    exec,       \* context::exec: the tags an enclosed dbp:execute may render
    outer,      \* the variable in the contexts above the local one
    thrown,     \* the exception in flight
    leaks,      \* history: layers that lost the activation that would free them
    lost        \* history: an exception kept dbp:execute from restoring exec

ctx == <<layers, exec, outer>>
history == <<leaks, lost>>
vars == <<frames, layers, exec, outer, thrown, leaks, lost>>

\* dbpager::app_exception, tag_case_exception and all other exceptions.
Exceptions == {"app", "case", "std"}

Layer == [x : Values \cup {Undef}, list : Nat, html : BOOLEAN]
NoVars == [x |-> Undef, list |-> 0, html |-> FALSE]

\* Tags that free a context layer when their content ends.
Scoped == {"var", "outervar", "switch", "catch", "split", "substr", "regexp",
           "locale", "list", "element", "html", "usr", "call"}

FrameKinds == (AllKinds \ {"leaf"}) \cup {"module", "catch"}

\* An activation: the kind of its tag, what it passes to its children as
\* caller, the tag that dbp:execute took off the call stack (0 for none) and
\* whether a dbp:try has a dbp:catch.  The rest is history: the layers and the
\* call stack its children should see, and the variable before it started.
Frame == [kind : FrameKinds, caller : {"none", "usr", "execute"}, target : Nat,
          handler : BOOLEAN, depth : Nat, scope : Seq(Nat),
          saved : Values \cup {Undef}]

TypeOK ==
    /\ frames \in Seq(Frame)
    /\ layers \in Seq(Layer)
    /\ exec \in Seq(Nat)
    /\ outer \in Values \cup {Undef}
    /\ thrown \in Exceptions \cup {"none"}
    /\ leaks \in Nat
    /\ lost \in BOOLEAN

--------------------------------------------------------------------------------
(* context.cpp *)

Front(s) == SubSeq(s, 1, Len(s) - 1)
Last(s) == s[Len(s)]

\* The layers that define the variable; the last of them is the visible one.
Defining(ls) == {i \in 1..Len(ls) : ls[i].x # Undef}
Innermost(S) == CHOOSE i \in S : \A j \in S : j <= i

\* context::get_value, as far as the local context answers.
LocalValue(ls) ==
    IF Defining(ls) = {} THEN Undef ELSE ls[Innermost(Defining(ls))].x

\* The list pointer that get_value("@LIST@" + name) finds, 0 for none.
VisibleList(ls) ==
    LET holders == {i \in 1..Len(ls) : ls[i].list # 0}
    IN  IF holders = {} THEN 0 ELSE ls[Innermost(holders)].list

\* get_value("@HTML:FIRST@") is not empty.
HtmlMarked(ls) == \E i \in 1..Len(ls) : ls[i].html

\* context::push and context::pop on the call stack; pop of an empty one
\* returns NULL.
PushCall(t) == exec' = Append(exec, t)
PopCall == exec' = IF exec = <<>> THEN exec ELSE Front(exec)

\* Mutant: the layers are searched from the bottom.
SetValueOutermost(v) ==
    IF Defining(layers) # {}
      THEN /\ layers' = [layers EXCEPT
                           ![CHOOSE i \in Defining(layers) :
                               \A j \in Defining(layers) : i <= j].x = v]
           /\ UNCHANGED <<outer, thrown>>
      ELSE IF outer # Undef
             THEN outer' = v /\ UNCHANGED <<layers, thrown>>
             ELSE thrown' = "std" /\ UNCHANGED <<layers, outer>>

\* context::set_value: the innermost layer that defines the variable, else the
\* contexts above, else context_exception.
SetValue(v) ==
    IF Defining(layers) # {}
      THEN /\ layers' = [layers EXCEPT ![Innermost(Defining(layers))].x = v]
           /\ UNCHANGED <<outer, thrown>>
      ELSE IF outer # Undef
             THEN outer' = v /\ UNCHANGED <<layers, thrown>>
             ELSE thrown' = "std" /\ UNCHANGED <<layers, outer>>

--------------------------------------------------------------------------------
(* Starting tags *)

Top == Last(frames)

\* Some activation executes its children.
Running == frames # <<>> /\ thrown = "none"

\* The next child is a tag of kind k that executes children of its own.
CanStart(k) == k \in Kinds /\ Running /\ Len(frames) < MaxDepth

\* The activation of a tag that hands its caller on and adds d layers.
Inner(k, d) ==
    [kind |-> k, caller |-> Top.caller, target |-> 0, handler |-> FALSE,
     depth |-> Top.depth + d, scope |-> Top.scope, saved |-> LocalValue(layers)]

\* ctx.enter(), variables into the new layer, then the children.
EnterScope(k, l) ==
    /\ CanStart(k)
    /\ frames' = Append(frames, Inner(k, 1))
    /\ layers' = Append(layers, l)
    /\ UNCHANGED <<exec, outer, thrown, history>>

\* The children, with nothing done to the context.
EnterPlain(k, h) ==
    /\ CanStart(k)
    /\ frames' = Append(frames, [Inner(k, 0) EXCEPT !.handler = h])
    /\ UNCHANGED <<ctx, thrown, history>>

\* dbpager_application::execute: a fresh local context for the next request.
Execute ==
    /\ frames = <<>>
    /\ frames' = << [kind |-> "module", caller |-> "none", target |-> 0,
                     handler |-> FALSE, depth |-> 1, scope |-> <<>>, saved |-> Undef] >>
    /\ layers' = <<NoVars>>
    /\ exec' = <<>>
    /\ thrown' = "none"
    /\ leaks' = 0
    /\ lost' = FALSE
    /\ UNCHANGED outer

\* A tag without activation of interest throws, or the evaluation of a
\* parameter does (tag_impl::get_parameter) in a tag that restores the context.
LeafThrows ==
    /\ Running
    /\ "leaf" \in Kinds
    /\ thrown' = "std"
    /\ UNCHANGED <<frames, ctx, history>>

\* tag_var::execute with type="local", the default.
StartVar == \E v \in Values : EnterScope("var", [NoVars EXCEPT !.x = v])

\* tag_var::execute with another type: context::add_value hands the variable to
\* a context above, or throws when none has that type.
StartOuterVar ==
    /\ CanStart("outervar")
    /\ \/ /\ outer' \in Values
          /\ frames' = Append(frames, Inner("outervar", 1))
          /\ layers' = Append(layers, NoVars)
          /\ UNCHANGED thrown
       \/ /\ thrown' = "std"
          /\ UNCHANGED <<frames, layers, outer>>
    /\ UNCHANGED <<exec, history>>

\* tag_set::execute collects the output of its children first.
StartSet == EnterPlain("set", FALSE)

\* tag_while::execute, when the test is "1".
StartWhile == EnterPlain("while", FALSE)

\* tag_switch::execute puts the tested value into its layer.
StartSwitch == EnterScope("switch", NoVars)

\* tag_case::execute, when the value matches.
StartCase == EnterPlain("case", FALSE)

\* tag_try::execute, with or without a dbp:catch among the children.
StartTry == \E h \in BOOLEAN : EnterPlain("try", h)

\* tag_throw::execute: the message is a parameter, or the output of the children.
StartThrow == EnterPlain("throw", FALSE)
Throw ==
    /\ Running
    /\ "throw" \in Kinds
    /\ thrown' \in {"app", "std"}
    /\ UNCHANGED <<frames, ctx, history>>

\* tag_substr::execute, tag_regexp::execute (once per match), tag_locale::execute.
StartSubstr == \E v \in Values : EnterScope("substr", [NoVars EXCEPT !.x = v])
StartRegexp == \E v \in Values : EnterScope("regexp", [NoVars EXCEPT !.x = v])
StartLocale == EnterScope("locale", NoVars)

\* tag_unknown::execute: the outermost element opens a layer with its mark, the
\* others find the mark.
StartHtml ==
    IF HtmlMarked(layers)
      THEN EnterPlain("inner html", FALSE)
      ELSE EnterScope("html", [NoVars EXCEPT !.html = TRUE])

\* tag_list::execute: the vector is a local of the activation.
StartList == EnterScope("list", [NoVars EXCEPT !.list = Len(frames) + 1])

\* tag_list_element(s)::execute: the children see an element of the list.
StartElement ==
    IF VisibleList(layers) # 0
      THEN \E v \in Values : EnterScope("element", [NoVars EXCEPT !.x = v])
      ELSE /\ CanStart("element")
           /\ thrown' = "std"
           /\ UNCHANGED <<frames, ctx, history>>

\* tag_split::execute enters its layer before its try block.
StartSplit == \E v \in Values : EnterScope("split", [NoVars EXCEPT !.x = v])

\* tag_split::execute, when "separator" or "value" throws: the layer stays.
SplitParameterThrows ==
    /\ Running
    /\ "split" \in Kinds
    /\ leaks < MaxLeaks
    /\ layers' = Append(layers, NoVars)
    /\ leaks' = leaks + 1
    /\ thrown' = "std"
    /\ UNCHANGED <<frames, exec, outer, lost>>

--------------------------------------------------------------------------------
(* Custom tags *)

\* tag_usr::execute and tag_call::execute: parameters become variables of a new
\* layer, the invocation is pushed on the call stack and the body of the custom
\* tag runs with it as caller.
Invoke(k) ==
    /\ CanStart(k)
    /\ LET here == Len(frames) + 1 IN
         /\ frames' = Append(frames, [Inner(k, 1) EXCEPT
                         !.caller = "usr", !.scope = Append(Top.scope, here)])
         /\ PushCall(here)
    /\ \E v \in Values \cup {Undef} : layers' = Append(layers, [NoVars EXCEPT !.x = v])
    /\ UNCHANGED <<outer, thrown, history>>

StartUsr == Invoke("usr")
StartCall == Invoke("call")

\* tag_tag::execute: a definition met among the children runs in place when the
\* caller handed down to it is an invocation.
StartTag ==
    /\ EnterPlain("tag", FALSE)
    /\ Top.caller = "usr"

\* tag_execute::execute takes the innermost invocation off the call stack and
\* renders its content, with itself as caller, or a dbp:tag found in it, with
\* the invocation as caller.
StartExecute ==
    /\ CanStart("execute")
    /\ exec # <<>>
    /\ \E c \in {"execute", "usr"} :
          frames' = Append(frames, [Inner("execute", 0) EXCEPT
                      !.caller = c, !.target = Last(exec), !.scope = Front(Top.scope)])
    /\ PopCall
    /\ UNCHANGED <<layers, outer, thrown, history>>

\* tag_execute::execute, when the parameter "name" throws.
ExecuteParameterThrows ==
    /\ Running
    /\ "execute" \in Kinds
    /\ exec # <<>>
    /\ PopCall
    /\ thrown' = "std"
    /\ lost' = TRUE
    /\ UNCHANGED <<frames, layers, outer, leaks>>

--------------------------------------------------------------------------------
(* Content ends *)

\* The content of the innermost activation, of kind k, has been executed.
Ending(k) == Running /\ Top.kind = k
Pop == frames' = Front(frames)

\* ctx.leave() after the content.
LeaveScope ==
    /\ Running
    /\ Top.kind \in Scoped \ {"usr", "call"}
    /\ Pop
    /\ layers' = Front(layers)
    /\ UNCHANGED <<exec, outer, thrown, history>>

\* Mutant: the call stack is not popped after the body.
EndInvocationStale ==
    /\ Running
    /\ Top.kind \in {"usr", "call"}
    /\ Pop
    /\ layers' = Front(layers)
    /\ UNCHANGED <<exec, outer, thrown, history>>

\* tag_usr::execute, tag_call::execute: ctx.pop(), then ctx.leave().
EndInvocation ==
    /\ Running
    /\ Top.kind \in {"usr", "call"}
    /\ Pop
    /\ PopCall
    /\ layers' = Front(layers)
    /\ UNCHANGED <<outer, thrown, history>>

\* tag_execute::execute, tag_usr::execute_direct: the invocation is pushed back.
EndExecute ==
    /\ Ending("execute")
    /\ Pop
    /\ PushCall(Top.target)
    /\ UNCHANGED <<layers, outer, thrown, history>>

\* tag_set::execute assigns what its children wrote.
EndSet ==
    /\ Ending("set")
    /\ Pop
    /\ \E v \in Values : SetValue(v)
    /\ UNCHANGED <<exec, history>>

\* tag_split::execute goes on with the next part of the string.
SplitNext ==
    /\ Ending("split")
    /\ \E v \in Values : SetValue(v)
    /\ UNCHANGED <<frames, exec, history>>

\* tag_case::execute leaves the enclosing dbp:switch by an exception.
EndCase ==
    /\ Ending("case")
    /\ Pop
    /\ thrown' = "case"
    /\ UNCHANGED <<ctx, history>>

\* tag_throw::execute throws what its children wrote.
EndThrow ==
    /\ Ending("throw")
    /\ Pop
    /\ thrown' \in {"app", "std"}
    /\ UNCHANGED <<ctx, history>>

\* dbp:try whose content was fine, dbp:while whose test turned false, the body of
\* a definition, the module.
EndPlain ==
    /\ Running
    /\ Top.kind \in {"try", "while", "inner html", "tag", "module"}
    /\ Pop
    /\ UNCHANGED <<ctx, thrown, history>>

--------------------------------------------------------------------------------
(* Exceptions *)

Unwinding == frames # <<>> /\ thrown # "none"

\* Mutant: the layer is left only when the content ends.
UnwindScopeKeepsLayer ==
    /\ Unwinding
    /\ Top.kind \in Scoped \ {"usr", "call"}
    /\ ~(Top.kind = "switch" /\ thrown = "case")
    /\ Pop
    /\ UNCHANGED <<ctx, thrown, history>>

\* catch (...) { ctx.leave(); throw; }
UnwindScope ==
    /\ Unwinding
    /\ Top.kind \in Scoped \ {"usr", "call"}
    /\ ~(Top.kind = "switch" /\ thrown = "case")
    /\ Pop
    /\ layers' = Front(layers)
    /\ UNCHANGED <<exec, outer, thrown, history>>

\* tag_switch::execute: catch (tag_case_exception &e) { } and ctx.leave().
SwitchDone ==
    /\ Unwinding /\ Top.kind = "switch" /\ thrown = "case"
    /\ Pop
    /\ layers' = Front(layers)
    /\ thrown' = "none"
    /\ UNCHANGED <<exec, outer, history>>

\* Mutant: the inner try block is missing.
UnwindInvocationStale ==
    /\ Unwinding /\ Top.kind \in {"usr", "call"}
    /\ Pop
    /\ layers' = Front(layers)
    /\ UNCHANGED <<exec, outer, thrown, history>>

\* tag_usr::execute, tag_call::execute: the inner catch pops the call stack, the
\* outer one leaves the layer.
UnwindInvocation ==
    /\ Unwinding /\ Top.kind \in {"usr", "call"}
    /\ Pop
    /\ PopCall
    /\ layers' = Front(layers)
    /\ UNCHANGED <<outer, thrown, history>>

\* tag_execute::execute and tag_usr::execute_direct have no handler: the push
\* that follows the content is skipped.
UnwindExecute ==
    /\ Unwinding /\ Top.kind = "execute"
    /\ Pop
    /\ lost' = TRUE
    /\ UNCHANGED <<ctx, thrown, leaks>>

\* tag_try::execute finds a dbp:catch, and tag_catch::process_exception runs it
\* in a new layer.
Handle ==
    /\ Unwinding /\ Top.kind = "try" /\ Top.handler
    /\ frames' = [frames EXCEPT ![Len(frames)] =
                     [Top EXCEPT !.kind = "catch", !.handler = FALSE,
                                 !.depth = Top.depth + 1]]
    /\ layers' = Append(layers, NoVars)
    /\ thrown' = "none"
    /\ UNCHANGED <<exec, outer, history>>

\* Activations without a handler, a dbp:try without dbp:catch included; out of
\* the module the exception becomes the response.
UnwindPlain ==
    /\ Unwinding
    /\ \/ Top.kind \in {"set", "while", "inner html", "case", "throw", "tag", "module"}
       \/ Top.kind = "try" /\ ~Top.handler
    /\ Pop
    /\ UNCHANGED <<ctx, thrown, history>>

Start ==
    \/ StartVar \/ StartOuterVar \/ StartSet \/ StartWhile \/ StartSwitch
    \/ StartCase \/ StartTry \/ StartThrow \/ StartSubstr \/ StartRegexp
    \/ StartLocale \/ StartHtml \/ StartList \/ StartElement \/ StartSplit
    \/ StartUsr \/ StartCall \/ StartTag \/ StartExecute

Raise == LeafThrows \/ Throw \/ SplitParameterThrows \/ ExecuteParameterThrows

End ==
    \/ LeaveScope \/ EndInvocation \/ EndExecute \/ EndSet \/ EndCase
    \/ EndThrow \/ EndPlain \/ SplitNext

Unwind ==
    \/ UnwindScope \/ SwitchDone \/ UnwindInvocation
    \/ UnwindExecute \/ Handle \/ UnwindPlain

Next == Execute \/ Start \/ Raise \/ End \/ Unwind

Init ==
    /\ frames = <<>>
    /\ layers = <<>>
    /\ exec = <<>>
    /\ outer \in Values \cup {Undef}
    /\ thrown = "none"
    /\ leaks = 0
    /\ lost = FALSE

Spec == Init /\ [][Next]_vars

--------------------------------------------------------------------------------
(* Properties *)

\* Every ctx.enter() is undone exactly once, whether content ends or throws: the
\* layers are those of the activations that are still running, plus the ones
\* that a dbp:split whose parameter threw left behind.
LayersBalanced == frames # <<>> => Len(layers) = Top.depth + leaks

\* The call stack is the one the nesting of invocations and dbp:execute
\* prescribes, unless an exception has passed a dbp:execute.
CallsBalanced == frames # <<>> /\ ~lost => exec = Top.scope

\* Whatever exceptions did to the call stack, a tag on it is an invocation that
\* is still running, an outer one below an inner one: dbp:execute never renders
\* the content of an invocation that has ended.
CallsAlive ==
    \A i \in 1..Len(exec) :
        /\ exec[i] \in 1..Len(frames)
        /\ frames[exec[i]].kind \in {"usr", "call"}
        /\ \A j \in 1..Len(exec) : j < i => exec[j] < exec[i]

\* What a dbp:execute took off the call stack and will push back is running too,
\* above every tag that is still on the stack, or that another dbp:execute will
\* push back, from below that dbp:execute.
TargetsAlive ==
    \A p \in 1..Len(frames) : frames[p].kind = "execute" =>
        /\ frames[p].target \in 1..(p - 1)
        /\ frames[frames[p].target].kind \in {"usr", "call"}
        /\ \A i \in 1..Len(exec) : exec[i] < p => exec[i] < frames[p].target
        /\ \A q \in (p + 1)..Len(frames) :
              frames[q].kind = "execute" /\ frames[q].target < p =>
                  frames[q].target < frames[p].target

\* tag_usr.cpp, tag_execute.cpp: whatever exceptions a script throws and catches, what
\* is on the call stack and what a dbp:execute will push back on it (execute_direct) are
\* invocations that are still running, in the order in which they were invoked.
InvocationsAlive == CallsAlive /\ TargetsAlive

\* tag_list.cpp: "save the pointer to data for nested tags".  As long as no
\* layer has leaked, a list pointer in a layer belongs to a running dbp:list and
\* the HTML mark to a running element.
HiddenAlive ==
    leaks = 0 => \A i \in 1..Len(layers) :
        /\ layers[i].list # 0 => /\ layers[i].list \in 1..Len(frames)
                                 /\ frames[layers[i].list].kind = "list"
        /\ layers[i].html => \E j \in 1..Len(frames) : frames[j].kind = "html"

\* What links an activation to the one below it, and makes the first two
\* inductive: ending g returns the context to what f's children should see.
DepthLinked(f, g) == g.depth = f.depth + (IF g.kind \in Scoped THEN 1 ELSE 0)
ScopeLinked(f, g, i) ==
    /\ g.kind \in {"usr", "call"} => g.scope = Append(f.scope, i)
    /\ g.kind = "execute" =>
          f.scope # <<>> /\ g.target = Last(f.scope) /\ g.scope = Front(f.scope)
    /\ g.kind \notin {"usr", "call", "execute"} => g.scope = f.scope

Balanced ==
    /\ frames # <<>> => frames[1].depth = 1 /\ frames[1].kind = "module"
    /\ \A i \in 1..(Len(frames) - 1) :
          /\ DepthLinked(frames[i], frames[i + 1])
          /\ ~lost => ScopeLinked(frames[i], frames[i + 1], i + 1)
    /\ LayersBalanced
    /\ CallsBalanced

\* The innermost activation, a dbp:var with a local variable, ends or is unwound.
LeavesVar == frames # <<>> /\ frames' = Front(frames) /\ Top.kind = "var"

\* lang_vars: on leaving dbp:var the variable defined before becomes accessible
\* again; on every path out, and whatever the content assigned, as long as no
\* layer has leaked.
RedeclarationEnds ==
    [][LeavesVar /\ leaks = 0 => LocalValue(layers') = Top.saved]_vars

\* lang_exceptions: after an exception is caught the script continues normally;
\* so dbp:execute renders the content of the invocation it belongs to.
ExecuteRendersCaller ==
    [][ frames # <<>> /\ Len(frames') > Len(frames) =>
          (Last(frames').kind = "execute" => Last(frames').target = Last(Top.scope)) ]_vars

================================================================================
