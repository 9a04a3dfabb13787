------------------------------ MODULE MCTagMachine ------------------------------
(* Small instances of TagMachine for TLC. *)
EXTENDS TagMachine, TLC

\* Variables, conditions, loops and exceptions.
ScopeKinds == {"var", "outervar", "set", "while", "call", "switch", "case", "try", "throw",
               "split", "leaf"}

\* Custom tags, their definitions, and what catches exceptions.
CallKinds == {"usr", "execute", "tag", "switch", "case", "try", "leaf"}

\* Tags that hide something in their layer or open one for their children.
HiddenKinds == {"list", "element", "html", "inner html", "substr", "regexp",
                "locale", "split", "try", "leaf"}

\* All that opens a layer.
LayerKinds == ScopeKinds \cup HiddenKinds

\* The smallest scripts that show what a caught exception leaves behind.
RenderKinds == {"usr", "execute", "try", "leaf"}

================================================================================
