----------------------------- MODULE MCInterpreter -----------------------------
(* Small instances of Interpreter for TLC. *)
EXTENDS Interpreter

CONSTANTS w1, w2, u1, u2

MCUrls == {u1, u2}
MCWorkers == {w1, w2}
OneUrl == {u1}

\* The configuration files that load() tells apart, each session service once.
File(e, p, s) == [exists |-> e, pool0 |-> p, session |-> s]
MCFiles == {File(TRUE, FALSE, "internal"), File(TRUE, TRUE, "module"),
            File(TRUE, FALSE, "broken"), File(TRUE, FALSE, "unknown"),
            File(FALSE, FALSE, "internal")}

================================================================================
