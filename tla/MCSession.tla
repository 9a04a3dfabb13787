------------------------------- MODULE MCSession -------------------------------
(* Small instances of Session for TLC. *)
EXTENDS Session, TLC

CONSTANTS w1, w2, c1, x, y, p

TwoWorkers == {w1, w2}
OneClient == {c1}
OneVar == {x}
TwoVars == {x, y}
OneText == {p}

\* The string "p;x=p"; reading it back gives "p".
CompoundValues == {[text |-> p, also |-> <<<<x, p>>>>]}

\* The workers are alike.
Symmetry == Permutations(TwoWorkers)

================================================================================
