\* Custom tags that render each other's content while exceptions fly.
SPECIFICATION Spec
CONSTANTS
    Kinds <- CallKinds
    Values = {1}
    Undef = Undef
    MaxDepth = 6
    MaxLeaks = 0
INVARIANTS
    InvocationsAlive
    Balanced
