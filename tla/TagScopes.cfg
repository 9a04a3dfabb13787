\* Variables, conditions, exceptions and hidden pointers, with one leaked layer.
SPECIFICATION Spec
CONSTANTS
    Kinds <- LayerKinds
    Values = {1, 2}
    Undef = Undef
    MaxDepth = 4
    MaxLeaks = 1
INVARIANTS
    LayersBalanced
    HiddenAlive
PROPERTIES
    RedeclarationEnds
