\* An exception through dbp:execute that is caught.
SPECIFICATION Spec
CONSTANTS
    Kinds <- RenderKinds
    Values = {1}
    Undef = Undef
    MaxDepth = 6
    MaxLeaks = 0
PROPERTIES
    ExecuteRendersCaller
