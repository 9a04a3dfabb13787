\* Two children of fifteen kinds, a list of two elements with room for one more.
SPECIFICATION Spec
CONSTANTS
    N = 2
    a = a
    b = b
    Given = a
    Values <- MCValues
    Start <- MCStart
    Spare = 1
    Programs <- MCPrograms
INVARIANTS
    TypeOK
    TameIsDefined
    ChildrenJoined
    AsIfInTurn
    InOrder
PROPERTIES
    AsIfAlone
    Joins
