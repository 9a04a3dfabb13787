\* All documents of up to five tags that are nested up to four deep.
SPECIFICATION Spec
CONSTANTS
    MaxNodes = 5
    MaxDepth = 4
INVARIANTS
    TypeOK
    NestedAsWritten
    IncludedNearby
PROPERTIES
    AcceptsNesting
\* A parser ends.
CHECK_DEADLOCK FALSE
