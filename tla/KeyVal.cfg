CONSTANTS
    Keys = {k1, k2}
    Vals = {v1, empty}
    Empty = empty
    NotFound = NotFound
    Failed = Failed
    NoReply = NoReply
    NoChange = NoChange
SPECIFICATION Spec
INVARIANTS FilterKnowsEveryKey StoredFilterIsCurrent
PROPERTY ImplementsKeyValue
VIEW MCView
