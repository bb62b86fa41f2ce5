SPECIFICATION Spec
CONSTANTS
    Limit = 6
    Alignment = 2
INVARIANTS
    PoolSound ValuesSurvive FusionKeepsDataflow
    LxNoClash
PROPERTY LxSpillsWhenFull
