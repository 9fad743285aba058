SPECIFICATION MCSpec
CHECK_DEADLOCK FALSE
INVARIANTS
    ReferencesDecoded
    QpAgrees
    DeblockingAgrees
    NeighboursAgree
    ContextsSynced
    SaoAsCoded
    BoundedHeaderAgrees
