SPECIFICATION Spec
CHECK_DEADLOCK FALSE
INVARIANT RevokedIsQuiet
PROPERTIES
    RevokeReturns OnlyWholeTrees StagesDrain
