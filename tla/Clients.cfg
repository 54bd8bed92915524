SPECIFICATION Spec
INVARIANTS
    RefusedOnlyWhenFull ListedOnce HoldsSound WatchesFire RestoredExact
    CleanRestoresSucceed ChainsSound NothingHidden DotDotExact TraceSound
CHECK_DEADLOCK FALSE
