SPECIFICATION Spec
CHECK_DEADLOCK FALSE
INVARIANT NamespaceSound
PROPERTIES
     OpenFileIntact  ImplementsRetention RetainedReturns
     
