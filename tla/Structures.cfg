CONSTANTS l1 = l1 l2 = l2 l3 = l3
SPECIFICATION Spec
CONSTRAINT FewSlotsOrPlain
SYMMETRY BlockSymmetry
INVARIANTS
    ReadsExact SharingExact TreesIntact ReadersAgree PoolSuffices
    RefusalsAreTrue AccountsAgree VerifyExact Transparent
PROPERTY ImplementsLru
CHECK_DEADLOCK FALSE
