SPECIFICATION Spec
CONSTANTS
    Name = {n1, n2}
    Block = {b1, b2, b3, b4}
    NoBlock = NoBlock
    LogSlots = 2
    MaxLogOps = 2
    MaxOps = 4
    MaxGen = 3
    Workloads = {{"create", "delete", "rename"}, {"create", "delete", "update"},
                 {"create", "delete", "rewrite", "grow", "directory"}}
SYMMETRY Symmetry
INVARIANTS RecoveryExact ReplaySucceeds
