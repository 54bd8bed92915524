SPECIFICATION Spec
CONSTANTS
    Name = {n1, n2}
    Block = {b1, b2, b3, b4}
    NoBlock = NoBlock
    LogSlots = 2
    MaxLogOps = 2
    MaxOps = 4
    MaxGen = 3
    Workloads = {{"create", "delete", "rename", "rename_staged"}}
SYMMETRY Symmetry
INVARIANT ReplaySucceeds
