CONSTANTS
    b1 = b1  b2 = b2  b3 = b3  p1 = p1
    Block <- MCBlock
    Page <- MCPage
    PageOf <- MCPageOf
    MaxTx = 5
    MaxNew = 2
    MaxPromote = 1
SPECIFICATION Spec
SYMMETRY Symmetry
INVARIANTS SelectedIntact AckedDurable PreviousIntact
PROPERTY ImplementsAtomic
