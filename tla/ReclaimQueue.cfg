SPECIFICATION Spec
CONSTANTS
    Geometries <- SmallGeometries
    Batch = 2
INVARIANTS Accounted
PROPERTY ImplementsFifo
