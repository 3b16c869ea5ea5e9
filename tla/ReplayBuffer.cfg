SPECIFICATION Spec
CONSTANTS
    camA = camA
    camB = camB
    camC = camC
    Setups <- MCBoth
    DiskSize = 8
SYMMETRY Symmetry
INVARIANTS
    PublishedIsOnFile
    ReaderGetsItsFrame
    ConvertedInOrder
    AlignsInside
\* the bounds on the clock and on the runs stop the model
CHECK_DEADLOCK FALSE
