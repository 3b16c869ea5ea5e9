SPECIFICATION Spec
CONSTANTS
    camA = camA
    camB = camB
    camC = camC
    Setups <- MCAligning
    DiskSize = 8
INVARIANTS
    AlignedShotExists
\* the bounds on the clock and on the runs stop the model
CHECK_DEADLOCK FALSE
