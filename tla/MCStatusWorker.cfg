SPECIFICATION Spec
CONSTANTS
    j1 = j1
    j2 = j2
    Nobody = Nobody
    Jobs <- MCOneJob
    Kinds <- MCAllKinds
    Threshold = 3
INVARIANTS
    InteractiveNeverComplete
    EndedOnEvidence
PROPERTIES
    StoppingEnds
    LossIsNoticed
