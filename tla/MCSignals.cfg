SPECIFICATION Spec
CONSTANTS
    Managed = {m1}
    Scoped = {s1}
    Loop = loop
    Emitters = {e1, e2}
    None = None
    DisconnectsFirst = TRUE
    MaxConnects = 3
    MaxEmissions = 3
SYMMETRY EmitterSymmetry
INVARIANTS
    TypeOK
    WalkIsValid
    EmissionsInOrder
    NoEmissionAfterDisconnect
    ManagedReceiverStays
CHECK_DEADLOCK FALSE
