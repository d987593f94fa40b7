SPECIFICATION Spec
CONSTANTS
    Managed = {}
    Scoped = {s1}
    Loop = loop
    Emitters = {e1}
    None = None
    DisconnectsFirst = TRUE
    MaxConnects = 1
    MaxEmissions = 1
PROPERTY
    SlotRunsOnValidReceiver
CHECK_DEADLOCK FALSE
