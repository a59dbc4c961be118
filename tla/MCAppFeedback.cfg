CONSTANTS
    Mics = {m1, m2}
    Virtual = Virtual
    NoDevice = NoDevice
    MaxQueued = 2
SPECIFICATION Spec
INVARIANTS
    NeverHearsItself
