SPECIFICATION Spec
CONSTANTS
    Owners = {o1, o2}
    Reg <- OneRegistry
    PortNos = {p1, p2, p3, p4}
    NoPort = NoPort
    MaxPortRetries = 2
    MaxRetries = 2
    Millisecond = 1
    StopTimeout = 1
    Remaining = {0, 1}
SYMMETRY Symmetry
INVARIANTS
    StackTypeOK
    RegistryExact
    PortsDistinct
    NoStrayProcess
    OrphanPortsAvoided
