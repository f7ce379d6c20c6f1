\* Two starts at a time, two services.
SPECIFICATION Spec
CONSTANTS
    Clients = {c1, c2}
    NumServices = 2
    MaxPort = 2
    Configs <- MCConfigs
    MaxStarts = 2
    MaxProcs = 2
    MaxForeign = 1
SYMMETRY Symmetry
INVARIANTS TypeOK PortsAreDistinct PeersAreNamed HealthyIsOwn
