CONSTANTS
    Devices = {d1}
    Configs <- AnyDevices
    Traffic <- AllTraffic
    lamps = lamps
    Topologies = {lamps, relays}
    NoActuators = NoActuators
    Undecoded = Undecoded
    NoState = NoState
    InterrogateThreshold = 1
    PingTimeout = 1
    MaxInFlight = 1
    MaxPending = 2
    AllBridges = AllBridges
    NeverPinged = NeverPinged

SPECIFICATION Spec

SYMMETRY TopologySymmetry

INVARIANTS
    HealthTypeOK
    RegistryConsistent
    StateMatchesTopology
    StaleReported

PROPERTIES
    StaleLatched
    RetainedProvesNothing
    OneAlertPerOutage
    KeepsOutages
