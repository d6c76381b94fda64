CONSTANTS
    Devices = {d1, d2}
    Configs <- AnyDevices
    Traffic = {"ping", "click"}
    lamps = lamps
    Topologies = {lamps}
    NoActuators = NoActuators
    Undecoded = Undecoded
    NoState = NoState
    InterrogateThreshold = 1
    PingTimeout = 1
    MaxInFlight = 2
    MaxPending = 4
    AllBridges = AllBridges
    NeverPinged = NeverPinged

SPECIFICATION Spec

SYMMETRY DeviceSymmetry

INVARIANTS
    LatchesBacked
    OneDrain

PROPERTIES
    StaleOnlyAfterUnansweredPing
    ProbesSpaced
