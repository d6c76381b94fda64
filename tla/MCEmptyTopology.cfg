CONSTANTS
    Devices = {d1}
    Configs <- AnyDevices
    Traffic = {"conf", "state"}
    lamps = lamps
    Topologies <- WithEmpty
    NoActuators = NoActuators
    Undecoded = Undecoded
    NoState = NoState
    InterrogateThreshold = 1
    PingTimeout = 1
    MaxInFlight = 1
    MaxPending = 2
    AllBridges = AllBridges
    NeverPinged = NeverPinged

SPECIFICATION Spec

INVARIANTS
    StateMatchesTopology
