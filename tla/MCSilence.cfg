CONSTANTS
    Devices = {d1}
    Configs <- AnyDevices
    Traffic = {"ping", "bridge", "state", "removal"}
    lamps = lamps
    Topologies = {lamps}
    NoActuators = NoActuators
    Undecoded = Undecoded
    NoState = NoState
    InterrogateThreshold = 1
    PingTimeout = 1
    MaxInFlight = 2
    MaxPending = 3
    AllBridges = AllBridges
    NeverPinged = NeverPinged

SPECIFICATION FairSpec

PROPERTIES
    SilenceDetected
    RecoveryPersists
