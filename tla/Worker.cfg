SPECIFICATION Spec
CONSTANTS
    Replicas = {a1, a2}
    MAX_BATCH = 2
    POLL_INTERVAL_MS = 1
    PULIZIA_IP_OGNI_MS = 2
    SweepEvery = 2
    WindowMs = 3
    Max = 1
    CLEANUP_EVERY = 2
    MaxSkew = 1
    MaxDelay = 1
    MaxRound = 1
    MaxBacklog = 1
    MaxFaults = 1
SYMMETRY ReplicaSymmetry
CHECK_DEADLOCK FALSE
INVARIANTS
    ExpiredAddressesLeave
    TwoWindowsAtMost
PROPERTIES
    StopIsPrompt
