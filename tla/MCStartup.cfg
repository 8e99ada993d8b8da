SPECIFICATION Spec
CONSTANTS
    Inputs <- MCInputs
    Ints <- MCInts
    Durations <- MCDurations
    HostPorts <- MCHostPorts
    Registered <- MCRegistered
INVARIANTS
    TypeOK
    TakenIsPrefix
    RunsAsGiven
    ConsistentConnects
