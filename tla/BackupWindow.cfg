SPECIFICATION Spec
CONSTANTS
    Acquirers <- MCAcquirers
    Outer <- MCOuter
    Writer <- MCWriter
    NoOuter = "top"
INVARIANTS
    CountExact
    Quiesced
    OpenOutsideRuns
PROPERTIES
    SnapshotIsAtomic
    GateReopens
