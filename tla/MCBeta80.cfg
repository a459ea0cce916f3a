SPECIFICATION HostSpec
CONSTANTS
    NoGate = NoGate
    NoKey = NoKey
    NoStep = NoStep
    Callers = {a1, a2}
    NoSnapshot = NoSnapshot
    Steps <- Beta80Steps
    Order <- Beta80Order
    Gates <- Beta80Gates
    DependsOn <- Beta80DependsOn
    RequiredGates <- Beta80RequiredGates
    HealthGate <- Beta80HealthGate
    RequiredKinds <- Beta80RequiredKinds
    Kinds <- Beta80Kinds
    StepKeys <- Beta80StepKeys
    ReconcileKeys <- Beta80Steps
    GateKeys <- Beta80Gates
    CapabilityOf <- Beta80CapabilityOf
    Provided <- Beta80Provided
    Rejection <- Beta80Rejection
    MaxAttempts = 2
    MaxSteps = 24
    MaxCrashes = 1
SYMMETRY Symmetry
INVARIANTS
    NoGateStranded
    PromotionsInOrder
    ReconcilesOwnOperation
PROPERTY
    AdmittedOnCurrentRun
