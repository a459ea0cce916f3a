SPECIFICATION ExecSpec
CONSTANTS
    NoGate = NoGate
    NoKey = NoKey
    NoStep = NoStep
    ci = ci
    verify = verify
    deploy = deploy
    healthy = healthy
    report = report
    noise = noise
    a1 = a1
    a2 = a2
    Callers = {a1}
    Steps <- MCSteps
    Order <- MCOrder
    Gates = {healthy}
    DependsOn <- MCDependsOn
    RequiredGates <- MCRequiredGates
    HealthGate <- MCHealthGate
    RequiredKinds <- MCRequiredKinds
    Kinds = {report, noise}
    StepKeys <- MCStepKeys
    ReconcileKeys <- MCSteps
    GateKeys = {healthy}
    CapabilityOf <- LiveCapabilityOf
    Provided <- MCProvided
    Rejection = {noise}
    MaxAttempts = 3
    MaxSteps = 2
    MaxCrashes = 0
INVARIANTS
    ReconciledUntilTerminal
