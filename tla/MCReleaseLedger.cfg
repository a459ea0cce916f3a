SPECIFICATION Spec
CONSTANTS
    NoGate = NoGate
    NoKey = NoKey
    verify = verify
    left = left
    right = right
    healthy = healthy
    final = final
    report = report
    noise = noise
    k1 = k1
    r1 = r1
    r2 = r2
    g1 = g1
    g2 = g2
    Steps <- MCSteps
    Gates <- MCGates
    DependsOn <- MCDependsOn
    RequiredGates <- MCRequiredGates
    HealthGate <- MCHealthGate
    RequiredKinds <- MCRequiredKinds
    Kinds = {report, noise}
    StepKeys <- MCStepKeys
    ReconcileKeys = {r1, r2}
    GateKeys = {g1, g2}
    MaxAttempts = 2
INVARIANTS
    RetryOnlyAfterProof
    StartedStepsAreJustified
    UnknownBlocksRun
    SucceededIsComplete
    PassedGateIsMeasured
PROPERTIES
    ConclusionsAreFinal
CHECK_DEADLOCK FALSE
