SPECIFICATION Spec
CONSTANTS
    r1 = r1
    r2 = r2
    r3 = r3
    Requests <- ThreeRequests
    Asked <- SomeTargets
    SignalMayCome = TRUE
    Durations <- OneDuration
    MockEnabled = TRUE
    Nobody = Nobody
SYMMETRY RequestSymmetry
INVARIANTS
    TallyIsRight
    ScrapesRise
    FailuresAreChecks
    GaugesFresh
CHECK_DEADLOCK FALSE
