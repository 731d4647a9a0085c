SPECIFICATION Spec
CONSTANTS
    Contents <- MCRecorded
    AvailabilityIds = {"slo-api"}
    Correlate <- MCCorrelate
    Correlates <- MCCorrelates
    Threads = {t1, t2}
    Modes = {"live"}
    Callers <- MCCallers
    RequireSso = TRUE
    ExecGroups = {"exec"}
    Journeys <- MCGlance
    Slow = {"slos"}
    Flaky <- MCCostOnly
    Rewritten = "reconciliation"
    TTL = 1
    MaxFetch = 1
    StaleAfter <- MCStaleAfter
    Versions = 2
    MaxChanges = 2
    MaxTime = 3
INVARIANTS
    P1IsStated
