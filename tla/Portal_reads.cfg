SPECIFICATION Spec
CONSTANTS
    Contents <- MCRecorded
    AvailabilityIds = {"slo-api"}
    Correlate <- MCCorrelate
    Correlates <- MCCorrelates
    Threads = {t1, t2}
    Modes = {"live", "fixture", "replay"}
    Callers <- MCCallers
    RequireSso = TRUE
    ExecGroups = {"exec"}
    Journeys <- MCJourneys
    Slow = {"slos"}
    Flaky <- MCFlaky
    Rewritten = "reconciliation"
    TTL = 1
    MaxFetch = 1
    StaleAfter <- MCStaleAfter
    Versions = 2
    MaxChanges = 1
    MaxTime = 3
INVARIANTS
    ShownPageIsCurrent
    DataAgeIsBounded
    GreenIsSeen
    ParsedIsCurrent
    DrilldownExplains
SYMMETRY Symmetry
