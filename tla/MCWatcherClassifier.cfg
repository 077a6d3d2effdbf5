SPECIFICATION Spec
CONSTANTS
    s1 = s1
    s2 = s2
    safe = safe
    risky = risky
    calm = calm
    blank = blank
    Sessions = {s1, s2}
    Questions = {safe, risky}
    Screens = {safe, risky, calm, blank}
    Blank = blank
    MaxDecisions = 3
    MaxTime = 0
    ClassifierEnabled = TRUE
    DailyCap = 1
    Harmless = {safe, calm, blank}
    NotifierEnabled = FALSE
    MaxAttempts = 3
    MaxLost = 0
    MaxCrashes = 1
    Payloads <- StructuredPayloads
    Outputs <- NoOutputs
    StallTime = 1
    DedupWindow = 1
    LongQuestions = {}
    PatchStatuses = {"dismissed"}
INVARIANT TypeOK
INVARIANT CapOvershootBounded
PROPERTY SettledStaysFrozen
SYMMETRY Twins
