SPECIFICATION Spec
CONSTANTS
    s1 = s1
    s2 = s2
    safe = safe
    risky = risky
    calm = calm
    blank = blank
    Sessions = {s1}
    Questions = {safe, risky}
    Screens = {safe, risky, calm, blank}
    Blank = blank
    MaxDecisions = 1
    MaxTime = 1
    ClassifierEnabled = TRUE
    DailyCap = 1
    Harmless = {safe, calm, blank}
    NotifierEnabled = FALSE
    MaxAttempts = 3
    MaxLost = 0
    MaxCrashes = 0
    Payloads <- StopOnly
    Outputs <- BothPrompts
    StallTime = 1
    DedupWindow = 1
    LongQuestions = {}
    PatchStatuses = {"seen", "dismissed", "answered"}
INVARIANT LowRiskIsHarmless
