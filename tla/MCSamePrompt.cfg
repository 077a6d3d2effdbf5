SPECIFICATION Spec
CONSTANTS
    s1 = s1
    s2 = s2
    safe = safe
    risky = risky
    calm = calm
    blank = blank
    Sessions = {s1, s2}
    Questions = {safe, risky}
    Screens = {safe, risky, calm, blank}
    Blank = blank
    MaxDecisions = 2
    MaxTime = 1
    ClassifierEnabled = FALSE
    DailyCap = 0
    Harmless = {safe, calm, blank}
    NotifierEnabled = FALSE
    MaxAttempts = 3
    MaxLost = 0
    MaxCrashes = 0
    Payloads <- StopOnly
    Outputs <- SamePrompt
    StallTime = 1
    DedupWindow = 1
    LongQuestions = {}
    PatchStatuses = {"seen", "dismissed", "answered"}
INVARIANT WaitingHasDecision
