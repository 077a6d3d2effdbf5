SPECIFICATION FairSpec
CONSTANTS
    s1 = s1
    s2 = s2
    safe = safe
    risky = risky
    calm = calm
    blank = blank
    Sessions = {s1}
    Questions = {safe, risky}
    Screens = {safe, risky, calm, blank}
    Blank = blank
    MaxDecisions = 1
    MaxTime = 0
    ClassifierEnabled = FALSE
    DailyCap = 0
    Harmless = {safe, calm, blank}
    NotifierEnabled = TRUE
    MaxAttempts = 3
    MaxLost = 1
    MaxCrashes = 1
    Payloads <- AskAndStop
    Outputs <- OneTerminal
    StallTime = 1
    DedupWindow = 1
    LongQuestions = {risky}
    PatchStatuses = {"seen", "dismissed", "answered"}
INVARIANT DuplicatesAccounted
PROPERTY EventuallyNotified
