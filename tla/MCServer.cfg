SPECIFICATION MCSpec
CONSTANTS
  MaxSessions = 1
  MaxChains = 2
  MaxConnections = 2
  MaxRearms = 1
  MaxHostEvents = 1
  MaxLinkEvents = 1
  MaxOrders = 1
  yes = yes
  no = no
  Texts = {yes, no}
  NoText = NoText
  MaxPolls = 3
  MaxClicks = 3
  MaxEvents = 3
INVARIANT SessionsTypeOK
INVARIANT EntryHasALoop
INVARIANT PanelTypeOK
INVARIANT ConfirmedIsTyped
INVARIANT OneTypingPerChallenge
INVARIANT ReportedIsTyped
PROPERTY ErrorNeedsAList
PROPERTY RowsTellTheTruth
PROPERTY PipesAreHealed
PROPERTY HooksTellTheTruth
PROPERTY StoppedLoopEnds
PROPERTY EveryAnswerIsTold
PROPERTY PageFollowsWatcher
PROPERTY StoppedPollEnds
CHECK_DEADLOCK FALSE
