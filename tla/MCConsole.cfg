SPECIFICATION MCSpec
CONSTANTS
  Pages = {p1, p2}
  Sessions = {a, b}
  Connections = {k1, k2}
  MaxChannels = 3
  MaxEvents = 4
  NoSession = NoSession
  MaxChunks = 4
  MaxDrops = 2
INVARIANT TypeOK
INVARIANT TilesAndChannelsAgree
INVARIANT NothingOutlivesItsSocket
INVARIANT BannerMeansAFault
PROPERTY EveryOpenIsAnswered
PROPERTY TerminalImplementsStream
PROPERTY EveryChunkIsShown
CHECK_DEADLOCK FALSE
