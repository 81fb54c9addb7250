\* Every stream, cut, closed and stalled everywhere, and the sessions that come of it.
SPECIFICATION Spec
CONSTANTS
  Conns <- MCConns
  InitialPeek = 4
  MaxHello = 16
  MaxPayload = 8
  MaxNames = 2
  MaxNameLen = 2
  MaxLoad = 10
  Loads <- MCLoads
  MaxHead = 6
  HeadRead = 3
  Routes <- MCRoutes
  Sessions <- MCSessions
  BufferSize = 2
  FlushBytes = 2
INVARIANTS HelloExact LoadsAligned OnlyChallengeForwarded ReapedAfterQuiet CountsSettled ChainNeverBreaksPrefix
PROPERTY SessionEnds
CHECK_DEADLOCK FALSE
