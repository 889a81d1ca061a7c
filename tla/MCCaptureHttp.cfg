SPECIFICATION MCSpec
CONSTANTS
  Mode = "BridgeOnly"
  MaxTotalBytes = 4096
  RingEvents = 1
  MaxEventPayload = 2
  SymbolBytes = 128
  BannerBytes = 59
  Payloads <- MCPayloads
  Names <- MCNames
  ChunkBytes = 1024
  Garbage = {0, 1500}
  MaxSessions = 2
  MaxTaken = 4
INVARIANTS
  CalmListing
  CalmDownload
  EvictionsHideFew
  OnlyMovesCrash
PROPERTIES
  RequestAnswered
