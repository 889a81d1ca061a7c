SPECIFICATION MCSpec
CONSTANTS
  Mode = "BridgeOnly"
  MaxTotalBytes = 4096
  RingEvents = 2
  MaxEventPayload = 2
  SymbolBytes = 128
  BannerBytes = 59
  Payloads <- MCPayloads
  MaxSessions = 3
  MaxTaken = 6
  MaxDrops = 1
INVARIANTS
  CaptureTypeOK
  TotalIsSum
  NewestRetained
  BudgetHeld
  SessionComplete
  SidecarCoversBin
PROPERTIES
  FilesAppendOnly
  FlushNeverDrops
