SPECIFICATION Spec
CONSTANTS
  Mode = "None"
  MaxTotalBytes = 4096
  RingEvents = 2
  MaxEventPayload = 2
  SymbolBytes = 128
  BannerBytes = 59
  Payloads <- MCPayloads
  BufferSize = 2
  ChunkSize = 2
  StageSize = 1
  Backlog = 1
  MaxId = 2
  MaxConns = 2
  MaxClientBytes = 1
  MaxPanelBytes = 1
INVARIANT
  PanelBoundBytesKept
