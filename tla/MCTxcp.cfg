SPECIFICATION TxcpSpec
CONSTANTS
  Base = 2
  Magic <- MCMagic
  Version = 1
  NameLen = 2
  MaxEventPayload = 3
  RingEvents = 2
  PanelNames <- MCPanelNames
  Bauds <- MCBauds
  UnixTimes <- MCUnixTimes
  Payloads <- MCPayloads
  Pauses <- MCPauses
  MaxNow = 21
  MaxCalls = 2
INVARIANTS
  PrefixParses
  LossesCounted
  HeaderReadsBack
  LowBytesElapsed
  ShortSessionMonotonic
CHECK_DEADLOCK FALSE
