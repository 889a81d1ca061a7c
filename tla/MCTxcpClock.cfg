SPECIFICATION TxcpSpec
CONSTANTS
  Base = 2
  Magic <- MCMagic
  Version = 1
  NameLen = 2
  MaxEventPayload = 3
  RingEvents = 2
  PanelNames <- MCPanelNames
  Bauds <- MCBauds
  UnixTimes <- MCUnixTimes
  Payloads <- MCPayloads
  Pauses <- MCPauses
  MaxNow = 21
  MaxCalls = 2
INVARIANT
  StampIsElapsed
CHECK_DEADLOCK FALSE
