------------------------------ MODULE Texecom ------------------------------
(***************************************************************************)
(* texecom.cpp / texecom.h: the bridge between the panel's UART and one TCP *)
(* client.  loop() runs accept_pending_client_, pump_uart_to_tcp_,          *)
(* pump_tcp_to_uart_ and capture_.loop() in that order, for ever; phase is   *)
(* where in it the program is.  One iteration of a pump's socket loop is one *)
(* step, so the panel and the clients, which run concurrently, act between   *)
(* any two socket calls.                                                   *)
(*                                                                         *)
(* The byte rings are the bounded queues RingBuffer implements.  A panel     *)
(* byte is its position in the panel's output, a client byte its sender and  *)
(* its position in what that client sent, so that loss, duplication and     *)
(* reordering all show.                                                    *)
(***************************************************************************)
EXTENDS Capture, SessionState

CONSTANTS BufferSize,      \* kBufferSize, 1024 in the code
          ChunkSize,       \* rx_batch[] and buf[], 256
          StageSize,       \* kSendStageSize, 256
          Backlog,         \* listen(1)
          MaxId,           \* largest ClientId, 2^32 - 1
          MaxConns,        \* bound: connections ever made
          MaxClientBytes,  \* bound: bytes each client sends
          MaxPanelBytes    \* bound: bytes the panel sends

ASSUME TexecomAssumption ==
  /\ {BufferSize, ChunkSize, StageSize, Backlog, MaxId} \subseteq Nat \ {0}
  /\ {MaxConns, MaxClientBytes, MaxPanelBytes} \subseteq Nat

Conns == 1..MaxConns
NoSocket == 0
Ids == 1..MaxId
PanelBytes == 1..MaxPanelBytes
ClientBytes == [conn : Conns, n : 1..MaxClientBytes]
Deliveries == [conn : Conns, byte : PanelBytes]

\* The n bytes that follow the first `from` bytes of one sender.
Panel == 0
Bytes(sender, from, n) == [i \in 1..n |-> [conn |-> sender, n |-> from + i]]

\* Every batch a pump can record is one of the payloads Capture is about.
ASSUME BatchAssumption ==
  Mode # "None" =>
    \A n \in 1..ChunkSize :
      /\ \A from \in 0 .. MaxPanelBytes - n : Bytes(Panel, from, n) \in Payloads
      /\ \A c \in Conns, from \in 0 .. MaxClientBytes - n : Bytes(c, from, n) \in Payloads

VARIABLES
  phase,           \* the next call of loop(), or "boot", "failed", "down"
  clientSocket,    \* client_socket_: a connection or NoSocket
  session,         \* session_
  nextClientId, activeClientId,
  uartToTcp,       \* uart_to_tcp_: panel bytes
  sendStage,       \* send_stage_[off..len): panel bytes popped and not yet sent
  tcpToUart,       \* tcp_to_uart_: client bytes
  uartDrops        \* uart_to_tcp_drops_

bridgeVars == <<clientSocket, session, nextClientId, activeClientId,
                uartToTcp, sendStage, tcpToUart, uartDrops>>

VARIABLES          \* the panel, the clients and the TCP stack
  arrived,         \* panel bytes received by the UART driver
  drained,         \* how many of them pump_uart_to_tcp_ has read
  peer,            \* each connection, as the device's stack sees it
  backlog,         \* connections waiting for accept()
  sent, read       \* per connection: bytes received by the stack, bytes read

envVars == <<arrived, drained, peer, backlog, sent, read>>

VARIABLES          \* history
  written,         \* client bytes handed to the UART driver
  delivered,       \* panel bytes write() accepted, with their connection
  mark             \* drained, uartDrops and Len(delivered) at the last accept

historyVars == <<written, delivered, mark>>

vars == <<phase, bridgeVars, envVars, historyVars, captureVars>>

\* "gone" has vanished without a FIN or a RST and owes no acknowledgement, which
\* the stack cannot tell from "open"; "unacked" has vanished and never will
\* acknowledge what it was sent.
PeerStates == {"idle", "open", "fin", "reset", "gone", "unacked", "closed"}
Phases == {"boot", "accept", "uart", "send", "read", "drain", "capture",
           "failed", "down"}

Init ==
  /\ phase = "boot"
  /\ clientSocket = NoSocket /\ session = Reset
  /\ nextClientId = 1 /\ activeClientId = kNoClient
  /\ uartToTcp = <<>> /\ sendStage = <<>> /\ tcpToUart = <<>> /\ uartDrops = 0
  /\ arrived = 0 /\ drained = 0
  /\ peer = [c \in Conns |-> "idle"] /\ backlog = <<>>
  /\ sent = [c \in Conns |-> 0] /\ read = [c \in Conns |-> 0]
  /\ written = <<>> /\ delivered = <<>>
  /\ mark = [from |-> 0, drops |-> 0, sofar |-> 0]
  /\ CaptureInit

-----------------------------------------------------------------------------
(* setup() and on_shutdown() *)

\* setup() re-initialises every member and then either listens or, when the
\* listener cannot be created, bound or put to listen, marks the component
\* failed, after which the scheduler never calls its loop().
Setup ==
  /\ phase = "boot"
  /\ phase' \in {"accept", "failed"}
  /\ session' = Reset /\ nextClientId' = 1 /\ activeClientId' = kNoClient
  /\ uartToTcp' = <<>> /\ sendStage' = <<>> /\ tcpToUart' = <<>> /\ uartDrops' = 0
  /\ UNCHANGED <<clientSocket, envVars, historyVars, captureVars>>

\* Called between two loop()s.  It closes both sockets, which also closes the
\* connections nobody accepted, and touches nothing else.
OnShutdown ==
  /\ phase = "accept"
  /\ phase' = "down"
  /\ peer' = [c \in Conns |-> IF c = clientSocket \/ c \in Range(backlog)
                              THEN "closed" ELSE peer[c]]
  /\ clientSocket' = NoSocket
  /\ backlog' = <<>>
  /\ UNCHANGED <<session, nextClientId, activeClientId, uartToTcp, sendStage, tcpToUart,
                 uartDrops, arrived, drained, sent, read, historyVars, captureVars>>

-----------------------------------------------------------------------------
(* accept_pending_client_() *)

\* accept() has nothing, or fails for the moment although someone waits.
AcceptNothing ==
  /\ phase = "accept"
  /\ phase' = "uart"
  /\ UNCHANGED <<bridgeVars, envVars, historyVars, captureVars>>

MutIdAfter(id) == (id + 1) % (MaxId + 1)

\* next_client_id_++ in 32 bits, skipping the id that means "no client".
IdAfter(id) == LET next == (id + 1) % (MaxId + 1)
               IN  IF next = kNoClient THEN 1 ELSE next

MutRejectLeaks ==
  /\ phase = "accept" /\ backlog # <<>>
  /\ OnConnectResult(session, nextClientId) = "Rejected"
  /\ phase' = "uart"
  /\ backlog' = Tail(backlog)
  /\ nextClientId' = IdAfter(nextClientId)
  /\ UNCHANGED <<clientSocket, session, activeClientId, uartToTcp, sendStage, tcpToUart,
                 uartDrops, arrived, drained, peer, sent, read, historyVars, captureVars>>

\* A second client uses up an id and is closed; the session does not notice.
RejectClient ==
  /\ phase = "accept" /\ backlog # <<>>
  /\ OnConnectResult(session, nextClientId) = "Rejected"
  /\ phase' = "uart"
  /\ backlog' = Tail(backlog)
  /\ nextClientId' = IdAfter(nextClientId)
  /\ peer' = [peer EXCEPT ![Head(backlog)] = "closed"]
  /\ UNCHANGED <<clientSocket, session, activeClientId, uartToTcp, sendStage, tcpToUart,
                 uartDrops, arrived, drained, sent, read, historyVars, captureVars>>

MutPromoteKeepsRings ==
  /\ phase = "accept" /\ backlog # <<>>
  /\ OnConnectResult(session, nextClientId) # "Rejected"
  /\ phase' = "uart"
  /\ backlog' = Tail(backlog)
  /\ nextClientId' = IdAfter(nextClientId)
  /\ session' = AfterConnect(session, nextClientId)
  /\ clientSocket' = Head(backlog)
  /\ activeClientId' = nextClientId
  /\ sendStage' = <<>>
  /\ mark' = [from |-> drained, drops |-> uartDrops, sofar |-> Len(delivered)]
  /\ OnSessionStart
  /\ UNCHANGED <<uartToTcp, tcpToUart, uartDrops, arrived, drained, peer, sent, read,
                 written, delivered>>

\* Anything but Rejected promotes the connection to the active session.
PromoteClient ==
  /\ phase = "accept" /\ backlog # <<>>
  /\ OnConnectResult(session, nextClientId) # "Rejected"
  /\ phase' = "uart"
  /\ backlog' = Tail(backlog)
  /\ nextClientId' = IdAfter(nextClientId)
  /\ session' = AfterConnect(session, nextClientId)
  /\ clientSocket' = Head(backlog)
  /\ activeClientId' = nextClientId
  /\ uartToTcp' = <<>> /\ tcpToUart' = <<>> /\ sendStage' = <<>>
  /\ mark' = [from |-> drained, drops |-> uartDrops, sofar |-> Len(delivered)]
  /\ OnSessionStart
  /\ UNCHANGED <<uartDrops, arrived, drained, peer, sent, read, written, delivered>>

MutEndForgetsCapture ==
  /\ clientSocket' = NoSocket
  /\ peer' = [peer EXCEPT ![clientSocket] = "closed"]
  /\ session' = AfterDisconnect(session, activeClientId)
  /\ UNCHANGED captureVars
  /\ activeClientId' = kNoClient
  /\ sendStage' = <<>>

\* end_session_(), called with a client socket in hand.  The rings stay.
EndSession ==
  /\ clientSocket' = NoSocket
  /\ peer' = [peer EXCEPT ![clientSocket] = "closed"]
  /\ session' = AfterDisconnect(session, activeClientId)
  /\ IF OnDisconnectResult(session, activeClientId) = "EnteredMonitor"
     THEN OnSessionEnd
     ELSE UNCHANGED captureVars
  /\ activeClientId' = kNoClient
  /\ sendStage' = <<>>

-----------------------------------------------------------------------------
(* pump_uart_to_tcp_() *)

\* The first k elements of s, and the rest.
Take(s, k) == SubSeq(s, 1, Min({k, Len(s)}))
Drop(s, k) == SubSeq(s, k + 1, Len(s))

InBridge == IsBridgeMode(session) /\ clientSocket # NoSocket

\* How many of the oldest bytes are dropped to bring a ring back to its capacity.
MutOverflow(q) == Max({0, Len(q) - BufferSize - 1})
Overflow(q) == Max({0, Len(q) - BufferSize})

\* The UART is read until it is empty, the batch is full or a read fails; each
\* byte is pushed, at the cost of the oldest one and a counted drop when the
\* ring is full; the batch is recorded as one event.
PumpUart ==
  /\ phase = "uart"
  /\ phase' = "send"
  /\ \E n \in 0 .. Min({ChunkSize, arrived - drained}) :
       LET batch == [i \in 1..n |-> drained + i]
           pushed == uartToTcp \o batch
       IN  /\ uartToTcp' = Drop(pushed, Overflow(pushed))
           /\ uartDrops' = uartDrops + Overflow(pushed)
           /\ drained' = drained + n
           /\ IF n > 0 /\ WouldRecord
              THEN Record(0, Bytes(Panel, drained, n))
              ELSE UNCHANGED captureVars
  /\ UNCHANGED <<clientSocket, session, nextClientId, activeClientId, sendStage, tcpToUart,
                 arrived, peer, backlog, sent, read, historyVars>>

MutRestage == Take(uartToTcp, StageSize)

MutStaged ==
  IF sendStage # <<>> THEN sendStage
  ELSE IF Len(uartToTcp) < StageSize THEN <<>> ELSE Take(uartToTcp, StageSize)
MutPeek == uartToTcp

\* The stage is refilled only when it is empty, so what the socket refused
\* goes out before anything newer.
Staged == IF sendStage # <<>> THEN sendStage ELSE Take(uartToTcp, StageSize)
RingAfterRefill ==
  IF sendStage # <<>> THEN uartToTcp ELSE Drop(uartToTcp, StageSize)

\* No client, or nothing left to send: on to the other direction.
SendNothing ==
  /\ phase = "send"
  /\ ~InBridge \/ Staged = <<>>
  /\ phase' = "read"
  /\ UNCHANGED <<bridgeVars, envVars, historyVars, captureVars>>

\* One write(): k bytes are accepted, none when it would block.  A full send
\* goes round again, a short one leaves the rest staged for the next tick.
PumpSend ==
  /\ phase = "send" /\ InBridge /\ Staged # <<>>
  /\ peer[clientSocket] # "reset"
  /\ \E k \in 0 .. Len(Staged) :
       /\ sendStage' = Drop(Staged, k)
       /\ delivered' = delivered \o
            [i \in 1..k |-> [conn |-> clientSocket, byte |-> Staged[i]]]
       /\ phase' = IF k = Len(Staged) THEN "send" ELSE "read"
       /\ peer' = IF k > 0 /\ peer[clientSocket] = "gone"
                  THEN [peer EXCEPT ![clientSocket] = "unacked"] ELSE peer
  /\ uartToTcp' = RingAfterRefill
  /\ UNCHANGED <<clientSocket, session, nextClientId, activeClientId, tcpToUart, uartDrops,
                 arrived, drained, backlog, sent, read, written, mark, captureVars>>

\* write() fails for good.
SendError ==
  /\ phase = "send" /\ InBridge /\ Staged # <<>>
  /\ peer[clientSocket] = "reset"
  /\ phase' = "read"
  /\ uartToTcp' = RingAfterRefill
  /\ EndSession
  /\ UNCHANGED <<nextClientId, tcpToUart, uartDrops, arrived, drained, backlog, sent, read,
                 historyVars>>

-----------------------------------------------------------------------------
(* pump_tcp_to_uart_() *)

\* A full ring is not read into: the TCP window closes instead.
SkipRead ==
  /\ phase = "read"
  /\ ~InBridge \/ Len(tcpToUart) = BufferSize
  /\ phase' = "drain"
  /\ UNCHANGED <<bridgeVars, envVars, historyVars, captureVars>>

Reading == phase = "read" /\ InBridge /\ Len(tcpToUart) < BufferSize
Unread(c) == sent[c] - read[c]

MutRoom == BufferSize
Room == BufferSize - Len(tcpToUart)

\* read() returns what has arrived, at most the room in the ring.  push()
\* cannot fail then; its result is ignored, so an excess byte would vanish.
PumpRead ==
  /\ Reading
  /\ \E n \in 1 .. Min({Room, ChunkSize, Unread(clientSocket)}) :
       LET bytes == Bytes(clientSocket, read[clientSocket], n)
       IN  /\ tcpToUart' = Take(tcpToUart \o bytes, BufferSize)
           /\ read' = [read EXCEPT ![clientSocket] = @ + n]
           /\ IF WouldRecord THEN Record(1, bytes) ELSE UNCHANGED captureVars
  /\ UNCHANGED <<phase, clientSocket, session, nextClientId, activeClientId, uartToTcp,
                 sendStage, uartDrops, arrived, drained, peer, backlog, sent, historyVars>>

\* read() would block.
ReadNothing ==
  /\ Reading
  /\ Unread(clientSocket) = 0 /\ peer[clientSocket] \in {"open", "gone", "unacked"}
  /\ phase' = "drain"
  /\ UNCHANGED <<bridgeVars, envVars, historyVars, captureVars>>

MutErrorIsEagain ==
  /\ Reading
  /\ \/ /\ peer[clientSocket] = "fin" /\ Unread(clientSocket) = 0
        /\ phase' = "capture"
        /\ EndSession
     \/ /\ peer[clientSocket] = "reset"
        /\ phase' = "drain"
        /\ UNCHANGED <<clientSocket, peer, session, activeClientId, sendStage, captureVars>>
  /\ UNCHANGED <<nextClientId, uartToTcp, tcpToUart, uartDrops, arrived, drained, backlog,
                 sent, read, historyVars>>

\* read() returns 0 after the last byte before a FIN, or an error after a
\* reset, whatever was still unread: the session ends and the function
\* returns, without the drain below.
ReadEnds ==
  /\ Reading
  /\ \/ peer[clientSocket] = "fin" /\ Unread(clientSocket) = 0
     \/ peer[clientSocket] = "reset"
  /\ phase' = "capture"
  /\ EndSession
  /\ UNCHANGED <<nextClientId, uartToTcp, tcpToUart, uartDrops, arrived, drained, backlog,
                 sent, read, historyVars>>

MutDrainLeavesOne ==
  /\ phase = "drain"
  /\ phase' = "capture"
  /\ written' = written \o Take(tcpToUart, Max({0, Len(tcpToUart) - 1}))
  /\ tcpToUart' = Drop(tcpToUart, Max({0, Len(tcpToUart) - 1}))
  /\ UNCHANGED <<clientSocket, session, nextClientId, activeClientId, uartToTcp, sendStage,
                 uartDrops, envVars, delivered, mark, captureVars>>

\* The whole ring goes to the UART driver, in Monitor mode too.
DrainToUart ==
  /\ phase = "drain"
  /\ phase' = "capture"
  /\ written' = written \o tcpToUart
  /\ tcpToUart' = <<>>
  /\ UNCHANGED <<clientSocket, session, nextClientId, activeClientId, uartToTcp, sendStage,
                 uartDrops, envVars, delivered, mark, captureVars>>

CaptureTick ==
  /\ phase = "capture"
  /\ phase' = "accept"
  /\ CaptureLoop
  /\ UNCHANGED <<bridgeVars, envVars, historyVars>>

-----------------------------------------------------------------------------
(* The panel and the clients *)

Listening == phase \notin {"boot", "failed", "down"}

PanelSends ==
  /\ arrived < MaxPanelBytes
  /\ arrived' = arrived + 1
  /\ UNCHANGED <<phase, bridgeVars, drained, peer, backlog, sent, read, historyVars,
                 captureVars>>

\* Connections are numbered in the order they are made.
Connect(c) ==
  /\ Listening /\ Len(backlog) < Backlog
  /\ peer[c] = "idle" /\ \A d \in 1 .. c-1 : peer[d] # "idle"
  /\ peer' = [peer EXCEPT ![c] = "open"]
  /\ backlog' = Append(backlog, c)
  /\ UNCHANGED <<phase, bridgeVars, arrived, drained, sent, read, historyVars, captureVars>>

ClientSends(c) ==
  /\ peer[c] = "open" /\ sent[c] < MaxClientBytes
  /\ sent' = [sent EXCEPT ![c] = @ + 1]
  /\ UNCHANGED <<phase, bridgeVars, arrived, drained, peer, backlog, read, historyVars,
                 captureVars>>

ClientLeaves(c) ==
  /\ \/ peer[c] = "open" /\ peer' = [peer EXCEPT ![c] = "fin"]
     \/ peer[c] \in {"open", "fin"} /\ peer' = [peer EXCEPT ![c] = "reset"]
  /\ UNCHANGED <<phase, bridgeVars, arrived, drained, backlog, sent, read, historyVars,
                 captureVars>>

\* The client loses power or its network: nothing arrives to say so.
ClientVanishes(c) ==
  /\ peer[c] = "open"
  /\ \E owes \in {FALSE, \E i \in DOMAIN delivered : delivered[i].conn = c} :
       peer' = [peer EXCEPT ![c] = IF owes THEN "unacked" ELSE "gone"]
  /\ UNCHANGED <<phase, bridgeVars, arrived, drained, backlog, sent, read, historyVars,
                 captureVars>>

\* The stack gives up retransmitting and the next call on the socket fails.
RetransmitTimeout ==
  /\ \E c \in Conns : peer[c] = "unacked" /\ peer' = [peer EXCEPT ![c] = "reset"]
  /\ UNCHANGED <<phase, bridgeVars, arrived, drained, backlog, sent, read, historyVars,
                 captureVars>>

-----------------------------------------------------------------------------
MutAcceptWhenFree == PromoteClient
AcceptPending == RejectClient \/ PromoteClient

Loop == \/ AcceptNothing \/ AcceptPending
        \/ PumpUart \/ SendNothing \/ PumpSend \/ SendError
        \/ SkipRead \/ PumpRead \/ ReadNothing \/ ReadEnds \/ DrainToUart
        \/ CaptureTick

Environment == \/ PanelSends \/ RetransmitTimeout
               \/ \E c \in Conns : \/ Connect(c) \/ ClientSends(c)
                                  \/ ClientLeaves(c) \/ ClientVanishes(c)

\* A failed or shut down component does nothing more.
Halted == phase \in {"failed", "down"} /\ UNCHANGED vars

Next == Setup \/ Loop \/ OnShutdown \/ Environment \/ Halted

Spec == Init /\ [][Next]_vars

-----------------------------------------------------------------------------
(* Safety *)

ControlTypeOK ==
  /\ phase \in Phases
  /\ clientSocket \in Conns \cup {NoSocket}
  /\ session \in SessionStates(Ids)
  /\ nextClientId \in Ids
  /\ activeClientId \in Ids \cup {kNoClient}

RingsTypeOK ==
  /\ uartToTcp \in Seq(PanelBytes) /\ Len(uartToTcp) <= BufferSize
  /\ sendStage \in Seq(PanelBytes) /\ Len(sendStage) <= StageSize
  /\ tcpToUart \in Seq(ClientBytes) /\ Len(tcpToUart) <= BufferSize
  /\ uartDrops \in Nat

EnvTypeOK ==
  /\ arrived \in 0..MaxPanelBytes
  /\ drained \in 0..arrived
  /\ peer \in [Conns -> PeerStates]
  /\ backlog \in Seq(Conns) /\ Len(backlog) <= Backlog
  /\ sent \in [Conns -> 0..MaxClientBytes]
  /\ read \in [Conns -> 0..MaxClientBytes]
  /\ \A c \in Conns : read[c] <= sent[c]

HistoryTypeOK ==
  /\ written \in Seq(ClientBytes)
  /\ delivered \in Seq(Deliveries)
  /\ mark \in [from : Nat, drops : Nat, sofar : Nat]

\* Every variable has its type; no ring, stage or backlog holds more than it can, and
\* no read() is ahead of what has arrived.
TypeOK == ControlTypeOK /\ RingsTypeOK /\ EnvTypeOK /\ HistoryTypeOK

\* The socket, the state machine, the remembered id and the capture are four
\* records of the same fact, updated in different places; until shutdown they
\* agree, the id is never the reserved one (not even after the counter wraps),
\* and no bytes stay staged for a client that has left.
SessionInSync ==
  phase # "down" =>
    /\ IsBridgeMode(session) <=> clientSocket # NoSocket
    /\ IsBridgeMode(session) <=> sessionActive
    /\ session.active = activeClientId
    /\ IsBridgeMode(session) <=> activeClientId # kNoClient
    /\ ~IsBridgeMode(session) => sendStage = <<>>

\* Every connection the stack holds open is the session's or still waits in
\* the backlog: a rejected or finished client never keeps its socket.
NoLeakedSocket ==
  \A c \in Conns :
    peer[c] \notin {"idle", "closed"} => c = clientSocket \/ c \in Range(backlog)

\* The first client keeps its session.  Only the client's own departure or the
\* shutdown ends it, a new one never replaces it, and a client that closes
\* cleanly has first been read to its last byte.
FirstClientKeepsSession ==
  [][clientSocket # NoSocket /\ clientSocket' # clientSocket =>
       /\ clientSocket' = NoSocket
       /\ \/ phase' = "down"
          \/ peer[clientSocket] = "reset"
          \/ peer[clientSocket] = "fin" /\ Unread(clientSocket) = 0]_vars

\* The bridge is a serial line lent to one client at a time: a connection calls
\* when it is answered, staged and buffered panel bytes are all under way.
Link == INSTANCE SerialLink WITH
          Clients <- Conns, UpCapacity <- BufferSize, DownCapacity <- BufferSize,
          MaxBatch <- Max({ChunkSize, StageSize}),
          owner <- clientSocket,
          answered <- {c \in Conns : peer[c] = "closed" \/ c = clientSocket},
          taken <- drained, up <- sendStage \o uartToTcp,
          got <- read, down <- tcpToUart, toPanel <- written, toClient <- delivered

\* Whatever the sockets, the pumps and the ids do, the panel and the clients see
\* such a line: no step of the bridge loses, repeats, reorders or misdirects a byte
\* in a way SerialLink does not allow, and no client jumps the queue.
ImplementsLink == Link!LinkSpec

\* No byte of the session's client is lost, repeated or overtaken on its way to
\* the panel, and none arrives after a later session's.
PanelStreamIntact == Link!StreamToPanel

\* Panel bytes reach clients in order, each one at most once: a reconnect never
\* replays an old session's bytes.
DeliveredInOrder == Link!StreamToClient

\* What a session has sent to its client or still holds for it was read from
\* the UART after the session began, and whatever is missing was counted as a
\* drop, one for one.
SessionStreamAccounted ==
  clientSocket # NoSocket =>
    LET mine == SubSeq(delivered, mark.sofar + 1, Len(delivered))
        s == [i \in DOMAIN mine |-> mine[i].byte] \o sendStage \o uartToTcp
    IN  /\ \A i \in DOMAIN mine : mine[i].conn = clientSocket
        /\ \A i \in DOMAIN s : /\ s[i] > IF i = 1 THEN mark.from ELSE s[i-1]
                               /\ s[i] <= drained
        /\ Len(s) + (uartDrops - mark.drops) = drained - mark.from

\* The symbols of one direction in what record() accepted.
Side(taken, dir) ==
  LET upTo[k \in 0 .. Len(taken)] ==
        IF k = 0 THEN <<>>
        ELSE IF taken[k].dir = dir THEN Append(upTo[k-1], taken[k].sym) ELSE upTo[k-1]
  IN  upTo[Len(taken)]

\* The capture of a session is offered the whole conversation: every byte read
\* from the client and every byte the panel sent since the accept, each
\* direction in order, before either may be delayed, dropped or cut off.
CaptureSeesSession ==
  InBridge /\ Opens =>
    /\ Side(ledger.taken, 0) = Bytes(Panel, mark.from, drained - mark.from)
    /\ Side(ledger.taken, 1) = Bytes(clientSocket, 0, read[clientSocket])

\* end_session_: "panel-bound bytes already staged in tcp_to_uart_ get drained
\* on subsequent ticks regardless".
PanelBoundBytesKept ==
  \A c \in Conns :
    Len(SelectSeq(written \o tcpToUart, LAMBDA b : b.conn = c)) = read[c]

-----------------------------------------------------------------------------
(* Liveness.  The scheduler keeps calling loop(), an accept() or a write()    *)
(* that can succeed does not fail for the moment every time, and the stack    *)
(* does not retransmit for ever.                                              *)

PumpSendProgress ==
  /\ clientSocket # NoSocket /\ peer[clientSocket] # "unacked"
  /\ PumpSend /\ Len(delivered') > Len(delivered)

Fairness == /\ WF_vars(Setup)
            /\ WF_vars(Loop)
            /\ WF_vars(RetransmitTimeout)
            /\ SF_vars(AcceptPending)
            /\ SF_vars(PumpSendProgress)

FairSpec == Spec /\ Fairness

\* A client that leaves, cleanly or not, gives the session up, so that the next
\* one can have it.  One that vanished does so if anything was or is still to be
\* sent to it; otherwise nothing in the code would ever notice.
SessionReleased ==
  \A c \in Conns :
    /\ clientSocket = c
    /\ \/ peer[c] \in {"fin", "reset", "unacked"}
       \/ peer[c] = "gone" /\ sendStage \o uartToTcp # <<>>
    ~> clientSocket # c

\* Whoever connects is accepted or turned away, never left hanging.
ConnectionAnswered == \A c \in Conns : c \in Range(backlog) ~> c \notin Range(backlog)

\* Every byte the session's client sends is written to the panel, unless the
\* session ends.
BytesReachPanel ==
  \A c \in Conns, k \in 1..MaxClientBytes :
    clientSocket = c /\ sent[c] >= k
      ~> \/ clientSocket # c
         \/ \E i \in DOMAIN written : written[i] = [conn |-> c, n |-> k]

\* Every panel byte taken in during a session leaves for the client or is
\* dropped by an overflow, unless the session ends.
BytesReachClient ==
  \A c \in Conns, b \in PanelBytes :
    clientSocket = c /\ b \in Range(sendStage \o uartToTcp)
      ~> clientSocket # c \/ b \notin Range(sendStage \o uartToTcp)
=============================================================================
