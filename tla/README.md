# A verification of the Texecom bridge

The repository is the firmware of a serial-to-TCP bridge: an ESP32 carries bytes
between an alarm panel's UART and one TCP client (the panel's configuration tool), and
keeps recordings of those conversations in RAM for download. This directory models that
firmware in TLA+, checks the models with TLC on small instances, and proves what
matters most, for every size of the buffers and any number of clients, with TLAPS.

## 1. The system

Everything except the download page runs in one cooperative loop. `Texecom::loop()`
calls `accept_pending_client_`, `pump_uart_to_tcp_`, `pump_tcp_to_uart_` and
`capture_.loop()`, in that order, for ever. The panel, the clients and the TCP stack
run concurrently with it, and the web server answers downloads on a task of its own.

| component | state | operations | what makes it correct |
|---|---|---|---|
| session state machine (`session_state.h`) | mode, active client id | on_connect, on_disconnect, reset | the first client wins; only its own departure ends the session |
| ring buffer (`ring_buffer.h`) | slots, head, tail, size | push, pop, peek, drop_oldest, push_overwrite, clear | a bounded first-in first-out queue, across wrap-around, full and empty |
| bridge (`texecom.cpp/h`) | client socket, session, id counters, two rings, send stage, drop counter | setup, loop (four calls), reject, end_session_, on_shutdown | the records of the session agree; no socket leaks; each direction is in order, without loss (to the panel) or with every loss counted (to the client); a departed client frees the session |
| capture (`capture.cpp/h`) | event ring, stored files, live indices, byte total, drop counter | record, loop, on_session_start, on_session_end (enqueue, flush, append, evict, open, close inside) | the bytes are accounted for; whole files are evicted oldest first and never the live pair; a recording is complete unless a drop was counted |
| capture download (`capture_http.cpp/h`) | none of its own, but pointers into the store while a request is answered | route, list, look up, send a file | listings and downloads show what is stored, although the loop changes it meanwhile; every request is answered |
| TXCP format (`capture.cpp/h`) | event ring, start of the session on the microsecond clock | serialize and parse headers and events, stamp and queue them | a file reads back as what was recorded, also when it is cut; what a full ring drops is counted; timestamps are the time since it was opened |
| panel model, YAML glue, stubs | constants | none | none |

Interactions: the loop's task owns all state. The bridge calls `SessionState` on accept and
on disconnect and branches on the transition it returns; it calls the capture on session
start and end and for every batch of bytes; the capture never calls back. `is_bridge_mode()`
is read by both pumps. The HTTP handler runs on the web server's task and reads the
capture's store by iterator and pointer, with no lock between the two tasks.

What is hard here:

- the clients act between any two socket calls of a tick, and a departed client can be
  noticed in three places (read returns 0, read fails, write fails), each leaving the
  tick at a different point;
- "there is a client" is recorded four times (socket, machine, id, capture), and the
  records are updated by hand in different functions;
- short writes, overflow in the middle of a batch, a ring with exactly no room left;
- hand-kept byte totals and hand-adjusted indices into a list that shrinks at the front;
- pointers into a vector of vectors, held by one task across blocking sends while the
  other pushes, inserts and erases;
- 32-bit clocks and 16-bit lengths;
- a single session and a backlog of one: whatever forgets to give either back locks
  everybody out.

`PROJECT.json` lists each such hazard at its line with the properties that watch it.

## 2. The modules

| module | models | role |
|---|---|---|
| `BoundedFifo` | what a bounded queue promises | abstract specification |
| `RingBuffer` | `ring_buffer.h`, method by method | refines `BoundedFifo` (`ImplementsFifo`) |
| `RingBufferProofs` | | proofs about `RingBuffer` |
| `SessionState` | `session_state.h` | operators from a value of the object to the next value and to the returned transition |
| `Capture` | `capture.cpp/h` | event ring and store; `CaptureSpec` is also what the bridge is held to |
| `CaptureProofs` | | proofs about `Capture` |
| `Recursion` | | induction over a finite run, and that recursive functions have values: what `CaptureProofs` and `TxcpProofs` stand on |
| `SerialLink` | what the bridge promises its two ends | abstract specification: a serial line lent to one client at a time, in the order they called |
| `SerialLinkProofs` | | proofs about `SerialLink` |
| `Texecom` | `texecom.cpp/h` | the bridge, extending `Capture` and `SessionState`, with panel and clients; refines `SerialLink` (`ImplementsLink`) |
| `TexecomProofs` | | proofs about `Texecom`: types, session, sockets; that it implements `SerialLink`, and its streams |
| `TexecomCaptureProofs` | | that `Texecom` drives the capture as `CaptureSpec` says, and that it offers the whole conversation |
| `CaptureHttp` | `capture_http.cpp/h` and the accessors of `capture.cpp` | the web server's task, composed with `Capture` as the main loop's |
| `CaptureHttpProofs` | | proofs about `CaptureHttp` |
| `Txcp` | the format part of `capture.cpp/h` and the stamping of events | operators for the bytes, and one session writing a file with them |
| `TxcpProofs` | | proofs about `Txcp` |
| `MCRingBuffer`, `MCCapture`, `MCTexecom`, `MCCaptureHttp`, `MCTxcp` | | instances and bounds for TLC |

### Texecom and the code

`phase` is the next call of the loop. One iteration of a pump's `while` loop, with its
one socket call, is one step; code between socket calls touches only the loop's own
state and needs no finer grain.

| variable | code | action | code |
|---|---|---|---|
| `clientSocket` | `client_socket_` | `Setup`, `OnShutdown` | `setup()`, `on_shutdown()` |
| `session` | `session_` | `AcceptNothing`, `RejectClient`, `PromoteClient` | `accept_pending_client_()`, by what accept() and on_connect() return |
| `nextClientId`, `activeClientId` | same names | `PumpUart` | the UART drain and the record() call |
| `uartToTcp`, `tcpToUart` | the two rings, as queues | `SendNothing`, `PumpSend`, `SendError` | one turn of the write loop, by what write() returns |
| `sendStage` | `send_stage_[off..len)` | `SkipRead`, `PumpRead`, `ReadNothing`, `ReadEnds` | one turn of the read loop, by what read() returns |
| `uartDrops` | `uart_to_tcp_drops_` | `DrainToUart`, `CaptureTick` | the drain to the UART, `capture_.loop()` |

`EndSession` is the effect of `end_session_()` and part of `SendError` and `ReadEnds`.
The rings are queues because `RingBuffer` is proved to be one. `Environment` is the
panel sending, clients connecting (in order, up to the backlog), sending, closing (FIN),
resetting, and vanishing without a word. A vanished client whose stack owes nothing
(`"gone"`) looks open for ever; once something was sent to it (`"unacked"`) the
retransmissions end in an error on the socket. The environment is external, and the only
fairness assumed of it is that the stack does not retransmit for ever. A byte is abstract but
identifiable: a panel byte is its position in the panel's output, a client byte its
connection and position. The history variables `written`, `delivered` and `mark` record
what left the bridge and where each counter stood at the last accept; no guard reads them.

### SerialLink and Texecom

`SerialLink` has no pumps, rings, sockets, ids or phases: an owner, the bytes under way in
each direction, and what each end received. It says what may be lost: panel bytes only
from the old end and only to a full buffer of newer ones, or when the line changes hands;
client bytes only with their sender's session. Under the refinement mapping the bytes on
their way up are `sendStage \o uartToTcp`, so that a refill is a stutter and an overflow
is a stretch missing between the stage and the ring; the owner is `clientSocket`; a
connection is answered when it is promoted or closed. `StreamToPanel` and
`StreamToClient` are stated on `SerialLink` and checked on `Texecom` through the mapping
(`PanelStreamIntact`, `DeliveredInOrder`).

### CaptureHttp and the code

One record, `http`, is the request being answered; the web server answers one at a time.
Each turn of the two range-for loops, each read of the vector's size and each chunk sent
is a step, and any of Capture's operations can come between two of them (`MainTask`).
What those do to the handler's pointers is kept, the heap itself is not: `push_back()`
may move the array (`lost`), appending may move the bytes of the file (`dead`), and an
eviction moves the later files one slot down. Whether a move happens depends on
capacities, which are abstracted to a choice. A read through a dead pointer has undefined
behaviour: it gives the name asked for or another one, and any size in `Garbage`, or it faults
and the device is down (`DeadRead`). `newest`, `calm`, `evicted` and `grown` are history: the last capture opened before the
request, whether one was opened or evicted since, how many files were evicted, and which grew.

| `http.pc` | code | actions |
|---|---|---|
| `idle` | `canHandle`, `handleRequest` | `Request` |
| `list` | the loop of `list_captures()`, then `send_listing_` | `ListNext`, `ListDone` |
| `find` | the loop of `get_capture_bytes()` | `FindNext`, `FindNothing` |
| `head`, `body` | Content-Length, then `data()` and `size()` | `SendHeaders`, `StartBody` |
| `chunks` | the send loop | `SendChunk`, `ChunkFails`, `BodySent` |
| `reply` | the end of the response | `Finish` |
| any that reads the store | the same reads, through memory that was freed | `DeadRead` |
| `crashed` | nothing runs any more; the restart is not modelled | `Down` |

### Txcp and the code

The serialisers and parsers are operators on sequences of digits of base `Base` (256 in
the code), widths as in the code. Around them, one session, from the opening of its file on.

| action | code |
|---|---|
| `TimePasses` | the clock, at any moment, also within a call of `record()` |
| `OpenFile` | `on_session_start()`: the header is written, the session's start read from `micros()` |
| `Record` | a call of `record()` that passes its filters |
| `QueueChunk` | one turn of `enqueue_event_()`'s loop: a chunk, stamped with its own reading of `micros()`, enters the ring |
| `RingFull` | the turn that finds the ring full: one drop is counted, the rest of the payload is lost, `record()` answers true |
| `PayloadQueued` | the loop ends, `record()` answers true |
| `FlushRing` | `flush_ring_()`, by `loop()` between two calls |

`opened`, `taken` (the events queued, each with the time) and `given` (what `record()` was given and
how much of it was kept) are history. A reader is the loop over `parse_event`
of `tests/test_capture.cpp` (`AfterRecord`, `ParsedFrom`); it stops where a record fails to parse. What
it gets is compared in two ways: `PrefixParses` at every cut of the file, event by
event, with what was queued; and `LossesCounted` for a flushed file, end to end and without
reference to events, with what `record()` was given: every payload in order, whole or up to where
the ring was full, and as many drops counted as payloads were cut short.

The bridge offers at most 256 bytes at a time, which is one event: a payload of several chunks
comes only from `record()`'s interface, which allows it. That more events come between two
flushes than the ring of 64 holds takes short reads: the read loop records every `read()`, and
a tick may do as many as the panel-bound ring has room for.

### Capture and the code

Sizes are exact (header 32, event 11 + payload, sidecar row 62 + n, banner) since
eviction depends on them; contents are abstract. `store` holds `captures_`, the live
indices (1-based, 0 for the code's -1), `total_bytes_used_` and `drops_`. Every action is
a public method with everything it calls: `OnSessionEnd`, for example, is flush, then
close. `ledger` is history: what record() accepted in this session.

## 3. What TLC checks

Passing runs:

| run | question | bounds |
|---|---|---|
| `ring_buffer` | is the circular array a queue? | 3 slots, 3 values: every head, tail and count, wrapped or not |
| `capture_bridge` | accounting, eviction, completeness, sidecar, append-only, in the default mode | 3 sessions, 2 event slots, events of at most 2 symbols of 128 bytes, budget 4096 (the least the YAML admits) |
| `bridge_to_client` | session agreement, sockets, panel-to-client stream | 3 connections, 4 panel bytes, rings, chunk and stage of 2, 2 ids, so that the counter wraps |
| `bridge_streams` | is the bridge the serial line of `SerialLink`? client-to-panel stream | 2 connections of 3 bytes each, 4 panel bytes, rings of 2, a stage of 1 |
| `bridge_capture` | does the bridge drive the capture as `CaptureSpec` says, and is the conversation recorded? | mode Both, 2 connections, 2 bytes each way |
| `bridge_liveness` | departure, answer, delivery | 2 connections, 2 bytes each way, fair |
| `capture_http` | listings and downloads between the steps of the capture, the store growing, opened to and evicted from; is every request answered? | 2 sessions that can evict each other, every stored name and three refused ones, chunks of 1024 against files of up to 3 KB; a size in freed memory reads as 0 or 1500 |
| `txcp_file` | read-back of headers and events at every cut, and of all that was recorded and not counted as dropped; timestamps | base 2, 2 calls with payloads of 1 and 4 against events of at most 3 and a ring of 2, a clock that wraps after 16 and runs to 21 in steps of 6 and 9 |

Why the bounds suffice: a ring of two is already empty, partly full, full and overflowing within one
batch; a stage of two is sent whole, in part and not at all; three connections give an active
client, a rejected one and a successor; two ids make the next id wrap while a session holds one. In
the capture, a full event takes 1588 bytes of its pair, so a session of three exceeds the budget
alone and two sessions of two exceed it together; a payload of two events meets a ring of two slots
with none, one or both free, so it is cut in the middle too. A download takes one to three chunks,
so a capture step can fall before, between and after them; with two sessions, opening the second
moves the array and evicts the first's files. The two garbage sizes are less and more than one
chunk. In base 2 a 16-bit length counts to 3 and `micros()` to 15, so sizes fill their fields and a
session straddles the wrap; a long payload is two events, so two calls without a flush meet a ring
with two places, one and none, and one that fills in the middle of a payload. `MCBounds` (sessions,
symbols per session, drops), the three `Max...` constants of `Texecom`, and `MaxNow` and `MaxCalls`
of `Txcp` are the only bounds; each counts events of the environment.

The stream and liveness runs have the capture switched off; `bridge_capture` turns it on.
Deadlock is checked in every run but those of `Txcp`, whose clock and number of calls are
bounded, so that it ends; a failed or shut-down bridge is not a deadlock but the action
`Halted`, nor is a device that faulted (`Down`).

Runs that find a disagreement between the code and what it says of itself (each with its
quotation in `PROJECT.json`):

| run | what happens |
|---|---|
| `bridge_reconnect` | A client's bytes are read, its close is read in the same loop, the function returns without the drain, a waiting connection is promoted on the next tick and the ring is cleared. The comment in `end_session_` promises the bytes to the panel. |
| `capture_monitor_flush` | `record_when: monitor` accepts events and drops every one of them at the flush: no file is opened. |
| `http_download` | A new session opens during a download: the array of captures moves, or the file is evicted, and the handler sends from where its bytes were. |
| `txcp_clock` | `micros()` wraps between the opening of a file and an event: the event is stamped near 2^64. |

What remains true in spite of `http_download` is what `capture_http` checks.
`CalmListing` and `CalmDownload` exclude, by their guards, requests during which a capture was
opened or evicted. They cover the appends, the only change of the store that comes with every
recorded byte: appending to the live files disturbs no other file's row, and a live file that grows
between the two reads of its size is sent no shorter than announced and no longer than it is.
`EvictionsHideFew` covers the openings and the evictions, as long as the array itself stays where
it is: an eviction moves the later files down one slot under the iterator, so a file that was stored
all the while may be missing from a page, or be answered Not Found; but at most one is hidden for
each file evicted, and an opening hides none. (The page is then not quite the "snapshot" of
`capture.h:212-213`, and "Not Found" not quite `capture.h:216-217`'s "nullptr if not found".) When
`push_back()` moves the array there is nothing left to say of the answer; `OnlyMovesCrash` is about
every request: if the handler faulted, something was opened or evicted under it or the file it was
sending grew, so that its own loops stay within the array and the file.

`LowBytesElapsed` and `ShortSessionMonotonic` are what remains true in spite of `txcp_clock`: the
low 32 bits of a timestamp are always right, and within 71 minutes timestamps never go back.

Three smaller divergences have no run. `record()` answers true when the ring is full
(`capture.cpp:223-224`; `enqueue_event_` returns nothing), where `capture.h:197-199` says "false if
dropped (ring full / ...)"; nobody reads the answer, and `LossesCounted` says what can be relied on
instead: the drop counter. `texecom.h:76-77` says that `end_session_` is called by
`on_shutdown()`; it is not, so the capture never learns of the end (hence `phase # "down"`
in `SessionInSync`). A recording larger than the budget stays until the next session opens,
because closing it does not enforce the budget, while `capture.cpp:268-269` speaks of an overflow
"until session ends".

`PanelStreamIntact`, which holds, is what remains true of the panel's stream in spite of
`bridge_reconnect`: a lost part is always a session's tail, and never the live session's.

### Fairness

`bridge_liveness` assumes that setup and the loop keep running (weak fairness of `Setup`
and `Loop`: ESPHome's scheduler calls loop() as long as the component has not failed),
and strong fairness of accepting and of a write that makes progress: accept() and write()
may fail for the moment any number of times, though not every time they could succeed.
`WF(RetransmitTimeout)` is TCP's: data that is never acknowledged ends in an error
on the socket. Nothing is assumed of the panel or the clients. A client that stops reading
for ever is therefore outside `BytesReachClient`. A client that vanished is covered by
`SessionReleased` if something was or is still to be sent to it; otherwise nothing in the code
notices (no keepalive, no idle timeout), and the session stays taken until the panel speaks.

`capture_http` assumes weak fairness of the handler's own steps: the web server's task gets to
run, and a send either succeeds or fails, the server having a send timeout. Nothing is assumed of
the main loop: it may append, open and evict for ever. `RequestAnswered` therefore promises an
answer or a crash: a read of freed memory may take the device down, and then nobody is answered.

## 4. What is proved

For every capacity, element type, chunk, stage and backlog size, id width, and number of
connections and bytes:

- `RingCorrect`, `RingImplementsFifo` (`RingBufferProofs`). The invariant is
  `RingInv`: types plus `PositionsAgree`, head = (tail + size) mod N. Without it the
  refinement mapping (`Contents`, the size values from tail onwards) would not survive a
  push: the slot written must be the one just after the last value. Each method then maps
  to the abstract one on a lemma about `SlotOf` (distinct offsets below N designate
  distinct slots).
- `TypeCorrect` (`TexecomProofs`): every variable keeps its type. The lengths are the
  substance: the overflow arithmetic brings the ring back to its capacity for any batch,
  a refill never exceeds the stage, read() is never ahead of what arrived, and the id
  counter never lands on the reserved id.
- `SessionCorrect`, `SocketsReleased`, `SessionKept` (`TexecomProofs`), from one inductive
  invariant, `SessionInv`: types, `SessionInSync`, `NoLeakedSocket`, and no socket before
  setup. The parts need each other: a promotion overwrites `client_socket_` without
  closing it, so that nothing leaks only because a machine that accepts has no socket;
  that the machine rejects at all needs an id that is not the reserved one, which is the
  type invariant; and setup() resets the machine without looking at the socket.
- `LinkToClient` (`SerialLinkProofs`): `StreamToClient` of the serial line. That what a
  client received is in order does not say that what it receives next is: the invariant,
  `UpInv`, orders the panel's bytes from end to end (received before under way before not
  yet given) and adds that whoever received something was answered, and not after the
  owner. An overflow cuts a stretch out of the bytes under way, and a rising sequence
  without a stretch still rises (`RisingWithout`).
- `LinkToPanel` (`SerialLinkProofs`): `StreamToPanel`. The invariant, `DownInv`, adds that
  all senders so far were answered and that a client not yet answered has given nothing,
  so that the next owner's bytes begin at 1, after everybody else's. `ToPanel` and the
  bytes forgotten at a change of hands keep it because it is about the bytes written
  followed by those held, and a prefix of an unbroken stream is unbroken.

### The bridge is the serial line (`TexecomProofs`)

- `BridgeIsLine`: every step of the bridge is a step of `SerialLink` or a stutter, under
  the mapping of section 2. The inductive invariant, `LinkInv`, adds to `SessionInv` what
  the mapping needs: connections are made, queued and answered in order, so that every
  waiting one comes after every answered one; the session's connection is open; and setup()
  finds the rings empty. The steps that are not stutters are an
  accept (a change of hands, which forgets what the rings held), a drain of the UART (new
  panel bytes enter, an overflow cuts a stretch out between the stage and the ring), a
  read, a write and a drain to the UART. `Take` and `Drop` lemmas carry the sequences.
- `PanelStreamCorrect` and `DeliveryCorrect` (`PanelStreamIntact`, `DeliveredInOrder`):
  `SerialLink`'s two theorems, read through the mapping.
- `StreamAccounted` (`SessionStreamAccounted`). That the counts add up says nothing of what
  an overflow removes, so `StreamInv` adds that the bytes delivered since the accept, staged
  and queued rise from end to end and are all of the session's. The order is stated of every two
  bytes and not of neighbours, since an overflow makes neighbours of bytes that were not.

### The capture (`CaptureProofs`)

All the loops of the model (sums of sizes, eviction, flush, contents) are recursive functions;
what they compute is proved by the induction of `Recursion`: a set that holds 0 and every successor
holds all numbers because < is well-founded (`SetInduction`, `InductionUpTo`), and a
recursive function has a value because a run of any step function exists (`RunExists`).

- `CaptureTypeCorrect`, `TotalCorrect`, `RetentionCorrect`, `BudgetCorrect`, `SidecarCorrect`,
  `CompletenessCorrect`: every invariant of `capture_bridge`, from one inductive invariant,
  `CapInv`. Its core is `Sound`: the store's types, its total is the sum of its files, its
  files are the last ones opened (`Shaped`) and every sidecar walks its recording. The parts
  need each other. That an eviction takes the first file, and that the live indices can
  simply be lowered by one, holds because the store ends with the live pair; that the total
  stays right under the eviction needs it to be the sum; that the loop ends within budget, or
  with the live pair alone, needs both. `SessionComplete` needs besides that the last file but
  one is the session's recording, and that a full ring raises the drop count above the ledger's
  for good.
- `AppendOnlyCorrect` (`FilesAppendOnly`): what a flush or an opening leaves of the store
  `Follows` what was there: the oldest gone, the last pair longer, the others the same; and the
  number and kind of a file say which one it is (`Numbering`).
- `FlushKeepsSessionEvents` (`FlushNeverDrops`), with the hypothesis that the mode is None or
  BridgeOnly. The hypothesis is what the run `capture_monitor_flush` shows to be needed: a mode that
  records outside sessions drops what it recorded.

### The bridge and the capture (`TexecomCaptureProofs`)

- `BridgeDrivesCapture`: every step of the bridge is a step of `CaptureSpec`. That sessions
  alternate is `SessionInSync`; that the ring is empty at an accept is `RingEmptyAtAccept`, since
  a tick ends with `capture_.loop()`, whichever way it went. So all that is proved of `Capture`
  holds in the bridge; `BridgeSessionsComplete` states it of `SessionComplete`.
- `ConversationSeen` (`CaptureSeesSession`): the invariant, `SeenInv`, adds that
  nobody is read from before being answered, so that a session starts with nothing read; a
  batch then extends one direction and leaves the other as it was (`BatchIsRecorded`).

### The download (`CaptureHttpProofs`)

- `ServerDrivesCapture`: the handler never writes the store, so `CapInv` holds under it.
- `ListingCorrect`, `DownloadCorrect`, `CrashesExplained` (`CalmListing`, `CalmDownload`,
  `OnlyMovesCrash`). The first two speak of the reply only, the third of a device that is down; the
  inductive invariant, `HttpInv`, speaks of the request on its way: the array has not moved and is
  as long as it was, each row read and each file passed over is the one now in that place, and what
  is still to be sent and what was sent make up a size the file has had, not less than the length
  announced nor more than the file's. A read is then good, or is of a file that grew (`DeadReadOK`),
  which is the third theorem. A step of the main loop keeps it on `QuietStep`: names are distinct,
  so a file is known by its name; files are append-only and a longer file is not smaller
  (`LongerIsLarger`), so a file that is not recorded as grown has kept its size.
- `FewHidden` (`EvictionsHideFew`). Counted from the first file ever opened, slot i holds the file
  number `Base` + i, where `Base` files are gone: an eviction moves the iterator forward in this count
  and moves no file. The invariant, `HideInv`, says that the files it has passed without listing them are
  no more than were evicted, that it has passed none in a lookup if none was, and that the slots it
  will look at reach to the last file opened before the request.

### The file format (`TxcpProofs`)

All five invariants of `txcp_file`, for every base, name length,
configuration, payload and clock.

- Integers. `Capacity(w)`, the number of values of w bytes, is a recursive function, and
  so is reading; that a field gives back what was written into it modulo its capacity
  (`ReadLEOfWriteLE`) is an induction over its bytes on one fact about digits (`DigitStep`:
  v mod p, and the digit of v at p, make v mod pb), which in turn rests on the uniqueness of
  quotient and remainder.
- Layout. `Has(s, at, t)` says that t stands in s behind the first `at` bytes. Every serialiser
  has its fields at the places where the parser looks for them (`HeaderLayout`, `RecordLayout`),
  a record that is whole parses as the event it was made from (`WholeRecordParses`), and one that
  is cut anywhere parses as nothing (`CutRecordFails`): within its fixed part because that is
  too short, beyond it because its length field is then complete and says so.
- The invariant, `TxcpInv`: the file is its header and the records of some events, and those events
  followed by the ring's are what was queued, stamped; it was queued
  in order, between the opening and now; the session's start is what the clock showed then. The
  properties speak of what a reader gets, and a step preserves none of them by itself: which bytes
  the next flush appends depends on the ring.
- `HeaderCorrect` (`HeaderReadsBack`) follows from the layout of the header, and
  `PrefixCorrect` (`PrefixParses`) from that of the records: the reader's loop walks from
  record to record (`TurnReads`) up to the one that is cut, and stays there (`TurnStays`);
  there are turns enough because no record is shorter than its fixed part (`EndsGrow`).
- `LossesCountedCorrect` (`LossesCounted`). In the middle of a call the file and the ring hold more than
  the payloads answered, so a second invariant, `LossInv`, says that what was queued carries what was kept of
  them and, behind that, the part of the payload at hand up to `off`; and that the drops are as many as
  the payloads answered short. A chunk moves `off` by what it carries (`ChunkOK`), and an answer,
  of the loop that ended or of the one that met the full ring, turns that part into what was kept
  (`OneMoreAnswer`).
- `LowBytesCorrect` (`LowBytesElapsed`) and `MonotonicCorrect` (`ShortSessionMonotonic`) are
  arithmetic on top of the invariant: `ClockDifference` is about one difference of two readings of a
  wrapping clock, `ClockOrder` about two of them. The second needs that the wide field
  holds at least one turn of the clock, so that a difference gone below zero lies above all that have not.

### Assumptions, and what is only model-checked

The assumptions are `RingAssumption`, `CaptureAssumption`, `TexecomAssumption`, `BatchAssumption`,
`CaptureHttpAssumption` and `TxcpAssumption`: sizes are positive, bounds are natural numbers, a size
in freed memory reads as a natural number, and whatever batch of bytes the bridge offers to the
capture is among the `Payloads` the capture is said to be given. `TxcpAssumption` says besides that
names and payloads are bytes, that a baud rate and a start time fit the 32-bit fields they are
`uint32_t` in, that no payload is empty, and that an event's largest payload fits its 16-bit length.
TLC evaluates them in every run. The two link theorems assume that clients are positive numbers and
that the step is a natural number, in their statements; the bridge satisfies both.

Every safety property that a passing run checks is proved. Only model-checked is liveness
(`BytesReachClient`, `BytesReachPanel`, `SessionReleased`, `ConnectionAnswered`,
`RequestAnswered`), which is outside the prover's reach. The properties of the four violation
runs are false.

## 5. What is not modelled

- how loads and stores of the two tasks interleave inside one operation of the capture: in
  C++ terms every overlap is a data race, and the model shows only the races between whole
  operations, which are enough for the run that finds one. A property that holds in `CaptureHttp` holds
  under that assumption;
- the capacities that decide when a vector moves (4096 bytes are reserved per file): a choice;
- the HTML page, the order of its rows and the "ago" column, content types and disposition;
- file names beyond sequence number and extension, modification times;
- counters nothing reads back, log throttling, `dump_config()`;
- the capture's test sink, installed by host tests only;
- `uart_ == nullptr`: the YAML schema requires a UART; `capture_.setup()` only logs;
- a reboot: everything is in RAM, so a restart is `Init`; a device that faulted stays down;
- what old bytes in the UART driver mean to a new client (`arrived - drained` at the accept):
  they are modelled and delivered, and no document says whether they should be;
- the panel model, the YAML glue, `posix_stubs.c`: no state and no decisions.

## 6. How it was built

In this order: `BoundedFifo`, `RingBuffer` and its proofs; `SessionState`; `Capture`; `Texecom`
composed of them; type and session proofs; vanishing clients; `SerialLink` and the refinement;
`CaptureHttp`; `Txcp`; proofs about `SerialLink`, that the bridge implements it and that it drives
the capture, about `Capture`, about `CaptureHttp` and about `Txcp`. Every part of the system that
has state or decisions is modelled, and every safety property the passing runs check is proved. What
a change of the code asks for next: a keepalive or an idle timeout would let `SessionReleased` cover
every vanished client, and a lock between the two tasks would turn `DownloadIsTheFile` into a property that
holds, `EvictionsHideFew` into one that speaks of no eviction, and make `OnlyMovesCrash` mean that nothing
crashes.
