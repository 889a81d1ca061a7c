-------------------------------- MODULE Txcp --------------------------------
(***************************************************************************)
(* The TXCP byte format of capture.h and what a session puts in its .bin:  *)
(* the serialisers and parsers of capture.cpp, the ring that record()      *)
(* fills chunk by chunk until it is full, the timestamps that              *)
(* enqueue_event_() computes from the 32-bit micros(), and the flush that  *)
(* turns pending events into bytes.  Integers are little-endian digits of  *)
(* base Base, so that a small base wraps, overflows and truncates at small *)
(* numbers where the code's 256 does at large ones; widths stay the        *)
(* code's.                                                                 *)
(***************************************************************************)
EXTENDS Integers, FiniteSets, SequencesExt

CONSTANTS Base,             \* values of a byte, 256 in the code
          Magic,            \* kCaptureMagic, "TXCP"
          Version,          \* kCaptureFormatVersion
          NameLen,          \* kCapturePanelNameLen, 16 in the code
          MaxEventPayload,  \* kMaxEventPayload, 256 in the code
          RingEvents,       \* kCaptureRingEvents, 64 in the code
          PanelNames, Bauds, UnixTimes,  \* configured and clock values of a session
          Payloads,         \* non-empty byte sequences given to record()
          Pauses,           \* microseconds that pass in one step
          MaxNow, MaxCalls  \* bounds: the clock, and the calls of record()

Byte == 0 .. Base - 1

\* How many values w bytes hold.
Capacity(w) ==
  LET upTo[k \in 0..w] == IF k = 0 THEN 1 ELSE Base * upTo[k-1] IN upTo[w]

ASSUME TxcpAssumption ==
  /\ Base \in Nat /\ Base > 1
  /\ Magic \in Seq(Byte) /\ Len(Magic) = 4
  /\ Version \in 0 .. Base - 1
  /\ NameLen \in Nat
  /\ MaxEventPayload \in 1 .. Base * Base - 1   \* an event's length fits its field
  /\ RingEvents \in Nat \ {0}
  /\ PanelNames \subseteq Seq(Byte)
  /\ Bauds \cup UnixTimes \subseteq 0 .. Capacity(4) - 1
  /\ Payloads \subseteq Seq(Byte) \ {<<>>}       \* record() takes no empty one
  /\ Pauses \subseteq Nat

kCaptureHeaderSize == 16 + NameLen
kCaptureEventFixedSize == 11

-----------------------------------------------------------------------------
(* Little-endian integers: write_u16_le, write_u32_le, write_u64_le and back *)

WriteLE(v, w) == [i \in 1..w |-> (v \div Capacity(i - 1)) % Base]

ReadLE(bytes, at, w) ==
  LET upTo[k \in 0..w] ==
        IF k = 0 THEN 0 ELSE upTo[k-1] + bytes[at + k] * Capacity(k - 1)
  IN  upTo[w]

-----------------------------------------------------------------------------
(* The header *)

\* set_panel_name(): cut or padded with zeros to the field.
PanelName(n) == [i \in 1..NameLen |-> IF i <= Len(n) THEN n[i] ELSE 0]

MutSerializeHeader(h) ==
  Magic \o WriteLE(Version, 2) \o WriteLE(h.baud, 4) \o PanelName(h.name)
    \o WriteLE(h.start, 4) \o <<0, 0>>

SerializeHeader(h) ==
  Magic \o WriteLE(Version, 2) \o WriteLE(h.start, 4) \o PanelName(h.name)
    \o WriteLE(h.baud, 4) \o <<0, 0>>

\* Another magic or version is refused.
ParseHeader(in) ==
  IF SubSeq(in, 1, 4) # Magic \/ ReadLE(in, 4, 2) # Version THEN [ok |-> FALSE]
  ELSE [ok |-> TRUE, start |-> ReadLE(in, 6, 4), name |-> SubSeq(in, 11, 10 + NameLen),
        baud |-> ReadLE(in, 10 + NameLen, 4)]

-----------------------------------------------------------------------------
(* Events *)

\* A bad direction or an oversize payload writes nothing.
SerializeEvent(dir, ts, data) ==
  IF dir > 1 \/ Len(data) >= Base * Base THEN <<>>
  ELSE <<dir>> \o WriteLE(ts, 8) \o WriteLE(Len(data), 2) \o data

\* A truncated or malformed record uses 0 bytes.
ParseEvent(in) ==
  IF Len(in) < kCaptureEventFixedSize THEN [used |-> 0]
  ELSE LET n == ReadLE(in, 9, 2)
       IN  IF in[1] > 1 \/ Len(in) < kCaptureEventFixedSize + n THEN [used |-> 0]
           ELSE [used |-> kCaptureEventFixedSize + n, dir |-> in[1], ts |-> ReadLE(in, 1, 8),
                 data |-> SubSeq(in, kCaptureEventFixedSize + 1,
                                     kCaptureEventFixedSize + n)]

\* One turn of a reader's loop, which stays where a record fails to parse.
AfterRecord(loop, bytes) ==
  LET e == ParseEvent(SubSeq(bytes, loop.at + 1, Len(bytes)))
  IN  IF e.used = 0 THEN loop
      ELSE [at |-> loop.at + e.used,
            events |-> Append(loop.events, [dir |-> e.dir, ts |-> e.ts, data |-> e.data])]

\* Records "parsed linearly", in as many turns as records could fit.
ParsedFrom(bytes) ==
  LET turns == Len(bytes) \div kCaptureEventFixedSize
      turn[k \in 0..turns] ==
        IF k = 0 THEN [at |-> kCaptureHeaderSize, events |-> <<>>]
        ELSE AfterRecord(turn[k-1], bytes)
  IN  turn[turns].events

-----------------------------------------------------------------------------
(* One session and its file *)

VARIABLES now,        \* microseconds since boot
          startUs,    \* session_start_us_
          pending,    \* ring_, the events queued
          drops,      \* drops_
          call,       \* the payload enqueue_event_() is at, and `off`
          file,       \* the .bin
          opened,     \* history: when, and with what, the file was opened
          taken,      \* history: the events queued, with the time of each
          given       \* history: what record() was given, and what it kept of it

clockVars == <<now, startUs>>
fileVars == <<file, opened>>
txcpVars == <<now, startUs, pending, drops, call, file, opened, taken, given>>

Micros == now % Capacity(4)

NoCall == [dir |-> 0, data |-> <<>>, off |-> 0]

TxcpInit ==
  /\ now = 0 /\ startUs = 0 /\ pending = <<>> /\ drops = 0 /\ call = NoCall
  /\ file = <<>> /\ taken = <<>> /\ given = <<>>
  /\ opened = [at |-> 0, header |-> [start |-> 0, name |-> <<>>, baud |-> 0]]

TimePasses ==
  /\ \E d \in Pauses : now + d <= MaxNow /\ now' = now + d
  /\ UNCHANGED <<startUs, pending, drops, call, fileVars, taken, given>>

\* on_session_start(): start_unix_s is 0 until the clock was set.
OpenFile ==
  /\ file = <<>>
  /\ \E name \in PanelNames, baud \in Bauds, unix \in UnixTimes \cup {0} :
       LET h == [start |-> unix, name |-> name, baud |-> baud]
       IN  file' = SerializeHeader(h) /\ opened' = [at |-> now, header |-> h]
  /\ startUs' = Micros
  /\ UNCHANGED <<now, pending, drops, call, taken, given>>

MutTimeStamp == Micros

\* The difference is taken in 64 bits, of two values of a 32-bit clock.
TimeStamp == (Micros - startUs) % Capacity(8)

MutWholeRest(data, off) == SubSeq(data, off + 1, Len(data))

MutFront(data, off) == SubSeq(data, 1, Min({MaxEventPayload, Len(data) - off}))

\* As much of the rest of a payload as one event holds.
Chunk(data, off) == SubSeq(data, off + 1, Min({off + MaxEventPayload, Len(data)}))

\* record() in a session hands the payload to enqueue_event_().
Record ==
  /\ file # <<>> /\ call = NoCall /\ Len(given) < MaxCalls
  /\ \E dir \in 0..1, data \in Payloads :
       call' = [dir |-> dir, data |-> data, off |-> 0]
  /\ UNCHANGED <<clockVars, pending, drops, fileVars, taken, given>>

\* A turn of enqueue_event_(): there is more to queue, and room.  The clock is read anew.
QueueChunk ==
  /\ call.off < Len(call.data) /\ Len(pending) < RingEvents
  /\ LET chunk == Chunk(call.data, call.off)
     IN  /\ pending' = Append(pending, [dir |-> call.dir, ts |-> TimeStamp, data |-> chunk])
         /\ taken' = Append(taken, [dir |-> call.dir, at |-> now, data |-> chunk])
         /\ call' = [call EXCEPT !.off = @ + Len(chunk)]
  /\ UNCHANGED <<clockVars, drops, fileVars, given>>

\* record() answers true either way, so that only the drop counter tells.
Return ==
  /\ given' = Append(given, [data |-> call.data, kept |-> call.off])
  /\ call' = NoCall
  /\ UNCHANGED <<clockVars, pending, fileVars, taken>>

PayloadQueued == call # NoCall /\ call.off = Len(call.data) /\ Return /\ UNCHANGED drops

\* There is more, but no room: the rest is dropped, and counted once.
RingFull ==
  /\ call.off < Len(call.data) /\ Len(pending) = RingEvents
  /\ Return /\ drops' = drops + 1

\* The bytes of events, one record after the other.
Records(events) ==
  FlattenSeq([k \in DOMAIN events |->
                SerializeEvent(events[k].dir, events[k].ts, events[k].data)])

\* loop(), which the main loop calls between two calls of record().
FlushRing ==
  /\ pending # <<>> /\ call = NoCall
  /\ file' = file \o Records(pending)
  /\ pending' = <<>>
  /\ UNCHANGED <<clockVars, drops, call, opened, taken, given>>

TxcpNext == TimePasses \/ OpenFile \/ Record \/ QueueChunk \/ PayloadQueued \/ RingFull
              \/ FlushRing

TxcpSpec == TxcpInit /\ [][TxcpNext]_txcpVars

-----------------------------------------------------------------------------
(* Properties *)

\* Where each of these events ends in a file, by the sizes capture.h gives.
EndsOf(events) ==
  LET ends[k \in 0 .. Len(events)] ==
        IF k = 0 THEN kCaptureHeaderSize
        ELSE ends[k-1] + kCaptureEventFixedSize + Len(events[k].data)
  IN  ends

\* Whatever prefix of a file a reader gets hold of - a download that broke off, or
\* one taken while the session still runs - it reads back exactly the events that
\* are whole in it, in order and with what was queued, and none besides.
PrefixParses ==
  LET ends == EndsOf(taken)
  IN  \A cut \in kCaptureHeaderSize .. Len(file) :
        LET events == ParsedFrom(SubSeq(file, 1, cut))
        IN  /\ DOMAIN events = {k \in DOMAIN taken : ends[k] <= cut}
            /\ \A k \in DOMAIN events : /\ events[k].dir = taken[k].dir
                                        /\ events[k].data = taken[k].data

\* The bytes of events, end to end.
Content(events) == FlattenSeq([k \in DOMAIN events |-> events[k].data])

\* Of each payload, what record() kept of it.
Kept == [k \in DOMAIN given |-> SubSeq(given[k].data, 1, given[k].kept)]

CutShort == {k \in DOMAIN given : given[k].kept < Len(given[k].data)}

\* Once the ring is flushed, what a reader gets from the file is, end to end, every
\* payload that record() was given, in order, whole or up to where the ring was full;
\* and drops_ is the number of those that are not whole, however many events each
\* lost.  So with no drop counted every byte is there.
LossesCounted ==
  file # <<>> /\ pending = <<>> /\ call = NoCall =>
    /\ Content(ParsedFrom(file)) = FlattenSeq(Kept)
    /\ drops = Cardinality(CutShort)

\* The header gives back the panel's name up to the field's length, the baud rate
\* and the start time it was written with, and its length is the fixed one.
HeaderReadsBack ==
  file # <<>> =>
    LET h == opened.header
    IN  /\ Len(SerializeHeader(h)) = kCaptureHeaderSize
        /\ ParseHeader(file) = [ok |-> TRUE, start |-> h.start, name |-> PanelName(h.name),
                                baud |-> h.baud]

\* The timestamps in the file, each with the time it stands for.
Stamps == LET events == ParsedFrom(file)
          IN  [k \in DOMAIN events |-> [ts |-> events[k].ts, at |-> taken[k].at,
                                       elapsed |-> taken[k].at - opened.at]]

\* A timestamp is right in its low 32 bits even when micros() wrapped since the
\* file was opened, and in all of them when it did not.
LowBytesElapsed ==
  \A s \in Range(Stamps) :
    /\ (s.ts - s.elapsed) % Capacity(4) = 0
    /\ s.at \div Capacity(4) = opened.at \div Capacity(4) => s.ts = s.elapsed

\* 02-01-SUMMARY.md: "A single Wintex session is far shorter than this, so per-file
\* timestamps stay monotonic" - across a wrap too, because the difference goes
\* below zero in 64 bits.
ShortSessionMonotonic ==
  LET stamps == Stamps
  IN  \A j, k \in DOMAIN stamps :
        j < k /\ stamps[k].elapsed < Capacity(4) => stamps[j].ts <= stamps[k].ts

\* capture.h: "timestamp_us uint64 LE, microseconds since file open".
StampIsElapsed == \A s \in Range(Stamps) : s.ts = s.elapsed
=============================================================================
