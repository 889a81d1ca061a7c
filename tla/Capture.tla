------------------------------ MODULE Capture ------------------------------
(***************************************************************************)
(* capture.cpp / capture.h: the event ring that record() fills, and the     *)
(* in-RAM store of .bin/.txt pairs that loop() flushes it into under a byte  *)
(* budget.  Sizes are real (32-byte header, 11-byte event prefix, 62+n bytes *)
(* per hexdump row), so the budget arithmetic is the code's; contents are    *)
(* abstract: a payload is a sequence of symbols standing for SymbolBytes     *)
(* bytes each, and a file is the sequence of what was appended to it.        *)
(* The counters that nothing reads back (bytes_written_total_,              *)
(* warn_throttle_, budget_warn_emitted_), mtimes and timestamps are left     *)
(* out, and so is the test sink, which only host tests install.             *)
(***************************************************************************)
EXTENDS Integers, SequencesExt

CONSTANTS Mode,             \* capture mode, from the YAML
          MaxTotalBytes,    \* max_total_bytes_, the RAM budget
          RingEvents,       \* kCaptureRingEvents, 64 in the code
          MaxEventPayload,  \* kMaxEventPayload, in symbols
          SymbolBytes,      \* bytes a payload symbol stands for
          BannerBytes,      \* length of the .txt banner
          Payloads          \* what callers pass to record()

Symbols == UNION {Range(p) : p \in Payloads}

kCaptureHeaderSize == 32
kCaptureEventFixedSize == 11

ASSUME CaptureAssumption ==
  /\ Mode \in {"None", "BridgeOnly", "MonitorOnly", "Both"}
  /\ MaxTotalBytes \in Nat \ {0}
  /\ RingEvents \in Nat \ {0}
  /\ MaxEventPayload \in Nat \ {0}
  /\ SymbolBytes \in Nat \ {0}
  /\ BannerBytes \in Nat
  /\ Payloads \subseteq Seq(Symbols) \ {<<>>}

VARIABLES sessionActive,  \* session_active_
          evRing,         \* ring_: pending [dir, data] events, oldest first
          store,          \* captures_, live indices, byte count, drop count
          fileSeq,        \* file_seq_
          ledger          \* history: what record() accepted this session, and
                          \* the drop count when the session started

captureVars == <<sessionActive, evRing, store, fileSeq, ledger>>

Opens == Mode \in {"BridgeOnly", "Both"}   \* the modes that open capture files

-----------------------------------------------------------------------------
(* Sizes *)

\* Quotient of n by d, rounded up.
CeilDiv(n, d) == (n + d - 1) \div d

EventBytes(e) == kCaptureEventFixedSize + SymbolBytes * Len(e.data)

\* write_hexdump_ formats rows of at most 16 bytes: a 10-byte offset column,
\* 48 of hex, " |", one character per byte, and "|\n".
HexdumpBytes(n) == n + 62 * CeilDiv(n, 16)

\* Loops are recursive functions here and not folds, which no proof can unfold.
SumOf(s) ==
  LET upTo[k \in 0 .. Len(s)] == IF k = 0 THEN 0 ELSE upTo[k-1] + s[k]
  IN  upTo[Len(s)]

FileBytes(f) ==
  IF f.text
  THEN BannerBytes + SumOf([i \in DOMAIN f.body |-> HexdumpBytes(f.body[i].bytes)])
  ELSE kCaptureHeaderSize + SumOf([i \in DOMAIN f.body |-> EventBytes(f.body[i])])

StoredBytes(files) == SumOf([i \in DOMAIN files |-> FileBytes(files[i])])

-----------------------------------------------------------------------------
(* The Mut... operators are faulty variants, against which the properties are *)
(* tested: here an eviction that forgets the size, and one of the newest file. *)

MutForgetSize(st) ==
  LET closed == DOMAIN st.files \ {st.bin, st.txt} IN
  IF closed = {} THEN st
  ELSE [st EXCEPT !.files = RemoveAt(@, Min(closed)), !.bin = @ - 1, !.txt = @ - 1]

MutEvictNewest(st) ==
  LET closed == DOMAIN st.files \ {st.bin, st.txt} IN
  IF closed = {} THEN st
  ELSE [st EXCEPT !.files = RemoveAt(@, Max(closed)),
                  !.total = @ - FileBytes(st.files[Max(closed)]),
                  !.bin = IF @ > Max(closed) THEN @ - 1 ELSE @,
                  !.txt = IF @ > Max(closed) THEN @ - 1 ELSE @]

-----------------------------------------------------------------------------
(* The store *)

MutInsertFront(st, idx, chunk, bytes) ==
  IF idx \notin DOMAIN st.files THEN st
  ELSE [st EXCEPT !.files[idx].body = <<chunk>> \o @, !.total = @ + bytes]

\* append_to_: indices are 1-based here and 0 is the code's -1.
AppendTo(st, idx, chunk, bytes) ==
  IF idx \notin DOMAIN st.files THEN st
  ELSE [st EXCEPT !.files[idx].body = Append(@, chunk), !.total = @ + bytes]

\* One turn of enforce_budget_'s loop: the oldest file that is not live goes,
\* and the live indices follow their files down.
EvictOldest(st) ==
  LET closed == DOMAIN st.files \ {st.bin, st.txt}
      victim == Min(closed)
  IN  IF closed = {} THEN st
      ELSE [st EXCEPT !.files = RemoveAt(@, victim),
                      !.total = @ - FileBytes(st.files[victim]),
                      !.bin   = IF @ > victim THEN @ - 1 ELSE @,
                      !.txt   = IF @ > victim THEN @ - 1 ELSE @]

MutEvictOnce(st) == IF st.total > MaxTotalBytes THEN EvictOldest(st) ELSE st

\* Each turn removes a file, so as many turns as there are files suffice.
EnforceBudget(st) ==
  LET after[k \in 0 .. Len(st.files)] ==
        IF k = 0 THEN st
        ELSE LET s == after[k-1]
             IN  IF s.total > MaxTotalBytes THEN EvictOldest(s) ELSE s
  IN  after[Len(st.files)]

CloseCurrent(st) == IF st.bin = 0 THEN st ELSE [st EXCEPT !.bin = 0, !.txt = 0]

OpenNewCapture(st, seq) ==
  LET closed == CloseCurrent(st)
      n == Len(closed.files)
  IN  EnforceBudget(
        [closed EXCEPT !.files = @ \o << [seq |-> seq, text |-> FALSE, body |-> <<>>],
                                         [seq |-> seq, text |-> TRUE,  body |-> <<>>] >>,
                       !.bin = n + 1,
                       !.txt = n + 2,
                       !.total = @ + kCaptureHeaderSize + BannerBytes])

WriteHexdump(st, offset, n) ==
  IF st.txt = 0 THEN st
  ELSE AppendTo(st, st.txt, [at |-> offset, bytes |-> n], HexdumpBytes(n))

MutOffsetAfter(st, e) ==
  IF st.bin = 0 THEN [st EXCEPT !.drops = @ + 1]
  ELSE LET n == EventBytes(e)
           appended == AppendTo(st, st.bin, e, n)
       IN  EnforceBudget(WriteHexdump(appended, FileBytes(appended.files[st.bin]), n))

\* write_bytes_: without a live file the event is counted as dropped.  The
\* sidecar row carries the .bin's size before the event was appended.
WriteBytes(st, e) ==
  IF st.bin = 0 THEN [st EXCEPT !.drops = @ + 1]
  ELSE LET offset == FileBytes(st.files[st.bin])
           n == EventBytes(e)
       IN  EnforceBudget(WriteHexdump(AppendTo(st, st.bin, e, n), offset, n))

\* flush_ring_ empties the ring into the store, oldest event first.
Flush(st, events) ==
  LET after[k \in 0 .. Len(events)] ==
        IF k = 0 THEN st ELSE WriteBytes(after[k-1], events[k])
  IN  after[Len(events)]

-----------------------------------------------------------------------------
(* record() *)

WouldRecord == Mode # "None" /\ (Mode = "BridgeOnly" => sessionActive)

MutRecordResult == WouldRecord /\ ~sessionActive

\* What record() answers for a direction and a non-empty payload.
RecordResult == WouldRecord /\ (Mode = "MonitorOnly" => ~sessionActive)

MutNoSplit(dir, data) == << [dir |-> dir, data |-> data] >>

\* enqueue_event_ cuts a payload into events of at most MaxEventPayload.
Chunks(dir, data) ==
  [i \in 1 .. CeilDiv(Len(data), MaxEventPayload) |->
     [dir  |-> dir,
      data |-> SubSeq(data, (i - 1) * MaxEventPayload + 1,
                      Min({i * MaxEventPayload, Len(data)}))]]

Tagged(dir, data) == [i \in DOMAIN data |-> [dir |-> dir, sym |-> data[i]]]

CaptureInit ==
  /\ sessionActive = FALSE
  /\ evRing = <<>>
  /\ store = [files |-> <<>>, bin |-> 0, txt |-> 0, total |-> 0, drops |-> 0]
  /\ fileSeq = 0
  /\ ledger = [taken |-> <<>>, drops |-> 0]

\* A full ring refuses the next chunk, counts one drop and returns, whatever
\* is left of the payload; record() still answers true.
Record(dir, data) ==
  /\ IF RecordResult
     THEN LET chunks == Chunks(dir, data)
              room == RingEvents - Len(evRing)
          IN  /\ evRing' = evRing \o SubSeq(chunks, 1, Min({room, Len(chunks)}))
              /\ store' = IF Len(chunks) > room THEN [store EXCEPT !.drops = @ + 1]
                                                ELSE store
              /\ ledger' = IF sessionActive
                           THEN [ledger EXCEPT !.taken = @ \o Tagged(dir, data)]
                           ELSE ledger
     ELSE UNCHANGED <<evRing, store, ledger>>
  /\ UNCHANGED <<sessionActive, fileSeq>>

OnSessionStart ==
  /\ sessionActive' = TRUE
  /\ IF Opens
     THEN /\ fileSeq' = fileSeq + 1
          /\ store' = OpenNewCapture(store, fileSeq + 1)
     ELSE UNCHANGED <<store, fileSeq>>
  /\ ledger' = [taken |-> <<>>, drops |-> store.drops]
  /\ UNCHANGED evRing

MutCloseBeforeFlush ==
  /\ store' = Flush(CloseCurrent(store), evRing)
  /\ evRing' = <<>>
  /\ sessionActive' = FALSE
  /\ UNCHANGED <<fileSeq, ledger>>

MutNoFlush ==
  /\ store' = CloseCurrent(store)
  /\ evRing' = <<>>
  /\ sessionActive' = FALSE
  /\ UNCHANGED <<fileSeq, ledger>>

OnSessionEnd ==
  /\ store' = CloseCurrent(Flush(store, evRing))
  /\ evRing' = <<>>
  /\ sessionActive' = FALSE
  /\ UNCHANGED <<fileSeq, ledger>>

\* Capture::loop()
CaptureLoop ==
  /\ store' = Flush(store, evRing)
  /\ evRing' = <<>>
  /\ UNCHANGED <<sessionActive, fileSeq, ledger>>

-----------------------------------------------------------------------------
\* How the component calls it: sessions alternate, and one starts only at the
\* top of a tick, when the previous tick's loop() has emptied the ring.
CaptureNext ==
  \/ ~sessionActive /\ evRing = <<>> /\ OnSessionStart
  \/ sessionActive /\ OnSessionEnd
  \/ \E dir \in 0..1, data \in Payloads : Record(dir, data)
  \/ CaptureLoop

CaptureSpec == CaptureInit /\ [][CaptureNext]_captureVars

-----------------------------------------------------------------------------
(* Properties *)

\* No event exceeds the ring slot it is copied into, the ring never exceeds its
\* slots, and a live index always points into the list of files.
CaptureTypeOK ==
  /\ sessionActive \in BOOLEAN
  /\ Len(evRing) <= RingEvents
  /\ \A i \in DOMAIN evRing : /\ evRing[i].dir \in 0..1
                              /\ Len(evRing[i].data) \in 1..MaxEventPayload
  /\ fileSeq \in Nat
  /\ store.drops \in Nat /\ store.total \in Nat
  /\ {store.bin, store.txt} \subseteq 0 .. Len(store.files)

\* total_bytes_used_, kept by hand in four places, is what the files really
\* hold: eviction decides on it, so a drift would evict too much or never.
TotalIsSum == store.total = StoredBytes(store.files)

\* What is left in the store are the most recently opened files with no gap,
\* each .bin before its .txt, and the live indices designate the last pair
\* exactly while a capturing session runs: eviction is oldest-first and the
\* hand-adjusted indices never drift onto another file.
NewestRetained ==
  LET n == Len(store.files) IN
  /\ \A i \in 1..n : LET k == 2 * fileSeq - n + i    \* i-th is the k-th ever opened
                     IN  /\ store.files[i].seq = CeilDiv(k, 2)
                         /\ store.files[i].text <=> k % 2 = 0
  /\ <<store.bin, store.txt>> = IF sessionActive /\ Opens THEN <<n - 1, n>> ELSE <<0, 0>>

\* Over budget, nothing is left but the newest session's pair.
BudgetHeld ==
  store.total > MaxTotalBytes =>
    /\ Len(store.files) = 2
    /\ \A i \in 1..2 : store.files[i].seq = fileSeq

\* What a sequence of events says, symbol by symbol.
Content(events) ==
  LET upTo[k \in 0 .. Len(events)] ==
        IF k = 0 THEN <<>> ELSE upTo[k-1] \o Tagged(events[k].dir, events[k].data)
  IN  upTo[Len(events)]

\* Unless a drop was counted since the session started, its .bin followed by
\* the pending events is everything record() accepted in the session, in order.
SessionComplete ==
  Opens /\ fileSeq > 0 /\ store.drops = ledger.drops =>
    LET bin == store.files[Len(store.files) - 1].body
        pending == IF sessionActive THEN evRing ELSE <<>>
    IN  Content(bin \o pending) = ledger.taken

\* The offsets in a .txt walk its .bin from the header to the end without gap
\* or overlap, so the hexdump accounts for every byte after the header.
SidecarCoversBin ==
  \A i \in 2 .. Len(store.files) :
    store.files[i].text =>
      LET bin == store.files[i - 1]
          rows == store.files[i].body
          EndOf(k) == IF k = 0 THEN kCaptureHeaderSize ELSE rows[k].at + rows[k].bytes
      IN  /\ \A k \in DOMAIN rows : rows[k].at = EndOf(k - 1)
          /\ EndOf(Len(rows)) = FileBytes(bin)

\* A file only ever grows at its end, and only while its session runs: no step
\* writes into, shortens or reorders a closed capture that someone may download.
FilesAppendOnly ==
  [][\A i \in DOMAIN store.files, j \in DOMAIN store'.files :
       LET old == store.files[i]
           new == store'.files[j]
       IN  old.seq = new.seq /\ old.text = new.text =>
             /\ IsPrefix(old.body, new.body)
             /\ ~sessionActive \/ old.seq # fileSeq => old.body = new.body]_captureVars

\* An event that made it into the ring is not lost on its way into a file
\* (would_record() is "true when the caller's mode + current session state would
\* actually persist a record() call").
FlushNeverDrops == [][evRing' = <<>> => store'.drops = store.drops]_captureVars
=============================================================================
