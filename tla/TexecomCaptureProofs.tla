------------------------ MODULE TexecomCaptureProofs ------------------------
(***************************************************************************)
(* For every size, mode and number of connections and bytes: the bridge     *)
(* drives its capture as CaptureSpec says, so that everything proved of      *)
(* Capture holds in it, and offers it the whole conversation of a session.   *)
(***************************************************************************)
EXTENDS CaptureProofs, TexecomProofs

-----------------------------------------------------------------------------
(* The bridge implements CaptureSpec *)

\* What the pumps record are payloads.
LEMMA PanelBatchOK ==
  ASSUME TypeOK, WouldRecord,
         NEW n \in 0 .. Min({ChunkSize, arrived - drained}), n > 0
  PROVE  /\ n \in Nat /\ drained \in Nat /\ drained + n <= MaxPanelBytes
         /\ Bytes(Panel, drained, n) \in Payloads
<1>1. /\ arrived \in 0..MaxPanelBytes /\ drained \in 0..arrived
      /\ ChunkSize \in Nat /\ MaxPanelBytes \in Nat
  BY ConstantsOK DEF TypeOK, EnvTypeOK
<1>2. Min({ChunkSize, arrived - drained})
        = IF ChunkSize <= arrived - drained THEN ChunkSize ELSE arrived - drained
  BY <1>1, MinMaxOfTwo, SMT
<1>3. /\ n \in 1..ChunkSize /\ drained \in 0 .. MaxPanelBytes - n
      /\ n \in Nat /\ drained \in Nat /\ drained + n <= MaxPanelBytes
  BY <1>1, <1>2, SMT
<1>4. Mode # "None"
  BY DEF WouldRecord
<1>5. QED BY <1>3, <1>4, BatchAssumption

LEMMA ClientBatchOK ==
  ASSUME TypeOK, WouldRecord, Reading,
         NEW n \in 1 .. Min({Room, ChunkSize, Unread(clientSocket)})
  PROVE  /\ n \in Nat /\ clientSocket \in Conns
         /\ read[clientSocket] \in Nat /\ read[clientSocket] + n <= MaxClientBytes
         /\ Bytes(clientSocket, read[clientSocket], n) \in Payloads
<1>1. clientSocket \in Conns
  BY DEF Reading, InBridge, TypeOK, ControlTypeOK
<1>2. /\ sent[clientSocket] \in 0..MaxClientBytes /\ read[clientSocket] \in 0..MaxClientBytes
      /\ read[clientSocket] <= sent[clientSocket] /\ MaxClientBytes \in Nat
  BY <1>1, ConstantsOK DEF TypeOK, EnvTypeOK
<1>3. Room \in Nat /\ ChunkSize \in Nat /\ Unread(clientSocket) \in Nat
  <2>1. Len(tcpToUart) \in Nat /\ Len(tcpToUart) <= BufferSize
    BY LenProperties DEF TypeOK, RingsTypeOK
  <2>2. QED BY <1>2, <2>1, ConstantsOK, SMT DEF Room, Unread
<1>4. n \in Nat /\ 1 <= n /\ n <= ChunkSize /\ n <= Unread(clientSocket)
  BY <1>3, MinOfThree
<1>5. /\ n \in 1..ChunkSize /\ read[clientSocket] \in 0 .. MaxClientBytes - n
      /\ read[clientSocket] \in Nat /\ read[clientSocket] + n <= MaxClientBytes
  BY <1>2, <1>3, <1>4, SMT DEF Unread
<1>6. Mode # "None"
  BY DEF WouldRecord
<1>7. QED BY <1>1, <1>4, <1>5, <1>6, BatchAssumption

\* A session starts at the top of a tick, when the last one's capture_.loop() has left
\* nothing in the event ring.
RingEmptyAtAccept == phase \in {"boot", "accept"} => evRing = <<>>

LEMMA RingEmptyStep == RingEmptyAtAccept /\ [Next]_vars => RingEmptyAtAccept'
<1> SUFFICES ASSUME RingEmptyAtAccept, [Next]_vars, phase' \in {"boot", "accept"}
             PROVE  evRing' = <<>>
  BY DEF RingEmptyAtAccept
<1>1. CASE CaptureTick
  BY <1>1 DEF CaptureTick, CaptureLoop
<1>2. CASE Setup
  BY <1>2 DEF Setup, captureVars, RingEmptyAtAccept
<1>3. CASE UNCHANGED vars \/ Environment \/ Halted
  BY <1>3 DEF Environment, PanelSends, RetransmitTimeout, Connect, ClientSends, ClientLeaves,
              ClientVanishes, Halted, vars, captureVars, RingEmptyAtAccept
<1>4. ~(\/ OnShutdown \/ AcceptNothing \/ AcceptPending \/ PumpUart \/ SendNothing \/ PumpSend
        \/ SendError \/ SkipRead \/ PumpRead \/ ReadNothing \/ ReadEnds \/ DrainToUart)
  BY DEF OnShutdown, AcceptNothing, AcceptPending, RejectClient, PromoteClient, PumpUart,
         SendNothing, PumpSend, SendError, SkipRead, PumpRead, Reading, ReadNothing, ReadEnds,
         DrainToUart
<1>5. QED BY <1>1, <1>2, <1>3, <1>4 DEF Next, Loop

\* Every step of the bridge is one of Capture's, at a moment Capture allows it, or none.
LEMMA NextCapture ==
  SessionInv /\ RingEmptyAtAccept /\ [Next]_vars => [CaptureNext]_captureVars
<1> SUFFICES ASSUME SessionInv, RingEmptyAtAccept, [Next]_vars
             PROVE  CaptureNext \/ UNCHANGED captureVars
  OBVIOUS
<1> USE DEF SessionInv
<1>1. CASE PromoteClient
  <2>1. ~IsBridgeMode(session) /\ phase = "accept" /\ OnSessionStart
    BY <1>1, PromotedFromMonitor DEF PromoteClient
  <2>2. ~sessionActive /\ evRing = <<>>
    BY <2>1 DEF SessionInSync, RingEmptyAtAccept
  <2>3. QED BY <2>1, <2>2 DEF CaptureNext
<1>2. CASE PumpUart
  <2>1. PICK n \in 0 .. Min({ChunkSize, arrived - drained}) :
               IF n > 0 /\ WouldRecord THEN Record(0, Bytes(Panel, drained, n))
               ELSE UNCHANGED captureVars
    BY <1>2 DEF PumpUart
  <2>2. CASE n > 0 /\ WouldRecord
    <3>1. Bytes(Panel, drained, n) \in Payloads
      BY <2>2, PanelBatchOK
    <3>2. 0 \in 0..1
      BY SMT
    <3>3. QED BY <2>1, <2>2, <3>1, <3>2 DEF CaptureNext
  <2>3. QED BY <2>1, <2>2
<1>3. CASE PumpRead
  <2>1. PICK n \in 1 .. Min({Room, ChunkSize, Unread(clientSocket)}) :
               IF WouldRecord THEN Record(1, Bytes(clientSocket, read[clientSocket], n))
               ELSE UNCHANGED captureVars
    BY <1>3 DEF PumpRead
  <2>2. CASE WouldRecord
    <3>1. Bytes(clientSocket, read[clientSocket], n) \in Payloads
      BY <1>3, <2>2, ClientBatchOK DEF PumpRead
    <3>2. 1 \in 0..1
      BY SMT
    <3>3. QED BY <2>1, <2>2, <3>1, <3>2 DEF CaptureNext
  <2>3. QED BY <2>1, <2>2
<1>4. CASE SendError \/ ReadEnds
  <2>1. EndSession /\ InBridge /\ phase # "down"
    BY <1>4 DEF SendError, ReadEnds, Reading
  <2>2. IsBridgeMode(session) /\ session.active = activeClientId /\ sessionActive
    BY <2>1 DEF InBridge, SessionInSync
  <2>3. OnDisconnectResult(session, activeClientId) = "EnteredMonitor"
    BY <2>2 DEF OnDisconnectResult
  <2>4. OnSessionEnd
    BY <2>1, <2>3 DEF EndSession
  <2>5. QED BY <2>2, <2>4 DEF CaptureNext
<1>5. CASE CaptureTick
  BY <1>5 DEF CaptureTick, CaptureNext
<1>6. CASE \/ UNCHANGED vars \/ Setup \/ OnShutdown \/ AcceptNothing \/ RejectClient \/ SendNothing
           \/ PumpSend \/ SkipRead \/ ReadNothing \/ DrainToUart \/ Environment \/ Halted
  BY <1>6
  DEF Setup, OnShutdown, AcceptNothing, RejectClient, SendNothing, PumpSend, SkipRead,
      ReadNothing, DrainToUart, Environment, PanelSends, RetransmitTimeout, Connect, ClientSends,
      ClientLeaves, ClientVanishes, Halted, vars
<1>7. QED BY <1>1, <1>2, <1>3, <1>4, <1>5, <1>6 DEF Next, Loop, AcceptPending

\* The bridge drives its capture as Capture.tla assumes: sessions alternate, each starts on
\* an empty event ring, and nothing but payloads is recorded.
THEOREM BridgeDrivesCapture == Spec => CaptureSpec
<1>1. Init => CaptureInit /\ RingEmptyAtAccept
  BY DEF Init, CaptureInit, RingEmptyAtAccept
<1>2. Spec => []RingEmptyAtAccept
  BY <1>1, RingEmptyStep, PTL DEF Spec
<1>3. QED BY <1>1, <1>2, SessionInvariant, NextCapture, PTL DEF Spec, CaptureSpec

\* So a session of the bridge is recorded whole, or a drop was counted.
THEOREM BridgeSessionsComplete == Spec => []SessionComplete
BY BridgeDrivesCapture, CompletenessCorrect, PTL

LEMMA CaptureInvInBridge == Spec => []CapInv
BY BridgeDrivesCapture, CaptureInvariant, PTL

-----------------------------------------------------------------------------
(* What was recorded of one direction *)

\* What a recording's beginnings hold of one direction.
Sides(s, dir) ==
  CHOOSE g : g = [k \in 0 .. Len(s) |->
                    IF k = 0 THEN <<>>
                    ELSE IF s[k].dir = dir THEN Append(g[k-1], s[k].sym) ELSE g[k-1]]

LEMMA PartialSides ==
  ASSUME NEW s \in Seq(Tags), NEW dir
  PROVE  /\ Side(s, dir) = Sides(s, dir)[Len(s)]
         /\ Sides(s, dir)[0] = <<>>
         /\ \A k \in 1 .. Len(s) :
              Sides(s, dir)[k] = IF s[k].dir = dir THEN Append(Sides(s, dir)[k-1], s[k].sym)
                                 ELSE Sides(s, dir)[k-1]
         /\ \A k \in 0 .. Len(s) : Sides(s, dir)[k] \in Seq(Symbols)
<1> DEFINE T == Seq(Symbols)
           z == <<>>
           Next1(a, t) == IF t.dir = dir THEN Append(a, t.sym) ELSE a
           step == [a \in T |-> [t \in Tags |-> Next1(a, t)]]
<1>1. /\ step \in [T -> [Tags -> T]] /\ z \in T
      /\ \A a \in T, t \in Tags : step[a][t] = Next1(a, t) /\ Next1(a, t) \in T
  <2>1. \A a \in T, t \in Tags : Next1(a, t) \in T
    BY AppendProperties DEF Tags
  <2>2. z \in T
    BY EmptySeq
  <2> HIDE DEF T, Next1
  <2>3. QED BY <2>1, <2>2
<1> HIDE DEF step, T, z
<1>2. PICK f \in [0 .. Len(s) -> T] : IsRun(f, step, z, s)
  BY <1>1, RunExists
<1>3. Len(s) \in Nat /\ \A k \in 1 .. Len(s) : s[k] \in Tags
  BY LenProperties, ElementOfSeq
<1> HIDE DEF Next1
<1>4. f = [k \in 0 .. Len(s) |-> IF k = 0 THEN <<>> ELSE Next1(f[k-1], s[k])]
  <2>1. ASSUME NEW k \in 0 .. Len(s)
        PROVE  f[k] = IF k = 0 THEN <<>> ELSE Next1(f[k-1], s[k])
    <3>1. CASE k = 0
      BY <1>2, <3>1 DEF IsRun, z
    <3>2. CASE k # 0
      <4>1. k \in 1 .. Len(s) /\ k - 1 \in 0 .. Len(s)
        BY <1>3, <3>2, SMT
      <4>2. f[k-1] \in T /\ s[k] \in Tags
        BY <1>2, <1>3, <4>1
      <4>3. f[k] = step[f[k-1]][s[k]]
        BY <1>2, <4>1 DEF IsRun
      <4>4. QED BY <1>1, <3>2, <4>2, <4>3
    <3>3. QED BY <3>1, <3>2
  <2>2. QED BY <1>2, <2>1
<1> DEFINE g == Sides(s, dir)
<1>5. g = [k \in 0 .. Len(s) |-> IF k = 0 THEN <<>> ELSE Next1(g[k-1], s[k])]
  BY <1>4 DEF Sides, Next1
<1>6. Side(s, dir) = g[Len(s)]
  BY DEF Side, Sides
<1> HIDE DEF g
<1>7. g[0] = <<>> /\ \A k \in 1 .. Len(s) : g[k] = Next1(g[k-1], s[k])
  <2>1. 0 \in 0 .. Len(s) /\ \A k \in 1 .. Len(s) : k \in 0 .. Len(s) /\ k # 0
    BY <1>3, SMT
  <2>2. QED BY <1>5, <2>1
<1>8. \A k \in 0 .. Len(s) : g[k] \in T
  <2> DEFINE N == {k \in 0 .. Len(s) : g[k] \in T}
  <2>1. 0 \in N
    <3>1. 0 \in 0 .. Len(s)
      BY <1>3, SMT
    <3>2. QED BY <1>1, <1>7, <3>1 DEF z
  <2>2. ASSUME NEW k \in 1 .. Len(s), k - 1 \in N PROVE k \in N
    <3>1. k \in 0 .. Len(s)
      BY <1>3, SMT
    <3>2. g[k-1] \in T /\ s[k] \in Tags /\ g[k] = Next1(g[k-1], s[k])
      BY <1>3, <1>7, <2>2
    <3>3. QED BY <1>1, <3>1, <3>2
  <2>3. \A k \in 0 .. Len(s) : k \in N
    <3> HIDE DEF N
    <3>1. QED BY <1>3, <2>1, <2>2, InductionUpTo
  <2>4. QED BY <2>3
<1>9. QED BY <1>6, <1>7, <1>8 DEF g, T, Next1

LEMMA SideOfEmpty == ASSUME NEW dir PROVE Side(<<>>, dir) = <<>>
<1> DEFINE e == <<>>
<1>1. e \in Seq(Tags) /\ Len(e) = 0
  BY EmptySeq
<1> HIDE DEF e
<1>2. Side(e, dir) = Sides(e, dir)[Len(e)] /\ Sides(e, dir)[0] = <<>>
  BY <1>1, PartialSides, ZenonT(30)
<1>3. QED BY <1>1, <1>2 DEF e

\* Recording a batch adds it to its own direction and leaves the other alone.
LEMMA SideOfRecord ==
  ASSUME NEW s \in Seq(Tags), NEW d \in 0..1, NEW data \in Seq(Symbols), NEW dir
  PROVE  /\ Side(s, dir) \in Seq(Symbols)
         /\ Side(s \o Tagged(d, data), dir)
              = IF d = dir THEN Side(s, dir) \o data ELSE Side(s, dir)
<1> DEFINE b == Tagged(d, data)
           t == s \o b
           n == Len(s)
           m == Len(data)
           f == Sides(s, dir)
           h == Sides(t, dir)
           a == f[n]
<1>1. /\ n \in Nat /\ m \in Nat /\ \A k \in 1..m : data[k] \in Symbols
      /\ b \in Seq(Tags) /\ Len(b) = m /\ \A k \in 1..m : b[k] = [dir |-> d, sym |-> data[k]]
  BY LenProperties, ElementOfSeq, TaggedOK
<1> HIDE DEF b
<1>2. /\ t \in Seq(Tags) /\ Len(t) = n + m
      /\ \A k \in 1 .. n + m : t[k] = IF k <= n THEN s[k] ELSE b[k - n]
  <2>0. b \in Seq(Tags)
    BY <1>1
  <2>1. /\ t \in Seq(Tags) /\ Len(t) = Len(s) + Len(b)
        /\ \A k \in 1 .. Len(s) + Len(b) : t[k] = IF k <= Len(s) THEN s[k] ELSE b[k - Len(s)]
    BY <2>0, ConcatProperties
  <2> HIDE DEF t
  <2>2. QED BY <1>1, <2>1
<1> HIDE DEF t
<1>3. /\ Side(s, dir) = f[n] /\ f[0] = <<>> /\ f[n] \in Seq(Symbols)
      /\ \A k \in 1..n : f[k] = IF s[k].dir = dir THEN Append(f[k-1], s[k].sym) ELSE f[k-1]
  <2>1. n \in 0..n
    BY <1>1, SMT
  <2>2. QED BY <2>1, PartialSides
<1>4. /\ Side(t, dir) = h[n + m] /\ h[0] = <<>>
      /\ \A k \in 1 .. n + m :
           h[k] = IF t[k].dir = dir THEN Append(h[k-1], t[k].sym) ELSE h[k-1]
  <2>0. t \in Seq(Tags)
    BY <1>2
  <2>1. /\ Side(t, dir) = h[Len(t)] /\ h[0] = <<>>
        /\ \A k \in 1 .. Len(t) :
             h[k] = IF t[k].dir = dir THEN Append(h[k-1], t[k].sym) ELSE h[k-1]
    BY <2>0, PartialSides
  <2> HIDE DEF n, m, h
  <2>2. QED BY <1>2, <2>1
<1> HIDE DEF n, m, f, h
<1>5. \A k \in 0..n : h[k] = f[k]
  <2> DEFINE N == {k \in 0..n : h[k] = f[k]}
  <2>1. 0 \in N
    BY <1>1, <1>3, <1>4, SMT
  <2>2. ASSUME NEW k \in 1..n, k - 1 \in N PROVE k \in N
    <3>1. k \in 1 .. n + m /\ k <= n /\ k \in 0..n
      BY <1>1, SMT
    <3>2. QED BY <1>2, <1>3, <1>4, <2>2, <3>1
  <2>3. \A k \in 0..n : k \in N
    <3> HIDE DEF N
    <3>1. QED BY <1>1, <2>1, <2>2, InductionUpTo
  <2>4. QED BY <2>3
<1>6. /\ 0 \in 0..m /\ m \in 0..m /\ h[n + 0] = a /\ a \in Seq(Symbols) /\ Len(a) \in Nat
      /\ a = Side(s, dir)
  <2>1. n \in 0..n /\ n + 0 = n /\ 0 \in 0..m /\ m \in 0..m
    BY <1>1, SMT
  <2>2. QED BY <1>3, <1>5, <2>1, LenProperties
<1> HIDE DEF a
\* The k-th symbol of the batch is the k-th to be added, or passes by.
<1>7. ASSUME NEW k \in 1..m
      PROVE  h[n + k] = IF d = dir THEN Append(h[n + (k-1)], data[k]) ELSE h[n + (k-1)]
  <2>1. n + k \in 1 .. n + m /\ ~(n + k <= n) /\ (n + k) - n = k /\ (n + k) - 1 = n + (k - 1)
    BY <1>1, SMT
  <2>2. t[n + k] = [dir |-> d, sym |-> data[k]]
    BY <1>1, <1>2, <2>1
  <2>3. QED BY <1>4, <2>1, <2>2
<1>8. CASE d # dir
  <2> DEFINE N == {k \in 0..m : h[n + k] = a}
  <2>1. 0 \in N
    BY <1>6
  <2>2. ASSUME NEW k \in 1..m, k - 1 \in N PROVE k \in N
    <3>1. k \in 0..m
      BY <1>1, SMT
    <3>2. QED BY <1>7, <1>8, <2>2, <3>1
  <2>3. \A k \in 0..m : k \in N
    <3> HIDE DEF N
    <3>1. QED BY <1>1, <2>1, <2>2, InductionUpTo
  <2>4. QED BY <1>4, <1>6, <1>8, <2>3 DEF t, b
<1>9. CASE d = dir
  <2> DEFINE Longer(q, k) == /\ q \in Seq(Symbols) /\ Len(q) = Len(a) + k
                             /\ \A i \in 1 .. Len(a) + k :
                                  q[i] = IF i <= Len(a) THEN a[i] ELSE data[i - Len(a)]
             N == {k \in 0..m : Longer(h[n + k], k)}
  <2>1. 0 \in N
    <3>1. Len(a) + 0 = Len(a) /\ \A i \in 1 .. Len(a) : i <= Len(a)
      BY <1>6, SMT
    <3>2. QED BY <1>6, <3>1
  <2>2. ASSUME NEW k \in 1..m, k - 1 \in N PROVE k \in N
    <3> DEFINE q == h[n + (k-1)]
    <3>1. k \in 0..m /\ (Len(a) + (k - 1)) + 1 = Len(a) + k
      BY <1>1, <1>6, SMT
    <3>2. Longer(q, k - 1)
      BY <2>2
    <3>3. h[n + k] = Append(q, data[k]) /\ data[k] \in Symbols
      BY <1>1, <1>7, <1>9
    <3> HIDE DEF q
    <3>4. /\ Append(q, data[k]) \in Seq(Symbols)
          /\ Len(Append(q, data[k])) = Len(a) + k
          /\ \A i \in 1 .. Len(q) : Append(q, data[k])[i] = q[i]
          /\ Append(q, data[k])[Len(a) + k] = data[k]
      BY <3>1, <3>2, <3>3, AppendProperties
    <3>5. ASSUME NEW i \in 1 .. Len(a) + k
          PROVE  Append(q, data[k])[i] = IF i <= Len(a) THEN a[i] ELSE data[i - Len(a)]
      <4>1. CASE i \in 1 .. Len(a) + (k - 1)
        <5>1. i \in 1 .. Len(q)
          BY <3>2, <4>1
        <5>2. QED BY <3>2, <3>4, <4>1, <5>1
      <4>2. CASE i \notin 1 .. Len(a) + (k - 1)
        <5>1. i = Len(a) + k /\ ~(i <= Len(a)) /\ i - Len(a) = k
          <6>1. k \in Nat /\ k >= 1 /\ Len(a) \in Nat
            BY <1>1, <1>6
          <6>2. QED BY <4>2, <6>1, SMT
        <5>2. QED BY <3>4, <5>1
      <4>3. QED BY <4>1, <4>2
    <3>6. QED BY <3>1, <3>3, <3>4, <3>5
  <2>3. \A k \in 0..m : k \in N
    <3> HIDE DEF N
    <3>1. QED BY <1>1, <2>1, <2>2, InductionUpTo
  <2>4. Longer(h[n + m], m)
    BY <1>6, <2>3
  <2> HIDE DEF N
  <2> DEFINE q == h[n + m]
             r == a \o data
  <2>5. /\ q \in Seq(Symbols) /\ Len(q) = Len(a) + m
        /\ \A i \in 1 .. Len(a) + m : q[i] = IF i <= Len(a) THEN a[i] ELSE data[i - Len(a)]
    BY <2>4
  <2> HIDE DEF Longer, q
  <2>6. /\ r \in Seq(Symbols) /\ Len(r) = Len(a) + m
        /\ \A i \in 1 .. Len(a) + m : r[i] = IF i <= Len(a) THEN a[i] ELSE data[i - Len(a)]
    BY <1>6, ConcatProperties DEF m
  <2> HIDE DEF r
  <2>7. q = r
    BY <2>5, <2>6, SeqEqual
  <2>8. QED BY <1>4, <1>6, <1>9, <2>7 DEF q, r, t, b
<1>10. QED BY <1>6, <1>8, <1>9

-----------------------------------------------------------------------------
(* The capture is offered the whole conversation *)

LEMMA BytesJoin ==
  ASSUME NEW sender, NEW from \in Nat, NEW m \in Nat, NEW n \in Nat, NEW S,
         Bytes(sender, from, m) \in Seq(S), Bytes(sender, from + m, n) \in Seq(S)
  PROVE  Bytes(sender, from, m) \o Bytes(sender, from + m, n) = Bytes(sender, from, m + n)
<1> DEFINE E(i) == [conn |-> sender, n |-> from + i]
           a == Bytes(sender, from, m)
           b == Bytes(sender, from + m, n)
           c == Bytes(sender, from, m + n)
           s == a \o b
<1>1. /\ DOMAIN a = 1..m /\ \A i \in 1..m : a[i] = E(i)
      /\ DOMAIN b = 1..n /\ \A i \in 1..n : b[i] = [conn |-> sender, n |-> (from + m) + i]
      /\ c = [i \in 1 .. m + n |-> E(i)]
  BY DEF Bytes
<1>2. a \in Seq(S) /\ b \in Seq(S)
  OBVIOUS
<1> HIDE DEF a, b, c
<1>3. Len(a) = m /\ Len(b) = n
  <2>1. /\ Len(a) \in Nat /\ DOMAIN a = 1 .. Len(a) /\ Len(b) \in Nat /\ DOMAIN b = 1 .. Len(b)
    BY <1>2, LenProperties
  <2>2. 1 .. Len(a) = 1..m /\ 1 .. Len(b) = 1..n
    BY <1>1, <2>1
  <2>3. QED BY <2>1, <2>2, SameLength
<1>4. /\ s \in Seq(S) /\ Len(s) = Len(a) + Len(b)
      /\ \A i \in 1 .. Len(a) + Len(b) : s[i] = IF i <= Len(a) THEN a[i] ELSE b[i - Len(a)]
  BY <1>2, ConcatProperties
<1> HIDE DEF s, E
<1>5. ASSUME NEW i \in 1 .. m + n PROVE s[i] = E(i)
  <2>1. s[i] = IF i <= m THEN a[i] ELSE b[i - m]
    BY <1>3, <1>4
  <2>2. CASE i <= m
    <3>1. i \in 1..m
      BY <2>2, SMT
    <3>2. QED BY <1>1, <2>1, <2>2, <3>1
  <2>3. CASE ~(i <= m)
    <3>1. i - m \in 1..n /\ (from + m) + (i - m) = from + i
      BY <2>3, SMT
    <3>2. QED BY <1>1, <2>1, <2>3, <3>1 DEF E
  <2>4. QED BY <2>2, <2>3
<1>6. DOMAIN s = 1 .. m + n
  BY <1>3, <1>4, LenProperties
<1>7. s = [i \in 1 .. m + n |-> E(i)]
  <2>1. s = [i \in DOMAIN s |-> s[i]]
    BY <1>4
  <2>2. QED BY <1>5, <1>6, <2>1
<1>8. QED BY <1>1, <1>7 DEF s, a, b, c

\* What a session's capture was offered so far.
Offered ==
  /\ Side(ledger.taken, 0) = Bytes(Panel, mark.from, drained - mark.from)
  /\ Side(ledger.taken, 1) = Bytes(clientSocket, 0, read[clientSocket])

\* A session starts with nothing read of its client: nobody is read from before being
\* answered, and who was answered once does not come again.
SeenInv ==
  /\ \A c \in Conns \ Answered : read[c] = 0
  /\ clientSocket # NoSocket /\ Opens => Offered

\* While a client is connected in a mode that opens files, a batch is recorded.
LEMMA BatchIsRecorded ==
  ASSUME CapInv, SessionInv, Opens, clientSocket # NoSocket, phase # "down",
         NEW d \in 0..1, NEW data \in Payloads,
         IF WouldRecord THEN Record(d, data) ELSE UNCHANGED captureVars
  PROVE  /\ Side(ledger'.taken, d) = Side(ledger.taken, d) \o data
         /\ \A e : e # d => Side(ledger'.taken, e) = Side(ledger.taken, e)
         /\ data \in Seq(Symbols) /\ Side(ledger.taken, d) \in Seq(Symbols)
<1>1. sessionActive /\ WouldRecord /\ RecordResult
  BY DEF SessionInv, SessionInSync, Opens, WouldRecord, RecordResult
<1>2. ledger'.taken = ledger.taken \o Tagged(d, data)
  <2>1. ledger' = [ledger EXCEPT !.taken = @ \o Tagged(d, data)]
    BY <1>1 DEF Record
  <2>2. QED BY <2>1 DEF CapInv, LedgerOK
<1>3. ledger.taken \in Seq(Tags) /\ data \in Seq(Symbols)
  BY CaptureAssumption DEF CapInv, LedgerOK
<1> DEFINE taken == ledger.taken
<1>4. /\ Side(taken, d) \in Seq(Symbols)
      /\ Side(taken \o Tagged(d, data), d) = Side(taken, d) \o data
  BY <1>3, SideOfRecord
<1>5. ASSUME NEW e, e # d PROVE Side(taken \o Tagged(d, data), e) = Side(taken, e)
  BY <1>3, <1>5, SideOfRecord
<1>6. QED BY <1>2, <1>3, <1>4, <1>5

LEMMA OfferedAfterPumpUart ==
  ASSUME LinkInv, StreamInv, CapInv, SeenInv, PumpUart, clientSocket # NoSocket, Opens
  PROVE  Offered'
<1> USE DEF LinkInv
<1>1. PICK n \in 0 .. Min({ChunkSize, arrived - drained}) :
        /\ drained' = drained + n
        /\ IF n > 0 /\ WouldRecord THEN Record(0, Bytes(Panel, drained, n))
           ELSE UNCHANGED captureVars
  BY DEF PumpUart
<1>2. UNCHANGED <<clientSocket, read, mark>> /\ phase # "down"
  BY DEF PumpUart, historyVars
<1>3. Offered
  BY DEF SeenInv
<1>4. CASE n = 0
  <2>1. UNCHANGED ledger
    BY <1>1, <1>4, SMT DEF captureVars
  <2>2. drained' = drained
    BY <1>1, <1>4, SMT DEF SessionInv, TypeOK, EnvTypeOK
  <2>3. QED BY <1>2, <1>3, <2>1, <2>2 DEF Offered
<1>5. CASE n # 0
  <2>1. n > 0 /\ WouldRecord
    <3>1. n > 0
      BY <1>5, SMT
    <3>2. sessionActive
      BY <1>2 DEF SessionInv, SessionInSync
    <3>3. QED BY <3>1, <3>2 DEF WouldRecord, Opens
  <2>2. /\ n \in Nat /\ drained \in Nat /\ Bytes(Panel, drained, n) \in Payloads
    BY <2>1, PanelBatchOK DEF SessionInv
  <2> DEFINE data == Bytes(Panel, drained, n)
             seen == Bytes(Panel, mark.from, drained - mark.from)
  <2>3. /\ Side(ledger'.taken, 0) = Side(ledger.taken, 0) \o data
        /\ Side(ledger'.taken, 1) = Side(ledger.taken, 1)
        /\ data \in Seq(Symbols) /\ Side(ledger.taken, 0) \in Seq(Symbols)
    <3>1. 0 \in 0..1 /\ 1 # 0
      BY SMT
    <3>2. QED BY <1>1, <1>2, <2>1, <2>2, <3>1, BatchIsRecorded
  <2>4. Side(ledger.taken, 0) = seen
    BY <1>3 DEF Offered
  <2>5. mark.from \in Nat /\ mark.from <= drained
    BY DEF StreamInv, SessionInv, TypeOK, HistoryTypeOK
  <2>6. /\ drained - mark.from \in Nat /\ mark.from + (drained - mark.from) = drained
        /\ (drained - mark.from) + n = drained' - mark.from
    BY <1>1, <2>2, <2>5, SMT
  <2>7. seen \o data = Bytes(Panel, mark.from, (drained - mark.from) + n)
    <3> DEFINE from == mark.from
               m == drained - from
    <3>1. from \in Nat /\ m \in Nat /\ n \in Nat /\ from + m = drained
      BY <2>2, <2>5, <2>6
    <3>2. Bytes(Panel, from, m) \in Seq(Symbols) /\ Bytes(Panel, from + m, n) \in Seq(Symbols)
      BY <2>3, <2>4, <3>1
    <3> HIDE DEF from, m
    <3>3. Bytes(Panel, from, m) \o Bytes(Panel, from + m, n) = Bytes(Panel, from, m + n)
      BY <3>1, <3>2, BytesJoin
    <3>4. QED BY <3>1, <3>3 DEF from, m
  <2>8. QED BY <1>2, <1>3, <2>3, <2>4, <2>6, <2>7 DEF Offered
<1>6. QED BY <1>4, <1>5

LEMMA SeenAfterPumpRead ==
  ASSUME LinkInv, CapInv, SeenInv, PumpRead
  PROVE  SeenInv'
<1> USE DEF LinkInv
<1> DEFINE c == clientSocket
<1>1. PICK n \in 1 .. Min({Room, ChunkSize, Unread(c)}) :
        /\ read' = [read EXCEPT ![c] = @ + n]
        /\ IF WouldRecord THEN Record(1, Bytes(c, read[c], n)) ELSE UNCHANGED captureVars
  BY DEF PumpRead
<1>2. /\ UNCHANGED <<clientSocket, drained, mark, peer>> /\ phase # "down"
      /\ c # NoSocket /\ Reading /\ c \in Conns
  BY DEF PumpRead, Reading, InBridge, historyVars, SessionInv, TypeOK, ControlTypeOK
<1>3. read \in [Conns -> 0..MaxClientBytes]
  BY DEF SessionInv, TypeOK, EnvTypeOK
<1>4. \A d \in Conns \ Answered' : read'[d] = 0
  <2>1. Answered' = Answered /\ c \in Answered
    BY <1>2 DEF Answered
  <2>2. QED BY <1>1, <1>3, <2>1 DEF SeenInv
<1>5. ASSUME Opens PROVE Offered'
  <2>1. Offered
    BY <1>2, <1>5 DEF SeenInv
  <2>2. sessionActive /\ WouldRecord
    BY <1>2, <1>5 DEF SessionInv, SessionInSync, Opens, WouldRecord
  <2>3. /\ n \in Nat /\ read[c] \in Nat /\ Bytes(c, read[c], n) \in Payloads
    BY <1>2, <2>2, ClientBatchOK DEF SessionInv
  <2> DEFINE data == Bytes(c, read[c], n)
  <2>4. /\ Side(ledger'.taken, 1) = Side(ledger.taken, 1) \o data
        /\ Side(ledger'.taken, 0) = Side(ledger.taken, 0)
        /\ data \in Seq(Symbols) /\ Side(ledger.taken, 1) \in Seq(Symbols)
    <3>1. 1 \in 0..1 /\ 0 # 1
      BY SMT
    <3>2. QED BY <1>1, <1>2, <1>5, <2>3, <3>1, BatchIsRecorded
  <2>5. Side(ledger.taken, 1) = Bytes(c, 0, read[c])
    BY <2>1 DEF Offered
  <2>6. read'[c] = read[c] + n
    BY <1>1, <1>2, <1>3
  <2>7. Bytes(c, 0, read[c]) \o data = Bytes(c, 0, read[c] + n)
    <3> DEFINE m == read[c]
    <3>1. 0 + m = m /\ 0 \in Nat /\ m \in Nat
      BY <2>3, SMT
    <3>2. Bytes(c, 0, m) \in Seq(Symbols) /\ Bytes(c, 0 + m, n) \in Seq(Symbols)
      BY <2>4, <2>5, <3>1
    <3> HIDE DEF m
    <3>3. Bytes(c, 0, m) \o Bytes(c, 0 + m, n) = Bytes(c, 0, m + n)
      BY <2>3, <3>1, <3>2, BytesJoin
    <3>4. QED BY <3>1, <3>3 DEF m
  <2>8. QED BY <1>2, <2>1, <2>4, <2>5, <2>6, <2>7 DEF Offered
<1>6. Opens' <=> Opens
  BY DEF Opens
<1>7. QED BY <1>2, <1>4, <1>5, <1>6 DEF SeenInv

LEMMA SeenAfterPromote ==
  ASSUME LinkInv, SeenInv, PromoteClient
  PROVE  SeenInv'
<1> DEFINE c == Head(backlog)
<1>1. /\ clientSocket' = c /\ UNCHANGED <<peer, read, drained>> /\ mark'.from = drained
      /\ ledger'.taken = <<>> /\ clientSocket = NoSocket
  BY PromotedFromMonitor DEF PromoteClient, OnSessionStart, LinkInv
<1>2. c \in Conns /\ \A d \in Answered : d < c
  BY HeadOfBacklog DEF PromoteClient
<1>3. c \notin Answered
  BY <1>2, SMT DEF Conns
<1>4. read[c] = 0 /\ \A d \in Conns \ Answered : read[d] = 0
  BY <1>2, <1>3 DEF SeenInv
<1>5. Answered \subseteq Answered'
  <2>1. \A d \in Answered : d # NoSocket => peer[d] = "closed"
    BY <1>1 DEF Answered
  <2>2. \A d \in Answered : d \in Conns /\ d # NoSocket
    BY SMT DEF Answered, Conns, NoSocket
  <2>3. QED BY <1>1, <2>1, <2>2 DEF Answered
<1>6. \A k, s : Bytes(k, s, 0) = <<>>
  BY SMT DEF Bytes
<1>7. drained - drained = 0
  BY SMT DEF LinkInv, SessionInv, TypeOK, EnvTypeOK
<1>8. Side(<<>>, 0) = <<>> /\ Side(<<>>, 1) = <<>>
  BY SideOfEmpty
<1>9. Offered'
  BY <1>1, <1>4, <1>6, <1>7, <1>8 DEF Offered
<1>10. QED BY <1>1, <1>4, <1>5, <1>9 DEF SeenInv

LEMMA NextSeenInv ==
  LinkInv /\ StreamInv /\ CapInv /\ SeenInv /\ [Next]_vars => SeenInv'
<1> SUFFICES ASSUME LinkInv, StreamInv, CapInv, SeenInv, [Next]_vars PROVE SeenInv'
  OBVIOUS
<1>1. Opens' <=> Opens
  BY DEF Opens
<1>2. ASSUME Answered \subseteq Answered', UNCHANGED read,
             clientSocket' = NoSocket \/ UNCHANGED <<clientSocket, ledger, mark, drained>>
      PROVE  SeenInv'
  <2>1. \A c \in Conns \ Answered' : read'[c] = 0
    BY <1>2 DEF SeenInv
  <2>2. clientSocket' # NoSocket => UNCHANGED <<clientSocket, ledger, mark, drained>>
    BY <1>2
  <2>3. clientSocket' # NoSocket /\ Opens' => Offered'
    BY <1>1, <1>2, <2>2 DEF SeenInv, Offered
  <2>4. QED BY <2>1, <2>3 DEF SeenInv
<1>3. /\ peer \in [Conns -> PeerStates] /\ NoSocket \notin Conns
      /\ backlog # <<>> => Head(backlog) \in Conns
  <2>1. peer \in [Conns -> PeerStates] /\ backlog \in Seq(Conns)
    BY DEF LinkInv, SessionInv, TypeOK, EnvTypeOK
  <2>2. NoSocket \notin Conns
    BY SMT DEF Conns, NoSocket
  <2>3. QED BY <2>1, <2>2, HeadTailProperties
<1>4. CASE PromoteClient
  BY <1>4, SeenAfterPromote
<1>5. CASE PumpRead
  BY <1>5, SeenAfterPumpRead
<1>6. CASE PumpUart
  <2>1. UNCHANGED <<clientSocket, peer, read>>
    BY <1>6 DEF PumpUart
  <2>2. CASE clientSocket = NoSocket
    BY <1>2, <2>1, <2>2 DEF Answered
  <2>3. CASE clientSocket # NoSocket /\ Opens
    <3>1. Offered'
      BY <1>6, <2>3, OfferedAfterPumpUart
    <3>2. QED BY <2>1, <3>1 DEF SeenInv, Answered
  <2>4. CASE ~Opens
    BY <1>1, <2>1, <2>4 DEF SeenInv, Answered
  <2>5. QED BY <2>2, <2>3, <2>4
<1>7. CASE SendError \/ ReadEnds
  <2>1. /\ clientSocket' = NoSocket /\ UNCHANGED read
        /\ peer' = [peer EXCEPT ![clientSocket] = "closed"]
    BY <1>7 DEF SendError, ReadEnds, EndSession
  <2>2. Answered \subseteq Answered'
    BY <1>3, <2>1 DEF Answered
  <2>3. QED BY <1>2, <2>1, <2>2
<1>8. CASE OnShutdown
  <2>1. /\ clientSocket' = NoSocket /\ UNCHANGED read
        /\ peer' = [c \in Conns |-> IF c = clientSocket \/ c \in Range(backlog)
                                    THEN "closed" ELSE peer[c]]
    BY <1>8 DEF OnShutdown
  <2>2. Answered \subseteq Answered'
    BY <1>3, <2>1 DEF Answered
  <2>3. QED BY <1>2, <2>1, <2>2
<1>9. CASE RejectClient
  <2>1. /\ peer' = [peer EXCEPT ![Head(backlog)] = "closed"]
        /\ UNCHANGED <<clientSocket, ledger, mark, drained, read>> /\ backlog # <<>>
    BY <1>9 DEF RejectClient, historyVars, captureVars
  <2>2. Answered \subseteq Answered'
    BY <1>3, <2>1 DEF Answered
  <2>3. QED BY <1>2, <2>1, <2>2
<1>10. CASE Setup
  <2>1. UNCHANGED <<clientSocket, peer, read, ledger, mark, drained>>
    BY <1>10 DEF Setup, envVars, historyVars, captureVars
  <2>2. QED BY <1>2, <2>1 DEF Answered
<1>11. CASE PumpSend
  <2>1. /\ UNCHANGED <<clientSocket, read, ledger, mark, drained>>
        /\ clientSocket # NoSocket /\ peer[clientSocket] # "closed"
        /\ \A c \in Conns \ {clientSocket} : peer'[c] = peer[c]
    <3>1. /\ UNCHANGED <<clientSocket, read, ledger, mark, drained>> /\ clientSocket # NoSocket
          /\ peer' \in {peer, [peer EXCEPT ![clientSocket] = "unacked"]}
      BY <1>11 DEF PumpSend, InBridge, captureVars
    <3>2. QED BY <1>3, <3>1 DEF LinkInv
  <2>2. Answered \subseteq Answered'
    BY <2>1 DEF Answered
  <2>3. QED BY <1>2, <2>1, <2>2
<1>12. CASE CaptureTick
  <2>1. UNCHANGED <<clientSocket, peer, read, ledger, mark, drained>>
    BY <1>12 DEF CaptureTick, CaptureLoop, bridgeVars, envVars, historyVars
  <2>2. QED BY <1>2, <2>1 DEF Answered
<1>13. CASE \/ UNCHANGED vars \/ AcceptNothing \/ SendNothing \/ SkipRead \/ ReadNothing
            \/ DrainToUart \/ Halted \/ PanelSends \/ \E c \in Conns : ClientSends(c)
  <2>1. UNCHANGED <<clientSocket, peer, read, ledger, mark, drained>>
    BY <1>13
    DEF AcceptNothing, SendNothing, SkipRead, ReadNothing, DrainToUart, Halted, PanelSends,
        ClientSends, vars, bridgeVars, envVars, historyVars, captureVars
  <2>2. QED BY <1>2, <2>1 DEF Answered
<1>14. CASE RetransmitTimeout \/ \E c \in Conns : Connect(c) \/ ClientLeaves(c) \/ ClientVanishes(c)
  <2>1. /\ UNCHANGED <<clientSocket, read, ledger, mark, drained>>
        /\ \A d \in Conns : peer[d] = "closed" => peer'[d] = "closed"
    BY <1>3, <1>14
    DEF RetransmitTimeout, Connect, ClientLeaves, ClientVanishes, bridgeVars, historyVars,
        captureVars
  <2>2. Answered \subseteq Answered'
    BY <2>1 DEF Answered
  <2>3. QED BY <1>2, <2>1, <2>2
<1>15. QED
  BY <1>4, <1>5, <1>6, <1>7, <1>8, <1>9, <1>10, <1>11, <1>12, <1>13, <1>14
  DEF Next, Loop, AcceptPending, Environment

\* Every byte read from the client and every byte the panel sent since the accept has
\* been offered to the capture, each direction in order.
THEOREM ConversationSeen == Spec => []CaptureSeesSession
<1>1. Init => SeenInv
  BY DEF Init, SeenInv
<1>2. SeenInv => CaptureSeesSession
  BY DEF SeenInv, Offered, CaptureSeesSession, InBridge
<1>3. Spec => []StreamInv
  BY InitStreamInv, NextStreamInv, PTL DEF Spec
<1>4. QED
  BY <1>1, <1>2, <1>3, LinkInvariant, CaptureInvInBridge, NextSeenInv, PTL DEF Spec
=============================================================================
