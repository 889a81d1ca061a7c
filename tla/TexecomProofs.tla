--------------------------- MODULE TexecomProofs ---------------------------
(***************************************************************************)
(* For every buffer size, id width, backlog and number of connections and   *)
(* bytes: Texecom is well typed, the four records of "a client is connected"  *)
(* agree, and the bridge implements the serial line of SerialLink, so that    *)
(* neither direction loses its order, repeats a byte or carries one over to   *)
(* another client's turn.                                                  *)
(***************************************************************************)
EXTENDS Texecom, TLAPS, SequenceTheorems

-----------------------------------------------------------------------------
(* Helpers *)

\* Min and Max of two numbers, by cases.
LEMMA MinMaxOfTwo ==
  ASSUME NEW a \in Int, NEW b \in Int
  PROVE  /\ Min({a, b}) = IF a <= b THEN a ELSE b
         /\ Max({a, b}) = IF a <= b THEN b ELSE a
<1>1. ASSUME NEW m \in {a, b}, \A y \in {a, b} : m <= y
      PROVE  m = IF a <= b THEN a ELSE b
  BY <1>1, SMT
<1>2. ASSUME NEW m \in {a, b}, \A y \in {a, b} : m >= y
      PROVE  m = IF a <= b THEN b ELSE a
  BY <1>2, SMT
<1>3. \E m \in {a, b} : \A y \in {a, b} : m <= y
  BY SMT
<1>4. \E m \in {a, b} : \A y \in {a, b} : m >= y
  BY SMT
<1>5. Min({a, b}) \in {a, b} /\ \A y \in {a, b} : Min({a, b}) <= y
  BY <1>3 DEF Min
<1>6. Max({a, b}) \in {a, b} /\ \A y \in {a, b} : Max({a, b}) >= y
  BY <1>4 DEF Max
<1>7. QED BY <1>1, <1>2, <1>5, <1>6

\* The first k elements of a sequence.
LEMMA TakeProperties ==
  ASSUME NEW S, NEW s \in Seq(S), NEW k \in Nat
  PROVE  /\ Take(s, k) \in Seq(S)
         /\ Len(Take(s, k)) = IF k <= Len(s) THEN k ELSE Len(s)
         /\ \A i \in 1 .. Len(Take(s, k)) : Take(s, k)[i] = s[i]
<1> DEFINE m == IF k <= Len(s) THEN k ELSE Len(s)
<1>1. Min({k, Len(s)}) = m
  BY MinMaxOfTwo, LenProperties, SMT
<1>2. m \in 0 .. Len(s)
  BY LenProperties, SMT
<1>3. \A i \in 1..m : s[i] \in S
  BY <1>2, ElementOfSeq, LenProperties, SMT
<1>4. /\ SubSeq(s, 1, m) \in Seq(S)
      /\ Len(SubSeq(s, 1, m)) = m
      /\ \A i \in 1..m : SubSeq(s, 1, m)[i] = s[i]
  <2> HIDE DEF m
  <2>1. m \in Nat
    BY <1>2, LenProperties, SMT
  <2>2. /\ SubSeq(s, 1, m) \in Seq(S)
        /\ Len(SubSeq(s, 1, m)) = IF 1 <= m THEN m - 1 + 1 ELSE 0
        /\ \A i \in 1 .. m - 1 + 1 : SubSeq(s, 1, m)[i] = s[1 + i - 1]
    BY <1>3, <2>1, SubSeqProperties
  <2>3. QED BY <2>1, <2>2, SMT
<1>5. QED BY <1>1, <1>4 DEF Take

\* A sequence without its first k elements.
LEMMA DropProperties ==
  ASSUME NEW S, NEW s \in Seq(S), NEW k \in Nat
  PROVE  /\ Drop(s, k) \in Seq(S)
         /\ Len(Drop(s, k)) = IF k <= Len(s) THEN Len(s) - k ELSE 0
         /\ \A i \in 1 .. Len(Drop(s, k)) : Drop(s, k)[i] = s[i + k]
<1>1. Len(s) \in Nat
  BY LenProperties
<1>2. \A i \in k+1 .. Len(s) : s[i] \in S
  BY <1>1, ElementOfSeq, SMT
<1>3. /\ SubSeq(s, k + 1, Len(s)) \in Seq(S)
      /\ Len(SubSeq(s, k + 1, Len(s))) = IF k + 1 <= Len(s) THEN Len(s) - (k + 1) + 1 ELSE 0
      /\ \A i \in 1 .. Len(s) - (k + 1) + 1 : SubSeq(s, k + 1, Len(s))[i] = s[k + 1 + i - 1]
  BY <1>1, <1>2, SubSeqProperties
<1>4. Len(Drop(s, k)) = IF k <= Len(s) THEN Len(s) - k ELSE 0
  BY <1>1, <1>3, SMT DEF Drop
<1>5. ASSUME NEW i \in 1 .. Len(Drop(s, k)) PROVE Drop(s, k)[i] = s[i + k]
  <2>1. i \in 1 .. Len(s) - (k + 1) + 1 /\ k + 1 + i - 1 = i + k
    BY <1>1, <1>4, SMT
  <2>2. QED BY <1>3, <2>1 DEF Drop
<1>6. QED BY <1>3, <1>4, <1>5 DEF Drop

\* An id never wraps onto the reserved one.
LEMMA IdAfterInIds == ASSUME NEW id \in Ids PROVE IdAfter(id) \in Ids
<1>1. MaxId \in Nat \ {0}
  BY TexecomAssumption
<1>2. (id + 1) % (MaxId + 1) \in 0..MaxId
  BY <1>1, SMT DEF Ids
<1>3. QED BY <1>1, <1>2, SMT DEF IdAfter, Ids, kNoClient

LEMMA ConstantsOK ==
  /\ BufferSize \in Nat \ {0} /\ ChunkSize \in Nat \ {0} /\ StageSize \in Nat \ {0}
  /\ Backlog \in Nat \ {0} /\ MaxId \in Nat \ {0}
  /\ MaxConns \in Nat /\ MaxClientBytes \in Nat /\ MaxPanelBytes \in Nat
BY TexecomAssumption

\* What refilling the stage leaves in the stage and in the ring.
LEMMA RefillOK ==
  ASSUME RingsTypeOK
  PROVE  /\ Staged \in Seq(PanelBytes) /\ Len(Staged) <= StageSize
         /\ RingAfterRefill \in Seq(PanelBytes) /\ Len(RingAfterRefill) <= BufferSize
<1> USE DEF RingsTypeOK
<1>1. CASE sendStage # <<>>
  BY <1>1 DEF Staged, RingAfterRefill
<1>2. CASE sendStage = <<>>
  <2>1. StageSize \in Nat
    BY ConstantsOK
  <2>2. /\ Take(uartToTcp, StageSize) \in Seq(PanelBytes)
        /\ Len(Take(uartToTcp, StageSize)) <= StageSize
    BY <2>1, TakeProperties, LenProperties, SMT
  <2>3. /\ Drop(uartToTcp, StageSize) \in Seq(PanelBytes)
        /\ Len(Drop(uartToTcp, StageSize)) <= BufferSize
    <3>1. Len(uartToTcp) \in Nat /\ BufferSize \in Nat
      BY LenProperties, ConstantsOK
    <3>2. /\ Drop(uartToTcp, StageSize) \in Seq(PanelBytes)
          /\ Len(Drop(uartToTcp, StageSize))
               = IF StageSize <= Len(uartToTcp) THEN Len(uartToTcp) - StageSize ELSE 0
      BY <2>1, DropProperties
    <3>3. QED BY <2>1, <3>1, <3>2, SMT
  <2>4. QED BY <1>2, <2>2, <2>3 DEF Staged, RingAfterRefill
<1>3. QED BY <1>1, <1>2

-----------------------------------------------------------------------------
(* Type correctness *)

LEMMA InitTypeOK == Init => TypeOK
<1> SUFFICES ASSUME Init PROVE TypeOK
  OBVIOUS
<1> USE ConstantsOK
<1>1. ControlTypeOK
  BY SMT DEF Init, ControlTypeOK, Phases, SessionStates, Reset, Ids, kNoClient, NoSocket
<1>2. RingsTypeOK
  BY SMT DEF Init, RingsTypeOK
<1>3. EnvTypeOK
  BY SMT DEF Init, EnvTypeOK, PeerStates
<1>4. HistoryTypeOK
  BY SMT DEF Init, HistoryTypeOK
<1>5. QED BY <1>1, <1>2, <1>3, <1>4 DEF TypeOK

\* end_session_ keeps the control state and the connections well typed.
LEMMA EndSessionTypeOK ==
  ASSUME TypeOK, EndSession
  PROVE  /\ clientSocket' \in Conns \cup {NoSocket}
         /\ session' \in SessionStates(Ids)
         /\ activeClientId' \in Ids \cup {kNoClient}
         /\ peer' \in [Conns -> PeerStates]
         /\ sendStage' = <<>>
<1>1. clientSocket' = NoSocket /\ activeClientId' = kNoClient /\ sendStage' = <<>>
  BY DEF EndSession
<1>2. peer' \in [Conns -> PeerStates]
  BY DEF EndSession, TypeOK, EnvTypeOK, PeerStates
<1>3. session' \in SessionStates(Ids)
  BY DEF EndSession, TypeOK, ControlTypeOK, AfterDisconnect, Reset, SessionStates
<1>4. QED BY <1>1, <1>2, <1>3

\* A minimum of three numbers is none of them exceeded.
LEMMA MinOfThree ==
  ASSUME NEW a \in Nat, NEW b \in Nat, NEW c \in Nat, NEW n \in 1..Min({a, b, c})
  PROVE  n \in Nat /\ 1 <= n /\ n <= a /\ n <= b /\ n <= c
<1>1. \E m \in {a, b, c} : \A y \in {a, b, c} : m <= y
  BY SMT
<1>2. Min({a, b, c}) \in {a, b, c} /\ \A y \in {a, b, c} : Min({a, b, c}) <= y
  BY <1>1 DEF Min
<1> DEFINE m == Min({a, b, c})
<1>3. m \in Nat /\ m <= a /\ m <= b /\ m <= c /\ n \in 1..m
  BY <1>2
<1> HIDE DEF m
<1>4. QED BY <1>3, SMT

\* The bytes a pump reads in one call.
LEMMA BytesOK ==
  ASSUME NEW c \in Conns, NEW from \in Nat, NEW n \in Nat, from + n <= MaxClientBytes
  PROVE  Bytes(c, from, n) \in Seq(ClientBytes) /\ Len(Bytes(c, from, n)) = n
<1>1. \A i \in 1..n : [conn |-> c, n |-> from + i] \in ClientBytes
  BY ConstantsOK, SMT DEF ClientBytes
<1>2. QED BY <1>1, SMT DEF Bytes

LEMMA SetupTypeOK == TypeOK /\ Setup => TypeOK'
<1> SUFFICES ASSUME TypeOK, Setup PROVE TypeOK'
  OBVIOUS
<1> USE DEF Setup, TypeOK, envVars, historyVars
<1>1. ControlTypeOK'
  BY ConstantsOK, SMT DEF ControlTypeOK, Phases, SessionStates, Reset, Ids, kNoClient
<1>2. RingsTypeOK'
  BY ConstantsOK, SMT DEF RingsTypeOK
<1>3. EnvTypeOK' /\ HistoryTypeOK'
  BY DEF EnvTypeOK, HistoryTypeOK
<1>4. QED BY <1>1, <1>2, <1>3

LEMMA OnShutdownTypeOK == TypeOK /\ OnShutdown => TypeOK'
<1> SUFFICES ASSUME TypeOK, OnShutdown PROVE TypeOK'
  OBVIOUS
<1> USE DEF OnShutdown, TypeOK, historyVars
<1>1. ControlTypeOK' /\ RingsTypeOK' /\ HistoryTypeOK'
  BY DEF ControlTypeOK, Phases, RingsTypeOK, HistoryTypeOK
<1>2. EnvTypeOK'
  BY ConstantsOK, SMT DEF EnvTypeOK, PeerStates
<1>3. QED BY <1>1, <1>2

LEMMA RejectClientTypeOK == TypeOK /\ RejectClient => TypeOK'
<1> SUFFICES ASSUME TypeOK, RejectClient PROVE TypeOK'
  OBVIOUS
<1> USE DEF RejectClient, TypeOK, historyVars
<1>1. ControlTypeOK'
  BY IdAfterInIds DEF ControlTypeOK, Phases
<1>2. RingsTypeOK' /\ HistoryTypeOK'
  BY DEF RingsTypeOK, HistoryTypeOK
<1>3. backlog' \in Seq(Conns) /\ Len(backlog') <= Backlog
  BY ConstantsOK, HeadTailProperties, LenProperties, SMT DEF EnvTypeOK
<1>4. peer' \in [Conns -> PeerStates]
  BY DEF EnvTypeOK, PeerStates
<1>5. EnvTypeOK'
  BY <1>3, <1>4 DEF EnvTypeOK
<1>6. QED BY <1>1, <1>2, <1>5

LEMMA PromoteClientTypeOK == TypeOK /\ PromoteClient => TypeOK'
<1> SUFFICES ASSUME TypeOK, PromoteClient PROVE TypeOK'
  OBVIOUS
<1> USE DEF PromoteClient, TypeOK
<1>1. /\ Head(backlog) \in Conns
      /\ backlog' \in Seq(Conns) /\ Len(backlog') <= Backlog
  BY ConstantsOK, HeadTailProperties, LenProperties, SMT DEF EnvTypeOK
<1>2. session' \in SessionStates(Ids)
  BY DEF ControlTypeOK, AfterConnect, SessionStates
<1>3. ControlTypeOK'
  BY <1>1, <1>2, IdAfterInIds DEF ControlTypeOK, Phases
<1>4. RingsTypeOK'
  BY ConstantsOK, SMT DEF RingsTypeOK
<1>5. EnvTypeOK'
  BY <1>1 DEF EnvTypeOK
<1>6. HistoryTypeOK'
  <2>1. Len(delivered) \in Nat /\ drained \in Nat /\ uartDrops \in Nat
    BY LenProperties, SMT DEF HistoryTypeOK, EnvTypeOK, RingsTypeOK
  <2>2. QED BY <2>1 DEF HistoryTypeOK
<1>7. QED BY <1>3, <1>4, <1>5, <1>6

LEMMA PumpUartTypeOK == TypeOK /\ PumpUart => TypeOK'
<1> SUFFICES ASSUME TypeOK, PumpUart PROVE TypeOK'
  OBVIOUS
<1>1. PICK n \in 0 .. Min({ChunkSize, arrived - drained}) :
        LET pushed == uartToTcp \o [i \in 1..n |-> drained + i]
        IN  /\ uartToTcp' = Drop(pushed, Overflow(pushed))
            /\ uartDrops' = uartDrops + Overflow(pushed)
            /\ drained' = drained + n
  BY DEF PumpUart
<1> DEFINE batch == [i \in 1..n |-> drained + i]
           pushed == uartToTcp \o batch
           excess == Overflow(pushed)
<1>2. n \in Nat /\ drained + n <= arrived
  <2>1. /\ arrived \in 0..MaxPanelBytes /\ drained \in 0..arrived
        /\ ChunkSize \in Nat /\ MaxPanelBytes \in Nat
    BY ConstantsOK DEF TypeOK, EnvTypeOK
  <2>2. Min({ChunkSize, arrived - drained})
          = IF ChunkSize <= arrived - drained THEN ChunkSize ELSE arrived - drained
    BY <2>1, MinMaxOfTwo, SMT
  <2>3. QED BY <2>1, <2>2, SMT
<1>3. batch \in Seq(PanelBytes)
  <2>1. \A i \in 1..n : drained + i \in PanelBytes
    BY <1>2, ConstantsOK, SMT DEF TypeOK, EnvTypeOK, PanelBytes
  <2>2. QED BY <1>2, <2>1
<1>4. pushed \in Seq(PanelBytes) /\ Len(pushed) \in Nat
  <2>1. uartToTcp \in Seq(PanelBytes)
    BY DEF TypeOK, RingsTypeOK
  <2> HIDE DEF batch
  <2>2. QED BY <1>3, <2>1, ConcatProperties, LenProperties
<1>5. /\ uartToTcp' = Drop(pushed, excess)
      /\ uartDrops' = uartDrops + excess
      /\ drained' = drained + n
  BY <1>1
<1>6. excess \in Nat /\ Len(pushed) - excess <= BufferSize
  <2> HIDE DEF pushed
  <2>1. 0 \in Int /\ Len(pushed) - BufferSize \in Int
    BY <1>4, ConstantsOK, SMT
  <2>2. excess = IF 0 <= Len(pushed) - BufferSize THEN Len(pushed) - BufferSize ELSE 0
    BY <2>1, MinMaxOfTwo DEF Overflow
  <2>3. QED BY <1>4, <2>2, ConstantsOK, SMT
<1>7. uartToTcp' \in Seq(PanelBytes) /\ Len(uartToTcp') <= BufferSize
  <2> HIDE DEF pushed, excess
  <2>1. /\ Drop(pushed, excess) \in Seq(PanelBytes)
        /\ Len(Drop(pushed, excess))
             = IF excess <= Len(pushed) THEN Len(pushed) - excess ELSE 0
    BY <1>4, <1>6, DropProperties
  <2>2. QED BY <1>4, <1>5, <1>6, <2>1, ConstantsOK, SMT
<1>8. RingsTypeOK'
  <2> HIDE DEF pushed, excess
  <2>1. uartDrops' \in Nat
    BY <1>5, <1>6, SMT DEF TypeOK, RingsTypeOK
  <2>2. QED BY <1>7, <2>1 DEF PumpUart, TypeOK, RingsTypeOK
<1>9. EnvTypeOK'
  <2>1. drained' \in 0..arrived
    BY <1>2, <1>5, SMT DEF TypeOK, EnvTypeOK
  <2>2. QED BY <2>1 DEF PumpUart, TypeOK, EnvTypeOK
<1>10. ControlTypeOK' /\ HistoryTypeOK'
  BY DEF PumpUart, TypeOK, ControlTypeOK, HistoryTypeOK, historyVars, Phases
<1>11. QED BY <1>8, <1>9, <1>10 DEF TypeOK

LEMMA PumpSendTypeOK == TypeOK /\ PumpSend => TypeOK'
<1> SUFFICES ASSUME TypeOK, PumpSend PROVE TypeOK'
  OBVIOUS
<1>1. PICK k \in 0 .. Len(Staged) :
        /\ sendStage' = Drop(Staged, k)
        /\ delivered' = delivered \o
             [i \in 1..k |-> [conn |-> clientSocket, byte |-> Staged[i]]]
        /\ phase' = IF k = Len(Staged) THEN "send" ELSE "read"
        /\ peer' = IF k > 0 /\ peer[clientSocket] = "gone"
                   THEN [peer EXCEPT ![clientSocket] = "unacked"] ELSE peer
  BY DEF PumpSend
<1>2. /\ Staged \in Seq(PanelBytes) /\ Len(Staged) <= StageSize
      /\ RingAfterRefill \in Seq(PanelBytes) /\ Len(RingAfterRefill) <= BufferSize
      /\ Len(Staged) \in Nat /\ k \in Nat /\ k <= Len(Staged) /\ StageSize \in Nat
  BY RefillOK, LenProperties, ConstantsOK, SMT DEF TypeOK
<1>3. sendStage' \in Seq(PanelBytes) /\ Len(sendStage') <= StageSize
  <2>1. /\ Drop(Staged, k) \in Seq(PanelBytes)
        /\ Len(Drop(Staged, k)) = IF k <= Len(Staged) THEN Len(Staged) - k ELSE 0
    BY <1>2, DropProperties
  <2>2. QED BY <1>1, <1>2, <2>1, SMT
<1>4. RingsTypeOK'
  BY <1>2, <1>3 DEF PumpSend, TypeOK, RingsTypeOK
<1>5. clientSocket \in Conns
  BY DEF PumpSend, InBridge, TypeOK, ControlTypeOK
<1> DEFINE accepted == [i \in 1..k |-> [conn |-> clientSocket, byte |-> Staged[i]]]
<1>6. accepted \in Seq(Deliveries)
  <2>1. \A i \in 1..k : Staged[i] \in PanelBytes
    BY <1>2, ElementOfSeq, SMT
  <2>2. \A i \in 1..k : [conn |-> clientSocket, byte |-> Staged[i]] \in Deliveries
    BY <1>5, <2>1 DEF Deliveries
  <2>3. QED BY <1>2, <2>2
<1>7. HistoryTypeOK'
  <2>1. delivered' = delivered \o accepted /\ UNCHANGED <<written, mark>>
    BY <1>1 DEF PumpSend
  <2> HIDE DEF accepted
  <2>2. delivered' \in Seq(Deliveries)
    BY <1>6, <2>1, ConcatProperties DEF TypeOK, HistoryTypeOK
  <2>3. QED BY <2>1, <2>2 DEF TypeOK, HistoryTypeOK
<1>8. ControlTypeOK'
  BY <1>1 DEF PumpSend, TypeOK, ControlTypeOK, Phases
<1>9. EnvTypeOK'
  <2>1. peer' \in [Conns -> PeerStates]
    BY <1>1 DEF TypeOK, EnvTypeOK, PeerStates
  <2>2. QED BY <2>1 DEF PumpSend, TypeOK, EnvTypeOK
<1>10. QED BY <1>4, <1>7, <1>8, <1>9 DEF TypeOK

LEMMA SessionEndsTypeOK == TypeOK /\ (SendError \/ ReadEnds) => TypeOK'
<1> SUFFICES ASSUME TypeOK, SendError \/ ReadEnds PROVE TypeOK'
  OBVIOUS
<1>1. EndSession
  BY DEF SendError, ReadEnds
<1>2. /\ clientSocket' \in Conns \cup {NoSocket}
      /\ session' \in SessionStates(Ids)
      /\ activeClientId' \in Ids \cup {kNoClient}
      /\ peer' \in [Conns -> PeerStates]
      /\ sendStage' = <<>>
  BY <1>1, EndSessionTypeOK
<1>3. ControlTypeOK'
  BY <1>2 DEF SendError, ReadEnds, TypeOK, ControlTypeOK, Phases
<1>4. RingsTypeOK'
  <2>1. sendStage' \in Seq(PanelBytes) /\ Len(sendStage') <= StageSize
    BY <1>2, ConstantsOK, SMT
  <2>2. uartToTcp' \in Seq(PanelBytes) /\ Len(uartToTcp') <= BufferSize
    BY RefillOK DEF SendError, ReadEnds, TypeOK, RingsTypeOK
  <2>3. QED BY <2>1, <2>2 DEF SendError, ReadEnds, TypeOK, RingsTypeOK
<1>5. EnvTypeOK' /\ HistoryTypeOK'
  BY <1>2 DEF SendError, ReadEnds, TypeOK, EnvTypeOK, HistoryTypeOK, historyVars
<1>6. QED BY <1>3, <1>4, <1>5 DEF TypeOK

LEMMA PumpReadTypeOK == TypeOK /\ PumpRead => TypeOK'
<1> SUFFICES ASSUME TypeOK, PumpRead PROVE TypeOK'
  OBVIOUS
<1>1. PICK n \in 1 .. Min({Room, ChunkSize, Unread(clientSocket)}) :
        /\ tcpToUart'
             = Take(tcpToUart \o Bytes(clientSocket, read[clientSocket], n), BufferSize)
        /\ read' = [read EXCEPT ![clientSocket] = @ + n]
  BY DEF PumpRead
<1>2. clientSocket \in Conns
  BY DEF PumpRead, Reading, InBridge, TypeOK, ControlTypeOK
<1>3. /\ sent[clientSocket] \in 0..MaxClientBytes /\ read[clientSocket] \in 0..MaxClientBytes
      /\ read[clientSocket] <= sent[clientSocket] /\ MaxClientBytes \in Nat
  BY <1>2, ConstantsOK DEF TypeOK, EnvTypeOK
<1>4. Room \in Nat /\ ChunkSize \in Nat /\ Unread(clientSocket) \in Nat
  BY <1>3, ConstantsOK, LenProperties, SMT DEF TypeOK, RingsTypeOK, Room, Unread
<1>5. n \in Nat /\ n <= Unread(clientSocket)
  BY <1>4, MinOfThree
<1>6. /\ read[clientSocket] \in Nat
      /\ read[clientSocket] + n <= sent[clientSocket]
      /\ read[clientSocket] + n <= MaxClientBytes
  BY <1>3, <1>5, SMT DEF Unread
<1> DEFINE bytes == Bytes(clientSocket, read[clientSocket], n)
<1>7. bytes \in Seq(ClientBytes)
  BY <1>2, <1>5, <1>6, BytesOK
<1>8. tcpToUart' \in Seq(ClientBytes) /\ Len(tcpToUart') <= BufferSize
  <2> HIDE DEF bytes
  <2>1. tcpToUart \o bytes \in Seq(ClientBytes)
    BY <1>7, ConcatProperties DEF TypeOK, RingsTypeOK
  <2>2. /\ Take(tcpToUart \o bytes, BufferSize) \in Seq(ClientBytes)
        /\ Len(Take(tcpToUart \o bytes, BufferSize)) <= BufferSize
    <3> DEFINE all == tcpToUart \o bytes
    <3> HIDE DEF all
    <3>1. all \in Seq(ClientBytes)
      BY <2>1 DEF all
    <3>2. Len(all) \in Nat /\ BufferSize \in Nat
      BY <3>1, LenProperties, ConstantsOK
    <3>3. /\ Take(all, BufferSize) \in Seq(ClientBytes)
          /\ Len(Take(all, BufferSize)) = IF BufferSize <= Len(all) THEN BufferSize ELSE Len(all)
      BY <3>1, <3>2, TakeProperties
    <3>4. Len(Take(all, BufferSize)) <= BufferSize
      BY <3>2, <3>3, SMT
    <3>5. QED BY <3>3, <3>4 DEF all
  <2>3. QED BY <1>1, <2>2 DEF bytes
<1>9. RingsTypeOK'
  BY <1>8 DEF PumpRead, TypeOK, RingsTypeOK
<1>10. EnvTypeOK'
  <2>1. read[clientSocket] + n \in 0..MaxClientBytes
    BY <1>5, <1>6, <1>3, SMT
  <2>2. read' \in [Conns -> 0..MaxClientBytes]
    BY <1>1, <2>1 DEF TypeOK, EnvTypeOK
  <2>3. ASSUME NEW c \in Conns PROVE read'[c] <= sent[c]
    BY <1>1, <1>6 DEF TypeOK, EnvTypeOK
  <2>4. QED BY <2>2, <2>3 DEF PumpRead, TypeOK, EnvTypeOK
<1>11. ControlTypeOK' /\ HistoryTypeOK'
  BY DEF PumpRead, TypeOK, ControlTypeOK, HistoryTypeOK, historyVars
<1>12. QED BY <1>9, <1>10, <1>11 DEF TypeOK

LEMMA DrainToUartTypeOK == TypeOK /\ DrainToUart => TypeOK'
<1> SUFFICES ASSUME TypeOK, DrainToUart PROVE TypeOK'
  OBVIOUS
<1> USE DEF DrainToUart, TypeOK, envVars
<1>1. RingsTypeOK'
  BY ConstantsOK, SMT DEF RingsTypeOK
<1>2. written' \in Seq(ClientBytes)
  BY ConcatProperties DEF RingsTypeOK, HistoryTypeOK
<1>3. ControlTypeOK' /\ EnvTypeOK' /\ HistoryTypeOK'
  BY <1>2 DEF ControlTypeOK, EnvTypeOK, HistoryTypeOK, Phases
<1>4. QED BY <1>1, <1>3

\* The steps that move only to the next call of loop().
LEMMA IdleStepTypeOK ==
  TypeOK /\ (AcceptNothing \/ SendNothing \/ SkipRead \/ ReadNothing \/ CaptureTick) => TypeOK'
BY DEF TypeOK, AcceptNothing, SendNothing, SkipRead, ReadNothing, CaptureTick, bridgeVars,
       envVars, historyVars, ControlTypeOK, RingsTypeOK, EnvTypeOK, HistoryTypeOK, Phases

LEMMA EnvironmentTypeOK == TypeOK /\ Environment => TypeOK'
<1> SUFFICES ASSUME TypeOK, Environment PROVE TypeOK'
  OBVIOUS
<1>1. UNCHANGED <<phase, bridgeVars, historyVars, drained, read>>
  BY DEF Environment, PanelSends, Connect, ClientSends, ClientLeaves, ClientVanishes,
         RetransmitTimeout
<1>2. ControlTypeOK' /\ RingsTypeOK' /\ HistoryTypeOK'
  BY <1>1 DEF TypeOK, ControlTypeOK, RingsTypeOK, HistoryTypeOK, bridgeVars, historyVars
<1>3. CASE PanelSends
  <2>1. arrived' \in 0..MaxPanelBytes /\ drained' \in 0..arrived'
    BY <1>1, <1>3, ConstantsOK, SMT DEF PanelSends, TypeOK, EnvTypeOK
  <2>2. QED BY <1>2, <1>3, <2>1 DEF PanelSends, TypeOK, EnvTypeOK
<1>4. ASSUME NEW c \in Conns, Connect(c) PROVE TypeOK'
  <2>1. backlog' \in Seq(Conns) /\ Len(backlog') <= Backlog
    BY <1>4, ConstantsOK, AppendProperties, LenProperties, SMT DEF Connect, TypeOK, EnvTypeOK
  <2>2. peer' \in [Conns -> PeerStates]
    BY <1>4 DEF Connect, TypeOK, EnvTypeOK, PeerStates
  <2>3. QED BY <1>2, <1>4, <2>1, <2>2 DEF Connect, TypeOK, EnvTypeOK
<1>5. ASSUME NEW c \in Conns, ClientSends(c) PROVE TypeOK'
  <2>1. /\ sent[c] + 1 \in 0..MaxClientBytes
        /\ read[c] <= sent[c] + 1
    BY <1>5, ConstantsOK, SMT DEF ClientSends, TypeOK, EnvTypeOK
  <2>2. sent' \in [Conns -> 0..MaxClientBytes]
    BY <1>5, <2>1 DEF ClientSends, TypeOK, EnvTypeOK
  <2>3. \A d \in Conns : read[d] <= sent'[d]
    BY <1>5, <2>1 DEF ClientSends, TypeOK, EnvTypeOK
  <2>4. QED BY <1>2, <1>5, <2>2, <2>3 DEF ClientSends, TypeOK, EnvTypeOK
<1>6. ASSUME NEW c \in Conns, ClientLeaves(c) PROVE TypeOK'
  BY <1>2, <1>6 DEF ClientLeaves, TypeOK, EnvTypeOK, PeerStates
<1>7. ASSUME NEW c \in Conns, ClientVanishes(c) PROVE TypeOK'
  <2>1. peer' \in [Conns -> PeerStates]
    BY <1>7 DEF ClientVanishes, TypeOK, EnvTypeOK, PeerStates
  <2>2. QED BY <1>2, <1>7, <2>1 DEF ClientVanishes, TypeOK, EnvTypeOK
<1>8. CASE RetransmitTimeout
  BY <1>2, <1>8 DEF RetransmitTimeout, TypeOK, EnvTypeOK, PeerStates
<1>9. QED BY <1>3, <1>4, <1>5, <1>6, <1>7, <1>8 DEF Environment

LEMMA NextTypeOK == TypeOK /\ [Next]_vars => TypeOK'
<1>1. TypeOK /\ UNCHANGED vars => TypeOK'
  BY DEF vars, bridgeVars, envVars, historyVars, TypeOK, ControlTypeOK, RingsTypeOK, EnvTypeOK,
         HistoryTypeOK
<1>2. QED
  BY <1>1, SetupTypeOK, OnShutdownTypeOK, RejectClientTypeOK, PromoteClientTypeOK, PumpUartTypeOK,
     PumpSendTypeOK, SessionEndsTypeOK, PumpReadTypeOK, DrainToUartTypeOK, IdleStepTypeOK,
     EnvironmentTypeOK
  DEF Next, Loop, AcceptPending, Halted

\* Every variable keeps its type, which for the rings, the stage and the backlog
\* includes that none ever holds more than its array has room for.
THEOREM TypeCorrect == Spec => []TypeOK
BY InitTypeOK, NextTypeOK, PTL DEF Spec

-----------------------------------------------------------------------------
(* The session *)

\* The records agree and no socket leaks.  Neither is inductive alone: a promotion
\* overwrites clientSocket, so it leaks nothing only because a machine that does not
\* reject has no socket; and setup() resets the machine without looking at the socket.
SessionInv ==
  /\ TypeOK
  /\ SessionInSync
  /\ NoLeakedSocket
  /\ phase = "boot" => clientSocket = NoSocket

LEMMA InitSessionInv == Init => SessionInv
<1> SUFFICES ASSUME Init PROVE SessionInv
  OBVIOUS
<1>1. TypeOK
  BY InitTypeOK
<1>2. SessionInSync
  BY DEF Init, CaptureInit, SessionInSync, IsBridgeMode, Reset, kNoClient, NoSocket
<1>3. NoLeakedSocket
  BY DEF Init, NoLeakedSocket
<1>4. QED BY <1>1, <1>2, <1>3 DEF Init, SessionInv

\* The capture learns of a session from the bridge alone.
LEMMA CaptureKeepsSession ==
  /\ UNCHANGED captureVars => UNCHANGED sessionActive
  /\ CaptureLoop => UNCHANGED sessionActive
  /\ \A dir, d : Record(dir, d) => UNCHANGED sessionActive
BY DEF captureVars, CaptureLoop, Record

\* A client that is not turned away meets a machine without a client.
LEMMA PromotedFromMonitor ==
  ASSUME SessionInv, PromoteClient
  PROVE  /\ nextClientId # kNoClient
         /\ ~IsBridgeMode(session) /\ clientSocket = NoSocket
         /\ session' = [mode |-> "Bridge", active |-> nextClientId]
<1>1. nextClientId # kNoClient
  BY SMT DEF SessionInv, TypeOK, ControlTypeOK, Ids, kNoClient
<1>2. ~IsBridgeMode(session)
  BY <1>1 DEF PromoteClient, OnConnectResult
<1>3. clientSocket = NoSocket
  BY <1>2 DEF PromoteClient, SessionInv, SessionInSync
<1>4. OnConnectResult(session, nextClientId) = "EnteredBridge"
  BY <1>1, <1>2 DEF OnConnectResult
<1>5. session' = [mode |-> "Bridge", active |-> nextClientId]
  BY <1>4 DEF PromoteClient, AfterConnect
<1>6. QED BY <1>1, <1>2, <1>3, <1>5

\* end_session_ finds all the records set and clears them all.
LEMMA EndSessionClears ==
  ASSUME SessionInv, EndSession, InBridge, phase # "down"
  PROVE  /\ session' = Reset /\ clientSocket' = NoSocket /\ activeClientId' = kNoClient
         /\ sendStage' = <<>> /\ sessionActive' = FALSE
<1>1. IsBridgeMode(session) /\ session.active = activeClientId
  BY DEF InBridge, SessionInv, SessionInSync
<1>2. OnDisconnectResult(session, activeClientId) = "EnteredMonitor"
  BY <1>1 DEF OnDisconnectResult
<1>3. QED BY <1>2 DEF EndSession, AfterDisconnect, OnSessionEnd

LEMMA SessionInSyncStep == SessionInv /\ Next => SessionInSync'
<1> SUFFICES ASSUME SessionInv, Next PROVE SessionInSync'
  OBVIOUS
<1> USE DEF SessionInv
<1>1. CASE Setup
  BY <1>1, CaptureKeepsSession
  DEF Setup, SessionInSync, IsBridgeMode, Reset
<1>2. CASE PromoteClient
  <2>1. Head(backlog) # NoSocket
    <3>1. Head(backlog) \in Conns
      BY <1>2, HeadTailProperties DEF PromoteClient, TypeOK, EnvTypeOK
    <3>2. QED BY <3>1, SMT DEF Conns, NoSocket
  <2>2. QED
    BY <1>2, <2>1, PromotedFromMonitor
    DEF PromoteClient, OnSessionStart, SessionInSync, IsBridgeMode
<1>3. CASE SendError \/ ReadEnds
  <2>1. EndSession /\ InBridge /\ phase # "down"
    BY <1>3 DEF SendError, ReadEnds, Reading
  <2>2. /\ session' = Reset /\ clientSocket' = NoSocket /\ activeClientId' = kNoClient
        /\ sendStage' = <<>> /\ sessionActive' = FALSE
    BY <2>1, EndSessionClears
  <2>3. session'.mode # "Bridge" /\ session'.active = kNoClient
    BY <2>2 DEF Reset
  <2>4. QED BY <2>2, <2>3 DEF SessionInSync, IsBridgeMode
<1>4. CASE PumpSend
  BY <1>4, CaptureKeepsSession DEF PumpSend, InBridge, SessionInSync, IsBridgeMode
<1>5. CASE OnShutdown
  BY <1>5 DEF OnShutdown, SessionInSync
<1>6. CASE RejectClient \/ AcceptNothing \/ PumpUart \/ SendNothing \/ SkipRead \/ PumpRead
             \/ ReadNothing \/ DrainToUart \/ CaptureTick \/ Environment \/ Halted
  <2>1. UNCHANGED <<clientSocket, session, activeClientId, sendStage, sessionActive>>
    BY <1>6, CaptureKeepsSession
    DEF RejectClient, AcceptNothing, PumpUart, SendNothing, SkipRead, PumpRead, ReadNothing,
        DrainToUart, CaptureTick, Environment, PanelSends, Connect, ClientSends, ClientLeaves,
        ClientVanishes, RetransmitTimeout, Halted, vars, bridgeVars
  <2>2. phase' # "down" => phase # "down"
    BY <1>6
    DEF RejectClient, AcceptNothing, PumpUart, SendNothing, SkipRead, PumpRead, ReadNothing,
        DrainToUart, CaptureTick, Environment, PanelSends, Connect, ClientSends, ClientLeaves,
        ClientVanishes, RetransmitTimeout, Halted, vars, Reading
  <2>3. QED BY <2>1, <2>2 DEF SessionInSync, IsBridgeMode
<1>7. QED BY <1>1, <1>2, <1>3, <1>4, <1>5, <1>6 DEF Next, Loop, AcceptPending

\* Taking the first connection off the backlog leaves the others in it.
LEMMA RangeOfTail ==
  ASSUME NEW S, NEW q \in Seq(S), q # <<>>
  PROVE  \A x \in Range(q) : x = Head(q) \/ x \in Range(Tail(q))
<1> SUFFICES ASSUME NEW i \in 1 .. Len(q), q[i] # Head(q) PROVE q[i] \in Range(Tail(q))
  BY LenProperties DEF Range
<1>1. i - 1 \in 1 .. Len(Tail(q)) /\ Tail(q)[i - 1] = q[i]
  BY HeadTailProperties, LenProperties, SMT
<1>2. QED BY <1>1, HeadTailProperties, LenProperties DEF Range

LEMMA NoLeakedSocketStep == SessionInv /\ Next => NoLeakedSocket'
<1> SUFFICES ASSUME SessionInv, Next,
                    NEW c \in Conns, peer'[c] \notin {"idle", "closed"}
             PROVE  c = clientSocket' \/ c \in Range(backlog')
  BY DEF NoLeakedSocket
<1> USE DEF SessionInv
<1>1. backlog \in Seq(Conns) /\ peer \in [Conns -> PeerStates]
  BY DEF TypeOK, EnvTypeOK
<1>2. CASE OnShutdown
  <2>1. c # clientSocket /\ c \notin Range(backlog) /\ peer'[c] = peer[c]
    BY <1>2 DEF OnShutdown
  <2>2. QED BY <2>1 DEF NoLeakedSocket
<1>3. CASE RejectClient
  <2>1. c # Head(backlog) /\ peer'[c] = peer[c]
    BY <1>1, <1>3 DEF RejectClient
  <2>2. QED BY <1>1, <1>3, <2>1, RangeOfTail DEF RejectClient, NoLeakedSocket
<1>4. CASE PromoteClient
  <2>1. c # clientSocket
    BY <1>4, PromotedFromMonitor, SMT DEF Conns, NoSocket
  <2>2. c \in Range(backlog)
    BY <1>4, <2>1 DEF PromoteClient, NoLeakedSocket
  <2>3. QED BY <1>1, <1>4, <2>2, RangeOfTail DEF PromoteClient
<1>5. CASE SendError \/ ReadEnds
  <2>1. c # clientSocket /\ peer'[c] = peer[c]
    BY <1>1, <1>5 DEF SendError, ReadEnds, EndSession
  <2>2. QED BY <1>5, <2>1 DEF SendError, ReadEnds, NoLeakedSocket
<1>6. ASSUME NEW d \in Conns, Connect(d) PROVE c = clientSocket' \/ c \in Range(backlog')
  <2>1. CASE c = d
    <3>1. /\ backlog' = Append(backlog, d)
          /\ Len(backlog') = Len(backlog) + 1
          /\ backlog'[Len(backlog) + 1] = d
          /\ DOMAIN backlog' = 1 .. Len(backlog')
      BY <1>1, <1>6, AppendProperties, LenProperties DEF Connect
    <3>2. Len(backlog) + 1 \in DOMAIN backlog'
      BY <1>1, <3>1, LenProperties, SMT
    <3>3. QED BY <2>1, <3>1, <3>2 DEF Range
  <2>2. CASE c # d
    <3>1. c = clientSocket \/ c \in Range(backlog)
      BY <1>1, <1>6, <2>2 DEF Connect, NoLeakedSocket
    <3>2. Range(backlog) \subseteq Range(backlog')
      BY <1>1, <1>6, AppendProperties, LenProperties, SMT DEF Connect, Range
    <3>3. QED BY <1>6, <3>1, <3>2 DEF Connect, bridgeVars
  <2>3. QED BY <2>1, <2>2
<1>7. CASE \/ RetransmitTimeout
           \/ \E d \in Conns : ClientLeaves(d) \/ ClientVanishes(d)
  <2>1. peer[c] \notin {"idle", "closed"}
    BY <1>1, <1>7 DEF ClientLeaves, ClientVanishes, RetransmitTimeout
  <2>2. UNCHANGED <<clientSocket, backlog>>
    BY <1>7 DEF ClientLeaves, ClientVanishes, RetransmitTimeout, bridgeVars
  <2>3. QED BY <2>1, <2>2 DEF NoLeakedSocket
<1>8. CASE PumpSend
  <2>1. peer[c] \notin {"idle", "closed"}
    BY <1>1, <1>8 DEF PumpSend
  <2>2. UNCHANGED <<clientSocket, backlog>>
    BY <1>8 DEF PumpSend
  <2>3. QED BY <2>1, <2>2 DEF NoLeakedSocket
<1>9. CASE Setup \/ AcceptNothing \/ PumpUart \/ SendNothing \/ SkipRead \/ PumpRead
             \/ ReadNothing \/ DrainToUart \/ CaptureTick \/ PanelSends \/ Halted
             \/ \E d \in Conns : ClientSends(d)
  <2>1. UNCHANGED <<clientSocket, peer, backlog>>
    BY <1>9
    DEF Setup, AcceptNothing, PumpUart, SendNothing, SkipRead, PumpRead, ReadNothing,
        DrainToUart, CaptureTick, PanelSends, ClientSends, Halted, vars, bridgeVars, envVars
  <2>2. QED BY <2>1 DEF NoLeakedSocket
<1>10. QED
  BY <1>2, <1>3, <1>4, <1>5, <1>6, <1>7, <1>8, <1>9 DEF Next, Loop, AcceptPending, Environment

LEMMA NextSessionInv == SessionInv /\ [Next]_vars => SessionInv'
<1> SUFFICES ASSUME SessionInv, [Next]_vars PROVE SessionInv'
  OBVIOUS
<1>1. CASE UNCHANGED vars
  <2>1. SessionInSync'
    BY <1>1 DEF SessionInv, vars, bridgeVars, captureVars, SessionInSync, IsBridgeMode
  <2>2. NoLeakedSocket'
    BY <1>1 DEF SessionInv, vars, bridgeVars, envVars, NoLeakedSocket
  <2>3. QED BY <1>1, <2>1, <2>2, NextTypeOK DEF SessionInv, vars, bridgeVars
<1>2. CASE Next
  <2>1. phase' = "boot" => phase = "boot" /\ UNCHANGED clientSocket
    BY <1>2
    DEF Next, Loop, AcceptPending, Environment, Setup, OnShutdown, AcceptNothing, RejectClient,
        PromoteClient, PumpUart, SendNothing, PumpSend, SendError, SkipRead, PumpRead, Reading,
        ReadNothing, ReadEnds, DrainToUart, CaptureTick, PanelSends, Connect, ClientSends,
        ClientLeaves, ClientVanishes, RetransmitTimeout, Halted, vars, bridgeVars
  <2>2. QED BY <1>2, <2>1, NextTypeOK, SessionInSyncStep, NoLeakedSocketStep DEF SessionInv
<1>3. QED BY <1>1, <1>2

LEMMA SessionInvariant == Spec => []SessionInv
BY InitSessionInv, NextSessionInv, PTL DEF Spec

\* client_socket_, session_, active_client_id_ and the capture always agree on
\* whether there is a client and which, and nothing is staged without one.
THEOREM SessionCorrect == Spec => []SessionInSync
<1>1. SessionInv => SessionInSync
  BY DEF SessionInv
<1>2. QED BY <1>1, SessionInvariant, PTL

\* The component holds no connection but its session's and the ones still waiting.
THEOREM SocketsReleased == Spec => []NoLeakedSocket
<1>1. SessionInv => NoLeakedSocket
  BY DEF SessionInv
<1>2. QED BY <1>1, SessionInvariant, PTL

\* A session ends by its client's departure or by the shutdown, never by another
\* client's arrival, and not before a clean close has been read to the end.
THEOREM SessionKept == Spec => FirstClientKeepsSession
<1> DEFINE Step == clientSocket # NoSocket /\ clientSocket' # clientSocket =>
                     /\ clientSocket' = NoSocket
                     /\ \/ phase' = "down"
                        \/ peer[clientSocket] = "reset"
                        \/ peer[clientSocket] = "fin" /\ Unread(clientSocket) = 0
<1>1. ASSUME SessionInv, [Next]_vars PROVE [Step]_vars
  <2> SUFFICES ASSUME Next, clientSocket # NoSocket, clientSocket' # clientSocket
               PROVE  Step
    BY <1>1
  <2>1. OnShutdown \/ PromoteClient \/ SendError \/ ReadEnds
    BY DEF Next, Loop, AcceptPending, Environment, Setup, AcceptNothing, RejectClient, PumpUart,
           SendNothing, PumpSend, SkipRead, PumpRead, ReadNothing, DrainToUart, CaptureTick,
           PanelSends, Connect, ClientSends, ClientLeaves, ClientVanishes, RetransmitTimeout,
           Halted, vars, bridgeVars
  <2>2. CASE OnShutdown
    BY <2>2 DEF OnShutdown
  <2>3. CASE PromoteClient
    BY <1>1, <2>3, PromotedFromMonitor
  <2>4. CASE SendError \/ ReadEnds
    BY <2>4 DEF SendError, ReadEnds, EndSession
  <2>5. QED BY <2>1, <2>2, <2>3, <2>4
<1>2. QED BY <1>1, SessionInvariant, PTL DEF Spec, FirstClientKeepsSession

-----------------------------------------------------------------------------
(* The bridge as a serial line *)

\* SerialLink and what is proved of it, under the mapping of Link.
Line == INSTANCE SerialLinkProofs WITH
          Clients <- Conns, UpCapacity <- BufferSize, DownCapacity <- BufferSize,
          MaxBatch <- Max({ChunkSize, StageSize}),
          owner <- clientSocket,
          answered <- {c \in Conns : peer[c] = "closed" \/ c = clientSocket},
          taken <- drained, up <- sendStage \o uartToTcp,
          got <- read, down <- tcpToUart, toPanel <- written, toClient <- delivered

-----------------------------------------------------------------------------
(* Parts of a concatenation *)

LEMMA PanelBytesAssociate ==
  ASSUME NEW a \in Seq(PanelBytes), NEW b \in Seq(PanelBytes), NEW c \in Seq(PanelBytes)
  PROVE  (a \o b) \o c = a \o (b \o c)
BY ConcatAssociative

LEMMA TakeThenDrop ==
  ASSUME NEW S, NEW s \in Seq(S), NEW k \in Nat
  PROVE  Take(s, k) \o Drop(s, k) = s
<1> DEFINE a == Take(s, k)
           b == Drop(s, k)
<1>1. /\ a \in Seq(S) /\ Len(a) = IF k <= Len(s) THEN k ELSE Len(s)
      /\ \A i \in 1 .. Len(a) : a[i] = s[i]
  BY TakeProperties
<1>2. /\ b \in Seq(S) /\ Len(b) = IF k <= Len(s) THEN Len(s) - k ELSE 0
      /\ \A i \in 1 .. Len(b) : b[i] = s[i + k]
  BY DropProperties
<1> HIDE DEF a, b
<1>3. Len(s) \in Nat
  BY LenProperties
<1>4. /\ a \o b \in Seq(S) /\ Len(a \o b) = Len(a) + Len(b)
      /\ \A i \in 1 .. Len(a) + Len(b) : (a \o b)[i] = IF i <= Len(a) THEN a[i] ELSE b[i - Len(a)]
  BY <1>1, <1>2, ConcatProperties
<1>5. Len(a \o b) = Len(s)
  BY <1>1, <1>2, <1>3, <1>4, SMT
<1>6. ASSUME NEW i \in 1 .. Len(a \o b) PROVE (a \o b)[i] = s[i]
  <2>1. CASE i <= Len(a)
    BY <1>1, <1>3, <1>4, <1>5, <2>1, SMT
  <2>2. CASE ~(i <= Len(a))
    <3>1. k <= Len(s) /\ Len(a) = k
      BY <1>1, <1>3, <1>5, <2>2, SMT
    <3>2. i - k \in 1 .. Len(b) /\ (i - k) + k = i
      BY <1>2, <1>3, <1>5, <2>2, <3>1, SMT
    <3>3. (a \o b)[i] = b[i - k]
      BY <1>4, <2>2, <3>1
    <3>4. QED BY <1>2, <3>2, <3>3
  <2>3. QED BY <2>1, <2>2
<1>7. QED BY <1>4, <1>5, <1>6, SeqEqual DEF a, b

LEMMA DropOfConcat ==
  ASSUME NEW S, NEW a \in Seq(S), NEW b \in Seq(S), NEW k \in 0 .. Len(a)
  PROVE  Drop(a \o b, k) = Drop(a, k) \o b
<1> DEFINE s == a \o b
           d == Drop(a, k)
           t == Drop(s, k)
<1>1. Len(a) \in Nat /\ Len(b) \in Nat /\ k \in Nat /\ k <= Len(a)
  BY LenProperties, SMT
<1>2. /\ s \in Seq(S) /\ Len(s) = Len(a) + Len(b)
      /\ \A i \in 1 .. Len(a) + Len(b) : s[i] = IF i <= Len(a) THEN a[i] ELSE b[i - Len(a)]
  BY ConcatProperties
<1> HIDE DEF s
<1>3. /\ d \in Seq(S) /\ Len(d) = IF k <= Len(a) THEN Len(a) - k ELSE 0
      /\ \A i \in 1 .. Len(d) : d[i] = a[i + k]
  BY <1>1, DropProperties
<1>4. /\ t \in Seq(S) /\ Len(t) = IF k <= Len(s) THEN Len(s) - k ELSE 0
      /\ \A i \in 1 .. Len(t) : t[i] = s[i + k]
  BY <1>1, <1>2, DropProperties
<1> HIDE DEF d, t
<1>5. /\ d \o b \in Seq(S) /\ Len(d \o b) = Len(d) + Len(b)
      /\ \A i \in 1 .. Len(d) + Len(b) : (d \o b)[i] = IF i <= Len(d) THEN d[i] ELSE b[i - Len(d)]
  BY <1>3, ConcatProperties
<1>6. Len(t) = Len(d \o b) /\ Len(d) = Len(a) - k
  BY <1>1, <1>2, <1>3, <1>4, <1>5, SMT
<1>7. ASSUME NEW i \in 1 .. Len(t) PROVE t[i] = (d \o b)[i]
  <2>1. i \in Nat /\ i + k \in 1 .. Len(a) + Len(b) /\ i \in 1 .. Len(d) + Len(b)
    BY <1>1, <1>5, <1>6, SMT
  <2>2. t[i] = IF i + k <= Len(a) THEN a[i + k] ELSE b[i + k - Len(a)]
    BY <1>2, <1>4, <2>1
  <2>3. CASE i <= Len(d)
    <3>1. i \in 1 .. Len(d) /\ i + k <= Len(a)
      BY <1>1, <1>6, <2>1, <2>3, SMT
    <3>2. QED BY <1>3, <1>5, <2>1, <2>2, <2>3, <3>1
  <2>4. CASE ~(i <= Len(d))
    <3>1. ~(i + k <= Len(a)) /\ i + k - Len(a) = i - Len(d)
      BY <1>1, <1>6, <2>1, <2>4, SMT
    <3>2. QED BY <1>5, <2>1, <2>2, <2>4, <3>1
  <2>5. QED BY <2>3, <2>4
<1>8. t = d \o b
  BY <1>4, <1>5, <1>6, <1>7, SeqEqual
<1>9. QED BY <1>8 DEF t, s, d

LEMMA DropFirst ==
  ASSUME NEW S, NEW a \in Seq(S), NEW b \in Seq(S)
  PROVE  Drop(a \o b, Len(a)) = b /\ SubSeq(a \o b, 1, Len(a)) = a
<1>1. Len(a) \in Nat /\ Len(a) \in 0 .. Len(a)
  BY LenProperties, SMT
<1>2. Drop(a, Len(a)) \in Seq(S) /\ Len(Drop(a, Len(a))) = 0
  BY <1>1, DropProperties, SMT
<1>3. Drop(a, Len(a)) = <<>>
  BY <1>2, EmptySeq, SMT
<1>4. Drop(a \o b, Len(a)) = b
  BY <1>1, <1>3, DropOfConcat, ConcatEmptySeq
<1>5. SubSeq(a \o b, 1, Len(a)) = a
  <2>1. CASE a = <<>>
    BY <1>1, <2>1, SubSeqEmpty, EmptySeq, SMT
  <2>2. CASE a # <<>>
    <3>1. 1 \in 1 .. Len(a) /\ Len(a) \in 1 .. Len(a)
      BY <2>2, EmptySeq, SMT
    <3>2. QED BY <3>1, SubSeqOfConcat1, SubSeqFull
  <2>3. QED BY <2>1, <2>2
<1>6. QED BY <1>4, <1>5

\* Dropping k elements in the middle: those that follow a.
LEMMA DropInside ==
  ASSUME NEW S, NEW a \in Seq(S), NEW b \in Seq(S), NEW k \in 0 .. Len(b)
  PROVE  LET s == a \o b
         IN  a \o Drop(b, k) = SubSeq(s, 1, Len(a)) \o SubSeq(s, Len(a) + k + 1, Len(s))
<1> DEFINE s == a \o b
<1>1. Len(a) \in Nat /\ Len(b) \in Nat /\ k \in Nat /\ k <= Len(b)
  BY LenProperties, SMT
<1>2. SubSeq(s, 1, Len(a)) = a /\ Drop(s, Len(a)) = b
  BY DropFirst
<1>3. s \in Seq(S) /\ Len(s) = Len(a) + Len(b)
      /\ \A i \in 1 .. Len(a) + Len(b) : s[i] = IF i <= Len(a) THEN a[i] ELSE b[i - Len(a)]
  BY ConcatProperties
<1> DEFINE d == Drop(b, k)
           t == Drop(s, Len(a) + k)
<1> HIDE DEF s
<1>4. /\ d \in Seq(S) /\ Len(d) = IF k <= Len(b) THEN Len(b) - k ELSE 0
      /\ \A i \in 1 .. Len(d) : d[i] = b[i + k]
  BY <1>1, DropProperties
<1>5. /\ t \in Seq(S)
      /\ Len(t) = IF Len(a) + k <= Len(s) THEN Len(s) - (Len(a) + k) ELSE 0
      /\ \A i \in 1 .. Len(t) : t[i] = s[i + (Len(a) + k)]
  <2>1. Len(a) + k \in Nat
    BY <1>1, SMT
  <2>2. QED BY <1>3, <2>1, DropProperties
<1> HIDE DEF d, t
<1>6. Len(t) = Len(d)
  BY <1>1, <1>3, <1>4, <1>5, SMT
<1>7. ASSUME NEW i \in 1 .. Len(d) PROVE d[i] = t[i]
  <2>1. /\ i + (Len(a) + k) \in 1 .. Len(a) + Len(b) /\ ~(i + (Len(a) + k) <= Len(a))
        /\ i + (Len(a) + k) - Len(a) = i + k
    BY <1>1, <1>4, SMT
  <2>2. QED BY <1>3, <1>4, <1>5, <1>6, <2>1
<1>8. d = t
  BY <1>4, <1>5, <1>6, <1>7, SeqEqual
<1>9. QED BY <1>2, <1>8 DEF d, t, Drop, s

-----------------------------------------------------------------------------
(* Connections are answered in the order they are made *)

Answered == {c \in Conns : peer[c] = "closed" \/ c = clientSocket}

MadeInOrder == \A c, d \in Conns : c < d /\ peer[d] # "idle" => peer[c] # "idle"

\* Whoever waits came after everybody answered so far and before whoever waits behind.
WaitInOrder ==
  /\ \A i, j \in DOMAIN backlog : i < j => backlog[i] < backlog[j]
  /\ \A i \in DOMAIN backlog : /\ peer[backlog[i]] \notin {"idle", "closed"}
                               /\ \A c \in Answered : c < backlog[i]

\* setup() finds the rings empty, and a session's connection is open.
LinkInv ==
  /\ SessionInv
  /\ MadeInOrder
  /\ WaitInOrder
  /\ clientSocket # NoSocket => peer[clientSocket] \notin {"idle", "closed"}
  /\ phase = "boot" => uartToTcp = <<>> /\ sendStage = <<>> /\ tcpToUart = <<>>

LEMMA InitLinkInv == Init => LinkInv
<1> SUFFICES ASSUME Init PROVE LinkInv
  OBVIOUS
<1>1. SessionInv
  BY InitSessionInv
<1>2. MadeInOrder
  BY DEF Init, MadeInOrder
<1>3. WaitInOrder
  BY SMT DEF Init, WaitInOrder
<1>4. QED BY <1>1, <1>2, <1>3 DEF Init, LinkInv

\* What the head of the backlog leaves behind.
LEMMA HeadOfBacklog ==
  ASSUME LinkInv, backlog # <<>>
  PROVE  LET h == Head(backlog)
         IN  /\ h \in Conns /\ h # NoSocket
             /\ peer[h] \notin {"idle", "closed"}
             /\ \A c \in Answered : c < h
             /\ Tail(backlog) \in Seq(Conns)
             /\ \A i \in DOMAIN Tail(backlog) : /\ i + 1 \in DOMAIN backlog
                                                /\ Tail(backlog)[i] = backlog[i + 1]
                                                /\ h < Tail(backlog)[i]
<1>1. backlog \in Seq(Conns)
  BY DEF LinkInv, SessionInv, TypeOK, EnvTypeOK
<1>2. /\ Len(backlog) \in Nat \ {0} /\ DOMAIN backlog = 1 .. Len(backlog)
      /\ Head(backlog) = backlog[1]
  BY <1>1, EmptySeq, LenProperties
<1>3. /\ Head(backlog) \in Conns /\ Tail(backlog) \in Seq(Conns)
      /\ Len(Tail(backlog)) = Len(backlog) - 1
      /\ \A i \in 1 .. Len(Tail(backlog)) : Tail(backlog)[i] = backlog[i + 1]
  BY <1>1, HeadTailProperties
<1>4. 1 \in DOMAIN backlog
  BY <1>2, SMT
<1>5. ASSUME NEW i \in DOMAIN Tail(backlog)
      PROVE  i + 1 \in DOMAIN backlog /\ Tail(backlog)[i] = backlog[i + 1]
             /\ backlog[1] < Tail(backlog)[i]
  <2>1. i \in 1 .. Len(Tail(backlog))
    BY <1>3, LenProperties
  <2>2. i + 1 \in DOMAIN backlog /\ 1 < i + 1
    BY <1>2, <1>3, <2>1, SMT
  <2>3. QED BY <1>3, <1>4, <2>1, <2>2 DEF LinkInv, WaitInOrder
<1>6. Head(backlog) # NoSocket
  BY <1>3, SMT DEF Conns, NoSocket
<1>7. QED BY <1>2, <1>3, <1>4, <1>5, <1>6 DEF LinkInv, WaitInOrder

LEMMA OrderAfterAccept ==
  ASSUME LinkInv, RejectClient \/ PromoteClient
  PROVE  MadeInOrder' /\ WaitInOrder'
<1> DEFINE h == Head(backlog)
<1>1. /\ backlog # <<>> /\ backlog' = Tail(backlog)
      /\ \/ peer' = [peer EXCEPT ![h] = "closed"] /\ clientSocket' = clientSocket
         \/ peer' = peer /\ clientSocket' = h
  BY DEF RejectClient, PromoteClient
<1>2. /\ h \in Conns /\ peer[h] \notin {"idle", "closed"}
      /\ \A c \in Answered : c < h
      /\ \A i \in DOMAIN Tail(backlog) : /\ i + 1 \in DOMAIN backlog
                                         /\ Tail(backlog)[i] = backlog[i + 1]
                                         /\ h < Tail(backlog)[i]
      /\ Tail(backlog) \in Seq(Conns)
  BY <1>1, HeadOfBacklog
<1>3. peer \in [Conns -> PeerStates] /\ backlog \in Seq(Conns)
  BY DEF LinkInv, SessionInv, TypeOK, EnvTypeOK
<1> HIDE DEF h
<1>4. \A c \in Conns : (peer'[c] = "idle") <=> (peer[c] = "idle")
  BY <1>1, <1>2, <1>3
<1>5. MadeInOrder'
  BY <1>4 DEF LinkInv, MadeInOrder
<1>6. Answered' \subseteq Answered \cup {h}
  BY <1>1, <1>2, <1>3 DEF Answered
<1>7. DOMAIN Tail(backlog) = 1 .. Len(Tail(backlog)) /\ Len(Tail(backlog)) \in Nat
  BY <1>2, LenProperties
<1>8. ASSUME NEW i \in DOMAIN backlog'
      PROVE  /\ peer'[backlog'[i]] \notin {"idle", "closed"}
             /\ \A c \in Answered' : c < backlog'[i]
             /\ \A j \in DOMAIN backlog' : i < j => backlog'[i] < backlog'[j]
  <2>1. /\ i + 1 \in DOMAIN backlog /\ backlog'[i] = backlog[i + 1] /\ h < backlog'[i]
        /\ backlog'[i] \in Conns
    BY <1>1, <1>2, <1>7, <1>8, ElementOfSeq
  <2>2. peer[backlog'[i]] \notin {"idle", "closed"} /\ \A c \in Answered : c < backlog'[i]
    BY <2>1 DEF LinkInv, WaitInOrder
  <2>3. h # backlog'[i]
    BY <1>2, <2>1, ConstantsOK, SMT DEF Conns
  <2>4. peer'[backlog'[i]] = peer[backlog'[i]]
    BY <1>1, <1>3, <2>1, <2>3
  <2>5. ASSUME NEW j \in DOMAIN backlog', i < j PROVE backlog'[i] < backlog'[j]
    <3>1. j + 1 \in DOMAIN backlog /\ backlog'[j] = backlog[j + 1]
      BY <1>1, <1>2, <2>5
    <3>2. i + 1 < j + 1
      BY <1>1, <1>7, <1>8, <2>5, SMT
    <3>3. QED BY <2>1, <3>1, <3>2 DEF LinkInv, WaitInOrder
  <2>6. QED BY <1>6, <2>1, <2>2, <2>4, <2>5
<1>9. QED BY <1>5, <1>8 DEF WaitInOrder

LEMMA OrderAfterConnect ==
  ASSUME LinkInv, NEW c \in Conns, Connect(c)
  PROVE  MadeInOrder' /\ WaitInOrder'
<1>1. /\ peer \in [Conns -> PeerStates] /\ backlog \in Seq(Conns)
      /\ Conns \subseteq Nat /\ Len(backlog) \in Nat
  BY ConstantsOK, LenProperties, SMT DEF LinkInv, SessionInv, TypeOK, EnvTypeOK, Conns
<1>2. /\ peer[c] = "idle" /\ \A d \in 1 .. c-1 : peer[d] # "idle"
      /\ peer' = [peer EXCEPT ![c] = "open"]
      /\ backlog' = Append(backlog, c) /\ clientSocket' = clientSocket
  BY DEF Connect, bridgeVars
<1>3. \A d \in Conns : d < c => peer[d] # "idle"
  <2>1. \A d \in Conns : d < c => d \in 1 .. c-1
    BY ConstantsOK, SMT DEF Conns
  <2>2. QED BY <1>2, <2>1
<1>4. \A d \in Conns : peer[d] # "idle" => d < c
  <2>1. \A d \in Conns : d = c \/ d < c \/ c < d
    BY <1>1, SMT
  <2>2. QED BY <1>2, <2>1 DEF LinkInv, MadeInOrder
<1>5. MadeInOrder'
  <2>1. SUFFICES ASSUME NEW d \in Conns, NEW e \in Conns, d < e, peer'[e] # "idle"
                 PROVE  peer'[d] # "idle"
    BY DEF MadeInOrder
  <2>2. CASE d = c
    BY <1>1, <1>2, <2>2
  <2>3. CASE d # c /\ e = c
    BY <1>1, <1>2, <1>3, <2>1, <2>3
  <2>4. CASE d # c /\ e # c
    BY <1>1, <1>2, <2>1, <2>4 DEF LinkInv, MadeInOrder
  <2>5. QED BY <2>2, <2>3, <2>4
<1>6. Answered' = Answered /\ \A d \in Answered : d < c
  <2>1. Answered' = Answered
    BY <1>1, <1>2 DEF Answered
  <2>2. \A d \in Answered : peer[d] # "idle"
    BY SMT DEF Answered, LinkInv, Conns, NoSocket
  <2>3. QED BY <1>4, <2>1, <2>2 DEF Answered
<1>7. /\ DOMAIN backlog' = 1 .. Len(backlog) + 1 /\ DOMAIN backlog = 1 .. Len(backlog)
      /\ backlog'[Len(backlog) + 1] = c
      /\ \A i \in 1 .. Len(backlog) : backlog'[i] = backlog[i]
  BY <1>1, <1>2, AppendProperties, LenProperties
<1>8. \A i \in DOMAIN backlog' : i \in DOMAIN backlog \/ i = Len(backlog) + 1
  BY <1>1, <1>7, SMT
<1>9. \A i \in DOMAIN backlog :
        /\ backlog[i] \in Conns
        /\ peer[backlog[i]] \notin {"idle", "closed"}
        /\ \A d \in Answered : d < backlog[i]
        /\ backlog[i] < c
  BY <1>1, <1>4, <1>7, ElementOfSeq DEF LinkInv, WaitInOrder
<1>10. ASSUME NEW i \in DOMAIN backlog'
       PROVE  /\ peer'[backlog'[i]] \notin {"idle", "closed"}
              /\ \A d \in Answered' : d < backlog'[i]
  <2>1. CASE i \in DOMAIN backlog
    BY <1>1, <1>2, <1>6, <1>7, <1>9, <2>1
  <2>2. CASE i = Len(backlog) + 1
    BY <1>1, <1>2, <1>6, <1>7, <2>2
  <2>3. QED BY <1>8, <2>1, <2>2
<1>11. ASSUME NEW i \in DOMAIN backlog', NEW j \in DOMAIN backlog', i < j
       PROVE  backlog'[i] < backlog'[j]
  <2>1. i \in DOMAIN backlog
    BY <1>1, <1>7, <1>11, SMT
  <2>2. CASE j \in DOMAIN backlog
    BY <1>7, <1>11, <2>1, <2>2 DEF LinkInv, WaitInOrder
  <2>3. CASE j = Len(backlog) + 1
    BY <1>7, <1>9, <2>1, <2>3
  <2>4. QED BY <1>8, <2>2, <2>3
<1>12. QED BY <1>5, <1>10, <1>11 DEF WaitInOrder

\* The other steps make no connection, and close none but the session's or, at the
\* shutdown, all.
LEMMA OrderAfterOthers ==
  ASSUME LinkInv, NEW c \in Conns,
         \/ UNCHANGED <<peer, clientSocket, backlog>>
         \/ /\ UNCHANGED <<clientSocket, backlog>>
            /\ peer[c] \notin {"idle", "closed"}
            /\ \E s \in {"fin", "reset", "gone", "unacked"} : peer' = [peer EXCEPT ![c] = s]
         \/ /\ c = clientSocket /\ UNCHANGED backlog
            /\ peer' = [peer EXCEPT ![c] = "closed"] /\ clientSocket' = NoSocket
  PROVE  /\ MadeInOrder' /\ WaitInOrder'
         /\ clientSocket' # NoSocket => peer'[clientSocket'] \notin {"idle", "closed"}
<1>1. /\ peer \in [Conns -> PeerStates] /\ backlog \in Seq(Conns)
      /\ DOMAIN backlog = 1 .. Len(backlog) /\ Conns \subseteq Nat /\ NoSocket \notin Conns
      /\ clientSocket \in Conns \cup {NoSocket}
  BY ConstantsOK, LenProperties, SMT
  DEF LinkInv, SessionInv, TypeOK, EnvTypeOK, ControlTypeOK, Conns, NoSocket
<1>2. \A d \in Conns : (peer'[d] = "idle") <=> (peer[d] = "idle")
  BY <1>1 DEF LinkInv
<1>3. MadeInOrder'
  BY <1>2 DEF LinkInv, MadeInOrder
<1>4. backlog' = backlog
  OBVIOUS
<1>5. Answered' \subseteq Answered
  BY <1>1 DEF Answered
<1>6. ASSUME NEW i \in DOMAIN backlog
      PROVE  /\ peer'[backlog[i]] \notin {"idle", "closed"}
             /\ \A d \in Answered' : d < backlog[i]
  <2>1. /\ backlog[i] \in Conns /\ peer[backlog[i]] \notin {"idle", "closed"}
        /\ \A d \in Answered : d < backlog[i]
    BY <1>1, <1>6, ElementOfSeq DEF LinkInv, WaitInOrder
  <2>2. backlog[i] # clientSocket
    BY <1>1, <2>1, SMT DEF Answered, Conns
  <2>3. QED BY <1>1, <1>5, <2>1, <2>2
<1>7. WaitInOrder'
  BY <1>4, <1>6 DEF LinkInv, WaitInOrder
<1>8. clientSocket' # NoSocket => peer'[clientSocket'] \notin {"idle", "closed"}
  BY <1>1 DEF LinkInv
<1>9. QED BY <1>3, <1>7, <1>8

LEMMA OrderAfterShutdown ==
  ASSUME LinkInv, OnShutdown
  PROVE  MadeInOrder' /\ WaitInOrder' /\ clientSocket' = NoSocket
<1>1. /\ peer \in [Conns -> PeerStates] /\ backlog \in Seq(Conns)
      /\ \A i \in DOMAIN backlog : peer[backlog[i]] # "idle"
  BY DEF LinkInv, SessionInv, TypeOK, EnvTypeOK, WaitInOrder
<1>2. \A d \in Conns : d = clientSocket \/ d \in Range(backlog) => peer[d] # "idle"
  <2>1. NoSocket \notin Conns
    BY ConstantsOK, SMT DEF Conns, NoSocket
  <2>2. QED BY <1>1, <2>1 DEF LinkInv, Range
<1>3. \A d \in Conns : (peer'[d] = "idle") <=> (peer[d] = "idle")
  BY <1>1, <1>2 DEF OnShutdown
<1>4. MadeInOrder'
  BY <1>3 DEF LinkInv, MadeInOrder
<1>5. backlog' = <<>> /\ clientSocket' = NoSocket
  BY DEF OnShutdown
<1>6. WaitInOrder'
  BY <1>5, SMT DEF WaitInOrder
<1>7. QED BY <1>4, <1>5, <1>6

LEMMA NextLinkInv == LinkInv /\ [Next]_vars => LinkInv'
<1> SUFFICES ASSUME LinkInv, [Next]_vars PROVE LinkInv'
  OBVIOUS
<1> DEFINE Open == clientSocket # NoSocket => peer[clientSocket] \notin {"idle", "closed"}
<1>1. SessionInv'
  BY NextSessionInv DEF LinkInv
<1>2. phase' = "boot" => uartToTcp' = <<>> /\ sendStage' = <<>> /\ tcpToUart' = <<>>
  <2>1. phase' = "boot" => phase = "boot" /\ UNCHANGED bridgeVars
    BY DEF Next, Loop, AcceptPending, Environment, Setup, OnShutdown, AcceptNothing, RejectClient,
           PromoteClient, PumpUart, SendNothing, PumpSend, SendError, SkipRead, PumpRead, Reading,
           ReadNothing, ReadEnds, DrainToUart, CaptureTick, PanelSends, Connect, ClientSends,
           ClientLeaves, ClientVanishes, RetransmitTimeout, Halted, vars
  <2>2. QED BY <2>1 DEF LinkInv, bridgeVars
<1>3. NoSocket \notin Conns /\ clientSocket \in Conns \cup {NoSocket}
      /\ peer \in [Conns -> PeerStates]
  BY ConstantsOK, SMT
  DEF LinkInv, SessionInv, TypeOK, EnvTypeOK, ControlTypeOK, Conns, NoSocket
<1>4. CASE OnShutdown
  BY <1>1, <1>2, <1>4, OrderAfterShutdown DEF LinkInv
<1>5. CASE RejectClient \/ PromoteClient
  <2>1. MadeInOrder' /\ WaitInOrder'
    BY <1>5, OrderAfterAccept
  <2>2. Open'
    <3>1. backlog # <<>>
      BY <1>5 DEF RejectClient, PromoteClient
    <3>2. /\ Head(backlog) \in Conns /\ peer[Head(backlog)] \notin {"idle", "closed"}
          /\ \A c \in Answered : c < Head(backlog)
      BY <3>1, HeadOfBacklog
    <3>3. CASE PromoteClient
      BY <3>2, <3>3 DEF PromoteClient
    <3>4. CASE RejectClient
      <4>1. clientSocket # NoSocket => clientSocket # Head(backlog)
        BY <1>3, <3>2, ConstantsOK, SMT DEF Answered, Conns
      <4>2. QED BY <1>3, <3>2, <3>4, <4>1 DEF RejectClient, LinkInv
    <3>5. QED BY <1>5, <3>3, <3>4
  <2>3. QED BY <1>1, <1>2, <2>1, <2>2 DEF LinkInv
<1>6. ASSUME NEW c \in Conns, Connect(c) PROVE LinkInv'
  <2>1. MadeInOrder' /\ WaitInOrder'
    BY <1>6, OrderAfterConnect
  <2>2. Open'
    BY <1>3, <1>6 DEF Connect, LinkInv, bridgeVars
  <2>3. QED BY <1>1, <1>2, <2>1, <2>2 DEF LinkInv
<1>7. ASSUME NEW c \in Conns,
             \/ UNCHANGED <<peer, clientSocket, backlog>>
             \/ /\ UNCHANGED <<clientSocket, backlog>>
                /\ peer[c] \notin {"idle", "closed"}
                /\ \E s \in {"fin", "reset", "gone", "unacked"} : peer' = [peer EXCEPT ![c] = s]
             \/ /\ c = clientSocket /\ UNCHANGED backlog
                /\ peer' = [peer EXCEPT ![c] = "closed"] /\ clientSocket' = NoSocket
      PROVE  LinkInv'
  BY <1>1, <1>2, <1>7, OrderAfterOthers DEF LinkInv
<1>8. ASSUME UNCHANGED <<peer, clientSocket, backlog>> PROVE LinkInv'
  BY <1>1, <1>2, <1>3, <1>8 DEF LinkInv, MadeInOrder, WaitInOrder, Answered
<1>9. CASE SendError \/ ReadEnds
  <2>1. /\ clientSocket \in Conns /\ UNCHANGED backlog
        /\ peer' = [peer EXCEPT ![clientSocket] = "closed"] /\ clientSocket' = NoSocket
    BY <1>3, <1>9 DEF SendError, ReadEnds, Reading, InBridge, EndSession
  <2>2. QED BY <1>7, <2>1
<1>10. CASE PumpSend
  <2>1. /\ clientSocket \in Conns /\ UNCHANGED <<clientSocket, backlog>>
        /\ \/ UNCHANGED peer
           \/ /\ peer[clientSocket] = "gone"
              /\ peer' = [peer EXCEPT ![clientSocket] = "unacked"]
    BY <1>3, <1>10 DEF PumpSend, InBridge
  <2>2. QED BY <1>7, <2>1
<1>11. ASSUME NEW c \in Conns, ClientLeaves(c) \/ ClientVanishes(c) PROVE LinkInv'
  <2>1. /\ UNCHANGED <<clientSocket, backlog>> /\ peer[c] \notin {"idle", "closed"}
        /\ \E s \in {"fin", "reset", "gone", "unacked"} : peer' = [peer EXCEPT ![c] = s]
    BY <1>11 DEF ClientLeaves, ClientVanishes, bridgeVars
  <2>2. QED BY <1>7, <2>1
<1>12. CASE RetransmitTimeout
  <2>1. PICK c \in Conns : peer[c] = "unacked" /\ peer' = [peer EXCEPT ![c] = "reset"]
    BY <1>12 DEF RetransmitTimeout
  <2>2. UNCHANGED <<clientSocket, backlog>>
    BY <1>12 DEF RetransmitTimeout, bridgeVars
  <2>3. QED BY <1>7, <2>1, <2>2
<1>13. CASE Setup \/ AcceptNothing \/ PumpUart \/ SendNothing \/ SkipRead \/ PumpRead
             \/ ReadNothing \/ DrainToUart \/ CaptureTick \/ PanelSends
             \/ (\E d \in Conns : ClientSends(d)) \/ UNCHANGED vars
  <2>1. UNCHANGED <<peer, clientSocket, backlog>>
    BY <1>13
    DEF Setup, AcceptNothing, PumpUart, SendNothing, SkipRead, PumpRead, ReadNothing,
        DrainToUart, CaptureTick, PanelSends, ClientSends, vars, bridgeVars, envVars
  <2>2. QED BY <1>8, <2>1
<1>14. QED
  BY <1>4, <1>5, <1>6, <1>9, <1>10, <1>11, <1>12, <1>13
  DEF Next, Loop, AcceptPending, Environment, Halted

LEMMA LinkInvariant == Spec => []LinkInv
BY InitLinkInv, NextLinkInv, PTL DEF Spec

-----------------------------------------------------------------------------
(* Every step of the bridge is one of the line, or none *)

\* The bytes under way to the client.
UnderWay == sendStage \o uartToTcp

LEMMA InitLink == Init => Link!LinkInit
<1>1. Init => (sendStage \o uartToTcp) = <<>>
  BY ConcatEmptySeq, EmptySeq DEF Init
<1>2. Init => {c \in Conns : peer[c] = "closed" \/ c = clientSocket} = {}
  BY ConstantsOK, SMT DEF Init, Conns, NoSocket
<1>3. QED BY <1>1, <1>2 DEF Init, Link!LinkInit, Link!NoOne, NoSocket

LEMMA MaxBatchOK ==
  /\ Max({ChunkSize, StageSize}) \in Nat
  /\ \A n \in Nat \ {0} : n <= ChunkSize \/ n <= StageSize => n \in 1 .. Max({ChunkSize, StageSize})
<1>1. ChunkSize \in Int /\ StageSize \in Int /\ ChunkSize \in Nat /\ StageSize \in Nat
  BY ConstantsOK, SMT
<1>2. Max({ChunkSize, StageSize}) = IF ChunkSize <= StageSize THEN StageSize ELSE ChunkSize
  BY <1>1, MinMaxOfTwo
<1>3. QED BY <1>1, <1>2, SMT

\* A refill moves bytes from the ring to the stage; those under way stay the same.
LEMMA RefillIsStutter ==
  ASSUME TypeOK
  PROVE  /\ Staged \in Seq(PanelBytes) /\ RingAfterRefill \in Seq(PanelBytes)
         /\ Staged \o RingAfterRefill = UnderWay
         /\ UnderWay \in Seq(PanelBytes)
         /\ Len(UnderWay) = Len(Staged) + Len(RingAfterRefill)
<1>1. /\ Staged \in Seq(PanelBytes) /\ RingAfterRefill \in Seq(PanelBytes)
      /\ sendStage \in Seq(PanelBytes) /\ uartToTcp \in Seq(PanelBytes)
  BY RefillOK DEF TypeOK, RingsTypeOK
<1>2. Staged \o RingAfterRefill = UnderWay
  <2>1. CASE sendStage # <<>>
    BY <2>1 DEF Staged, RingAfterRefill, UnderWay
  <2>2. CASE sendStage = <<>>
    <3>1. Take(uartToTcp, StageSize) \o Drop(uartToTcp, StageSize) = uartToTcp
      BY <1>1, ConstantsOK, TakeThenDrop
    <3>2. <<>> \o uartToTcp = uartToTcp
      BY <1>1, ConcatEmptySeq
    <3>3. QED BY <2>2, <3>1, <3>2 DEF Staged, RingAfterRefill, UnderWay
  <2>3. QED BY <2>1, <2>2
<1>3. QED BY <1>1, <1>2, ConcatProperties

\* What one turn of pump_uart_to_tcp_ reads, and what its overflow costs.
LEMMA PumpUartMoves ==
  ASSUME TypeOK, PumpUart
  PROVE  \E n \in 0 .. ChunkSize :
           LET batch == [i \in 1..n |-> drained + i]
               pushed == uartToTcp \o batch
               lost == Overflow(pushed)
           IN  /\ batch \in Seq(PanelBytes) /\ Len(batch) = n
               /\ pushed \in Seq(PanelBytes) /\ Len(pushed) = Len(uartToTcp) + n
               /\ lost \in 0 .. Len(pushed) /\ (lost > 0 => Len(pushed) - lost = BufferSize)
               /\ uartToTcp' = Drop(pushed, lost)
               /\ uartDrops' = uartDrops + lost
               /\ drained' = drained + n
<1>1. /\ uartToTcp \in Seq(PanelBytes)
      /\ arrived \in 0..MaxPanelBytes /\ drained \in 0..arrived
  BY DEF TypeOK, RingsTypeOK, EnvTypeOK
<1>2. PICK n \in 0 .. Min({ChunkSize, arrived - drained}) :
        LET pushed == uartToTcp \o [i \in 1..n |-> drained + i]
        IN  /\ uartToTcp' = Drop(pushed, Overflow(pushed))
            /\ uartDrops' = uartDrops + Overflow(pushed)
            /\ drained' = drained + n
  BY DEF PumpUart
<1> DEFINE batch == [i \in 1..n |-> drained + i]
           pushed == uartToTcp \o batch
           lost == Overflow(pushed)
<1>3. n \in Nat /\ n \in 0 .. ChunkSize /\ drained + n <= arrived
  <2>1. ChunkSize \in Nat /\ arrived - drained \in Int /\ ChunkSize \in Int /\ MaxPanelBytes \in Nat
    BY <1>1, ConstantsOK, SMT
  <2>2. Min({ChunkSize, arrived - drained})
          = IF ChunkSize <= arrived - drained THEN ChunkSize ELSE arrived - drained
    BY <2>1, MinMaxOfTwo
  <2>3. QED BY <1>1, <2>1, <2>2, SMT
<1>4. batch \in Seq(PanelBytes) /\ Len(batch) = n
  <2>1. \A i \in 1..n : drained + i \in PanelBytes
    BY <1>1, <1>3, ConstantsOK, SMT DEF PanelBytes
  <2>2. QED BY <1>3, <2>1
<1>5. uartToTcp' = Drop(pushed, lost) /\ uartDrops' = uartDrops + lost /\ drained' = drained + n
  BY <1>2
<1>6. pushed \in Seq(PanelBytes) /\ Len(pushed) = Len(uartToTcp) + n /\ Len(pushed) \in Nat
  <2> HIDE DEF batch
  <2>1. pushed \in Seq(PanelBytes) /\ Len(pushed) = Len(uartToTcp) + Len(batch)
    BY <1>1, <1>4, ConcatProperties
  <2>2. QED BY <1>4, <2>1, LenProperties
<1>7. lost \in 0 .. Len(pushed) /\ (lost > 0 => Len(pushed) - lost = BufferSize)
  <2> HIDE DEF pushed
  <2>1. Len(pushed) - BufferSize \in Int /\ 0 \in Int /\ BufferSize \in Nat
    BY <1>6, ConstantsOK, SMT
  <2>2. Max({0, Len(pushed) - BufferSize})
          = IF 0 <= Len(pushed) - BufferSize THEN Len(pushed) - BufferSize ELSE 0
    BY <2>1, MinMaxOfTwo
  <2>3. QED BY <1>6, <2>1, <2>2, SMT DEF Overflow
<1>8. QED BY <1>3, <1>4, <1>5, <1>6, <1>7

LEMMA PumpUartIsFromPanel ==
  ASSUME LinkInv, PumpUart
  PROVE  [Link!LinkNext]_(Link!linkVars)
<1>1. sendStage \in Seq(PanelBytes) /\ uartToTcp \in Seq(PanelBytes) /\ drained \in Nat
  BY ConstantsOK, SMT DEF LinkInv, SessionInv, TypeOK, RingsTypeOK, EnvTypeOK
<1>2. PICK n \in 0 .. ChunkSize :
        LET batch == [i \in 1..n |-> drained + i]
            pushed == uartToTcp \o batch
            lost == Overflow(pushed)
        IN  /\ batch \in Seq(PanelBytes) /\ Len(batch) = n
            /\ pushed \in Seq(PanelBytes) /\ Len(pushed) = Len(uartToTcp) + n
            /\ lost \in 0 .. Len(pushed) /\ (lost > 0 => Len(pushed) - lost = BufferSize)
            /\ uartToTcp' = Drop(pushed, lost)
            /\ drained' = drained + n
  BY PumpUartMoves DEF LinkInv, SessionInv
<1> DEFINE batch == [i \in 1..n |-> drained + i]
           pushed == uartToTcp \o batch
           lost == Overflow(pushed)
           s == UnderWay \o batch
<1>3. n \in Nat /\ n <= ChunkSize
  BY ConstantsOK, SMT
<1>4. batch \in Seq(PanelBytes) /\ Len(batch) = n
  BY <1>2
<1>5. UNCHANGED <<clientSocket, peer, sendStage, read, tcpToUart, written, delivered>>
  BY DEF PumpUart, historyVars
<1>6. uartToTcp' = Drop(pushed, lost) /\ drained' = drained + n
  BY <1>2
<1>7. /\ pushed \in Seq(PanelBytes)
      /\ lost \in 0 .. Len(pushed) /\ (lost > 0 => Len(pushed) - lost = BufferSize)
  BY <1>2
<1> HIDE DEF batch
<1>8. /\ Len(pushed) \in Nat /\ Len(sendStage) \in Nat
      /\ s = sendStage \o pushed
      /\ s \in Seq(PanelBytes) /\ Len(s) = Len(sendStage) + Len(pushed)
  <2>1. s = sendStage \o pushed
    BY <1>1, <1>4, PanelBytesAssociate DEF UnderWay
  <2> HIDE DEF pushed, s
  <2>2. s \in Seq(PanelBytes) /\ Len(s) = Len(sendStage) + Len(pushed)
    BY <1>1, <1>7, <2>1, ConcatProperties
  <2>3. QED BY <1>1, <1>7, <2>1, <2>2, LenProperties
<1> HIDE DEF pushed
<1>9. lost \in 0 .. Len(pushed) /\ (lost > 0 => Len(pushed) - lost = BufferSize)
  BY <1>7
<1>10. UnderWay' = SubSeq(s, 1, Len(sendStage)) \o SubSeq(s, Len(sendStage) + lost + 1, Len(s))
  <2>1. UnderWay' = sendStage \o Drop(pushed, lost)
    BY <1>5, <1>6 DEF UnderWay
  <2> HIDE DEF lost, s
  <2>2. LET t == sendStage \o pushed
        IN  sendStage \o Drop(pushed, lost)
              = SubSeq(t, 1, Len(sendStage)) \o SubSeq(t, Len(sendStage) + lost + 1, Len(t))
    BY <1>1, <1>7, <1>9, DropInside
  <2>3. QED BY <1>8, <2>1, <2>2
<1>11. /\ Len(sendStage) \in 0 .. Len(s) /\ Len(sendStage) + lost \in 0 .. Len(s)
       /\ Len(sendStage) <= Len(sendStage) + lost
       /\ Len(sendStage) < Len(sendStage) + lost => Len(s) - (Len(sendStage) + lost) = BufferSize
  <2> HIDE DEF lost, s
  <2>1. QED BY <1>8, <1>9, SMT
<1>12. CASE n = 0
  <2>1. batch = <<>>
    BY <1>4, <1>12, EmptySeq
  <2>2. pushed = uartToTcp
    BY <1>1, <2>1, ConcatEmptySeq DEF pushed
  <2>3. Len(uartToTcp) <= BufferSize /\ BufferSize \in Nat
    BY ConstantsOK DEF LinkInv, SessionInv, TypeOK, RingsTypeOK
  <2>4. lost = 0
    <3> HIDE DEF lost
    <3>1. QED BY <1>8, <1>9, <2>2, <2>3, SMT
  <2>5. Drop(uartToTcp, 0) = uartToTcp
    BY <1>1, SubSeqFull DEF Drop
  <2>6. uartToTcp' = uartToTcp /\ drained' = drained
    BY <1>1, <1>6, <1>12, <2>2, <2>4, <2>5, SMT
  <2>7. UNCHANGED Link!linkVars
    BY <1>5, <2>6 DEF Link!linkVars
  <2>8. QED BY <2>7
<1>13. CASE n # 0
  <2>1. n \in 1 .. Max({ChunkSize, StageSize})
    BY <1>3, <1>13, MaxBatchOK
  <2>2. Link!FromPanel(n)
    <3>1. /\ Len(sendStage) \in 0 .. Len(s) /\ Len(sendStage) + lost \in 0 .. Len(s)
      BY <1>11
    <3>2. \E i, j \in 0 .. Len(s) :
            /\ i <= j /\ (i < j => Len(s) - j = BufferSize)
            /\ UnderWay' = SubSeq(s, 1, i) \o SubSeq(s, j + 1, Len(s))
      <4> HIDE DEF lost, s
      <4>1. QED BY <1>10, <1>11
    <3>3. QED BY <1>5, <1>6, <3>2 DEF Link!FromPanel, UnderWay, batch
  <2>3. QED BY <2>1, <2>2 DEF Link!LinkNext
<1>14. QED BY <1>12, <1>13

LEMMA PumpSendIsToClient ==
  ASSUME LinkInv, PumpSend
  PROVE  [Link!LinkNext]_(Link!linkVars)
<1>1. PICK k \in 0 .. Len(Staged) :
        /\ sendStage' = Drop(Staged, k)
        /\ delivered' = delivered \o
             [i \in 1..k |-> [conn |-> clientSocket, byte |-> Staged[i]]]
        /\ peer' = IF k > 0 /\ peer[clientSocket] = "gone"
                   THEN [peer EXCEPT ![clientSocket] = "unacked"] ELSE peer
  BY DEF PumpSend
<1>2. /\ Staged \in Seq(PanelBytes) /\ RingAfterRefill \in Seq(PanelBytes)
      /\ Staged \o RingAfterRefill = UnderWay /\ UnderWay \in Seq(PanelBytes)
      /\ Len(UnderWay) = Len(Staged) + Len(RingAfterRefill)
      /\ Len(Staged) \in Nat /\ Len(RingAfterRefill) \in Nat /\ Len(Staged) <= StageSize
  BY RefillIsStutter, RefillOK, LenProperties DEF LinkInv, SessionInv, TypeOK
<1>3. /\ UNCHANGED <<clientSocket, drained, read, tcpToUart, written>>
      /\ uartToTcp' = RingAfterRefill /\ clientSocket # NoSocket
  BY DEF PumpSend, InBridge
<1>4. UnderWay' = Drop(UnderWay, k)
  BY <1>1, <1>2, <1>3, DropOfConcat DEF UnderWay
<1>5. peer \in [Conns -> PeerStates]
  BY DEF LinkInv, SessionInv, TypeOK, EnvTypeOK
<1>6. {c \in Conns : peer'[c] = "closed" \/ c = clientSocket'}
        = {c \in Conns : peer[c] = "closed" \/ c = clientSocket}
  BY <1>1, <1>3, <1>5
<1>7. CASE k = 0
  <2>1. [i \in 1..k |-> [conn |-> clientSocket, byte |-> Staged[i]]] = <<>>
    BY <1>7, SMT
  <2>2. delivered' = delivered
    BY <1>1, <2>1, ConcatEmptySeq DEF LinkInv, SessionInv, TypeOK, HistoryTypeOK
  <2>3. UnderWay' = UnderWay
    BY <1>2, <1>4, <1>7, SubSeqFull DEF Drop
  <2>4. UNCHANGED Link!linkVars
    BY <1>3, <1>6, <2>2, <2>3 DEF Link!linkVars, UnderWay
  <2>5. QED BY <2>4
<1>8. CASE k # 0
  <2>1. k \in 1 .. Max({ChunkSize, StageSize})
    <3>1. k \in Nat \ {0} /\ k <= StageSize
      BY <1>2, <1>8, ConstantsOK, SMT
    <3>2. QED BY <3>1, MaxBatchOK
  <2>2. k <= Len(UnderWay) /\ k \in 1 .. Len(Staged)
    BY <1>2, <1>8, SMT
  <2>3. \A i \in 1..k : UnderWay[i] = Staged[i]
    <3>1. \A i \in 1..k : i \in 1 .. Len(Staged) + Len(RingAfterRefill) /\ i <= Len(Staged)
      BY <1>2, SMT
    <3>2. QED BY <1>2, <3>1, ConcatProperties
  <2>4. [i \in 1..k |-> [conn |-> clientSocket, byte |-> Staged[i]]]
          = [i \in 1..k |-> [conn |-> clientSocket, byte |-> UnderWay[i]]]
    BY <2>3
  <2>5. /\ delivered' = delivered \o [i \in 1..k |-> [conn |-> clientSocket, byte |-> UnderWay[i]]]
        /\ UnderWay' = SubSeq(UnderWay, k + 1, Len(UnderWay))
    BY <1>1, <1>4, <2>4 DEF Drop
  <2>6. Link!ToClient(k)
    BY <1>3, <1>6, <2>2, <2>5 DEF Link!ToClient, Link!NoOne, NoSocket, UnderWay
  <2>7. QED BY <2>1, <2>6 DEF Link!LinkNext
<1>9. QED BY <1>7, <1>8

\* A session's end takes some of the oldest bytes under way with it: those staged.
LEMMA EndIsReturn ==
  ASSUME LinkInv, SendError \/ ReadEnds
  PROVE  Link!LinkNext
<1>1. /\ clientSocket # NoSocket /\ clientSocket' = NoSocket /\ sendStage' = <<>>
      /\ peer' = [peer EXCEPT ![clientSocket] = "closed"]
      /\ UNCHANGED <<drained, read, tcpToUart, written, delivered>>
  BY DEF SendError, ReadEnds, Reading, InBridge, EndSession, historyVars
<1>2. /\ TypeOK /\ peer \in [Conns -> PeerStates]
      /\ sendStage \in Seq(PanelBytes) /\ uartToTcp \in Seq(PanelBytes)
  BY DEF LinkInv, SessionInv, TypeOK, EnvTypeOK, RingsTypeOK
<1>3. /\ Staged \in Seq(PanelBytes) /\ RingAfterRefill \in Seq(PanelBytes)
      /\ Staged \o RingAfterRefill = UnderWay
      /\ Len(UnderWay) = Len(Staged) + Len(RingAfterRefill)
  BY <1>2, RefillIsStutter
<1>4. \E k \in 0 .. Len(UnderWay) : UnderWay' = SubSeq(UnderWay, k + 1, Len(UnderWay))
  <2>1. CASE SendError
    <3>1. UnderWay' = RingAfterRefill
      BY <1>1, <1>3, <2>1, ConcatEmptySeq DEF UnderWay, SendError
    <3>2. RingAfterRefill = Drop(UnderWay, Len(Staged)) /\ Len(Staged) \in 0 .. Len(UnderWay)
      <4>1. Len(Staged) \in Nat /\ Len(RingAfterRefill) \in Nat
        BY <1>3, LenProperties
      <4>2. Len(Staged) \in 0 .. Len(UnderWay)
        BY <1>3, <4>1, SMT
      <4>3. QED BY <1>3, <4>2, DropFirst
    <3>3. QED BY <3>1, <3>2 DEF Drop
  <2>2. CASE ReadEnds
    <3>1. UnderWay' = uartToTcp
      BY <1>1, <1>2, <2>2, ConcatEmptySeq DEF UnderWay, ReadEnds
    <3>2. uartToTcp = Drop(UnderWay, Len(sendStage)) /\ Len(sendStage) \in 0 .. Len(UnderWay)
      BY <1>2, DropFirst, ConcatProperties, LenProperties, SMT DEF UnderWay
    <3>3. QED BY <3>1, <3>2 DEF Drop
  <2>3. QED BY <2>1, <2>2
<1>5. {c \in Conns : peer[c] = "closed" \/ c = clientSocket}
        \subseteq {c \in Conns : peer'[c] = "closed" \/ c = clientSocket'}
  BY <1>1, <1>2
<1>6. Link!Return
  BY <1>1, <1>4, <1>5 DEF Link!Return, Link!NoOne, NoSocket, UnderWay
<1>7. QED BY <1>6 DEF Link!LinkNext

LEMMA ShutdownIsReturn ==
  ASSUME LinkInv, OnShutdown
  PROVE  Link!LinkNext
<1>1. /\ clientSocket' = NoSocket
      /\ peer' = [c \in Conns |-> IF c = clientSocket \/ c \in Range(backlog)
                                  THEN "closed" ELSE peer[c]]
      /\ UNCHANGED <<uartToTcp, sendStage, drained, read, tcpToUart, written, delivered>>
  BY DEF OnShutdown, historyVars
<1>2. {c \in Conns : peer[c] = "closed" \/ c = clientSocket}
        \subseteq {c \in Conns : peer'[c] = "closed" \/ c = clientSocket'}
  BY <1>1
<1>3. CASE clientSocket = NoSocket
  <2>1. Link!Shut
    BY <1>1, <1>2, <1>3 DEF Link!Shut, Link!NoOne, NoSocket
  <2>2. QED BY <2>1 DEF Link!LinkNext
<1>4. CASE clientSocket # NoSocket
  <2>1. UnderWay \in Seq(PanelBytes)
    BY RefillIsStutter DEF LinkInv, SessionInv
  <2>2. 0 \in 0 .. Len(UnderWay) /\ SubSeq(UnderWay, 0 + 1, Len(UnderWay)) = UnderWay
    BY <2>1, SubSeqFull, LenProperties, SMT
  <2>3. UnderWay' = UnderWay
    BY <1>1 DEF UnderWay
  <2>4. \E k \in 0 .. Len(UnderWay) : UnderWay' = SubSeq(UnderWay, k + 1, Len(UnderWay))
    BY <2>2, <2>3
  <2>5. Link!Return
    BY <1>1, <1>2, <1>4, <2>4 DEF Link!Return, Link!NoOne, NoSocket, UnderWay
  <2>6. QED BY <2>5 DEF Link!LinkNext
<1>5. QED BY <1>3, <1>4

LEMMA RejectIsTurnAway ==
  ASSUME LinkInv, RejectClient
  PROVE  Link!LinkNext
<1>1. PICK h \in Conns : h = Head(backlog) /\ \A c \in Answered : c < h
  BY HeadOfBacklog DEF RejectClient
<1>2. /\ peer' = [peer EXCEPT ![h] = "closed"]
      /\ UNCHANGED <<clientSocket, uartToTcp, sendStage, drained, read, tcpToUart, written,
                     delivered>>
  BY <1>1 DEF RejectClient, historyVars
<1>3. clientSocket # NoSocket
  <2>1. IsBridgeMode(session)
    BY DEF RejectClient, OnConnectResult
  <2>2. QED BY <2>1 DEF RejectClient, LinkInv, SessionInv, SessionInSync
<1>4. peer \in [Conns -> PeerStates]
  BY DEF LinkInv, SessionInv, TypeOK, EnvTypeOK
<1>5. {c \in Conns : peer'[c] = "closed" \/ c = clientSocket'}
        = {c \in Conns : peer[c] = "closed" \/ c = clientSocket} \cup {h}
  BY <1>1, <1>2, <1>4
<1>6. Link!TurnAway(h)
  BY <1>1, <1>2, <1>3, <1>5 DEF Link!TurnAway, Link!InTurn, Link!NoOne, NoSocket, Answered
<1>7. \E c \in Conns : Link!Lend(c) \/ Link!TurnAway(c)
  BY <1>1, <1>6
<1>8. QED BY <1>7 DEF Link!LinkNext

LEMMA PromoteIsLend ==
  ASSUME LinkInv, PromoteClient
  PROVE  Link!LinkNext
<1>1. PICK h \in Conns : h = Head(backlog) /\ \A c \in Answered : c < h
  BY HeadOfBacklog DEF PromoteClient
<1>2. /\ clientSocket' = h
      /\ uartToTcp' = <<>> /\ tcpToUart' = <<>> /\ sendStage' = <<>>
      /\ UNCHANGED <<peer, drained, read, written, delivered>>
  BY <1>1 DEF PromoteClient
<1>3. clientSocket = NoSocket /\ NoSocket \notin Conns
  BY PromotedFromMonitor, ConstantsOK, SMT DEF LinkInv, Conns, NoSocket
<1>4. {c \in Conns : peer'[c] = "closed" \/ c = clientSocket'}
        = {c \in Conns : peer[c] = "closed" \/ c = clientSocket} \cup {h}
  BY <1>1, <1>2, <1>3
<1>5. sendStage' \o uartToTcp' = <<>>
  BY <1>2, ConcatEmptySeq, EmptySeq
<1>6. Link!Lend(h)
  BY <1>1, <1>2, <1>3, <1>4, <1>5 DEF Link!Lend, Link!InTurn, Link!NoOne, NoSocket, Answered
<1>7. \E c \in Conns : Link!Lend(c) \/ Link!TurnAway(c)
  BY <1>1, <1>6
<1>8. QED BY <1>7 DEF Link!LinkNext

LEMMA PumpReadIsFromClient ==
  ASSUME LinkInv, PumpRead
  PROVE  Link!LinkNext
<1>1. /\ clientSocket \in Conns /\ clientSocket # NoSocket
      /\ tcpToUart \in Seq(ClientBytes) /\ Len(tcpToUart) < BufferSize
      /\ read[clientSocket] \in 0..MaxClientBytes /\ sent[clientSocket] \in 0..MaxClientBytes
      /\ read[clientSocket] <= sent[clientSocket]
  BY DEF PumpRead, Reading, InBridge, LinkInv, SessionInv, TypeOK, ControlTypeOK, RingsTypeOK,
         EnvTypeOK
<1>2. PICK n \in 1 .. Min({Room, ChunkSize, Unread(clientSocket)}) :
        LET bytes == Bytes(clientSocket, read[clientSocket], n)
        IN  /\ tcpToUart' = Take(tcpToUart \o bytes, BufferSize)
            /\ read' = [read EXCEPT ![clientSocket] = @ + n]
  BY DEF PumpRead
<1>3. Len(tcpToUart) \in Nat
  BY <1>1, LenProperties
<1>4. n \in Nat /\ 1 <= n /\ n <= Room /\ n <= ChunkSize /\ n <= Unread(clientSocket)
  <2>1. Room \in Nat /\ ChunkSize \in Nat /\ Unread(clientSocket) \in Nat
    BY <1>1, <1>3, ConstantsOK, SMT DEF Room, Unread
  <2>2. QED BY <2>1, MinOfThree
<1> DEFINE bytes == Bytes(clientSocket, read[clientSocket], n)
<1>5. bytes \in Seq(ClientBytes) /\ Len(bytes) = n
  <2>1. read[clientSocket] \in Nat /\ read[clientSocket] + n <= MaxClientBytes
    BY <1>1, <1>4, ConstantsOK, SMT DEF Unread
  <2>2. QED BY <1>1, <1>4, <2>1, BytesOK
<1>6. tcpToUart' = Take(tcpToUart \o bytes, BufferSize)
  BY <1>2
<1>7. bytes = [i \in 1..n |-> [conn |-> clientSocket, n |-> read[clientSocket] + i]]
  BY DEF Bytes
<1> HIDE DEF bytes
<1> DEFINE whole == tcpToUart \o bytes
<1>8. whole \in Seq(ClientBytes) /\ Len(whole) = Len(tcpToUart) + n
  BY <1>1, <1>5, ConcatProperties
<1>9. Len(tcpToUart) + n <= BufferSize
  BY <1>3, <1>4, ConstantsOK, SMT DEF Room
<1>10. tcpToUart' = whole
  <2> HIDE DEF whole
  <2>1. BufferSize \in Int /\ Len(whole) \in Int
    BY <1>8, ConstantsOK, LenProperties, SMT
  <2>2. Min({BufferSize, Len(whole)}) = Len(whole)
    BY <1>8, <1>9, <2>1, MinMaxOfTwo, SMT
  <2>3. Take(whole, BufferSize) = whole
    BY <1>8, <2>2, SubSeqFull DEF Take
  <2>4. QED BY <1>6, <2>3 DEF whole
<1>11. /\ read' = [read EXCEPT ![clientSocket] = @ + n]
       /\ UNCHANGED <<clientSocket, peer, uartToTcp, sendStage, drained, written, delivered>>
  BY <1>2 DEF PumpRead, historyVars
<1>12. n \in 1 .. Max({ChunkSize, StageSize})
  BY <1>4, MaxBatchOK, SMT
<1>13. Link!FromClient(n)
  BY <1>1, <1>7, <1>9, <1>10, <1>11 DEF Link!FromClient, Link!NoOne, NoSocket, whole
<1>14. QED BY <1>12, <1>13 DEF Link!LinkNext

LEMMA DrainIsToPanel ==
  ASSUME DrainToUart
  PROVE  Link!LinkNext
BY DEF DrainToUart, envVars, Link!ToPanel, Link!LinkNext

\* What the panel and the clients do, and the steps between two calls, the line does
\* not see.
LEMMA OthersStutter ==
  ASSUME LinkInv,
         \/ Setup \/ AcceptNothing \/ SendNothing \/ SkipRead \/ ReadNothing \/ CaptureTick
         \/ Environment \/ UNCHANGED vars
  PROVE  UNCHANGED Link!linkVars
<1>1. peer \in [Conns -> PeerStates]
  BY DEF LinkInv, SessionInv, TypeOK, EnvTypeOK
<1>2. /\ \A c \in Conns : (peer'[c] = "closed") <=> (peer[c] = "closed")
      /\ UNCHANGED <<clientSocket, drained, read, written, delivered>>
  BY <1>1
  DEF Setup, AcceptNothing, SendNothing, SkipRead, ReadNothing, CaptureTick, Environment,
      PanelSends, Connect, ClientSends, ClientLeaves, ClientVanishes, RetransmitTimeout,
      vars, bridgeVars, envVars, historyVars
<1>3. UNCHANGED <<sendStage, uartToTcp, tcpToUart>>
  BY DEF LinkInv, Setup, AcceptNothing, SendNothing, SkipRead, ReadNothing, CaptureTick,
         Environment, PanelSends, Connect, ClientSends, ClientLeaves, ClientVanishes,
         RetransmitTimeout, vars, bridgeVars
<1>4. {c \in Conns : peer'[c] = "closed" \/ c = clientSocket'}
        = {c \in Conns : peer[c] = "closed" \/ c = clientSocket}
  BY <1>2
<1>5. QED BY <1>2, <1>3, <1>4 DEF Link!linkVars

LEMMA NextLink == LinkInv /\ [Next]_vars => [Link!LinkNext]_(Link!linkVars)
BY PumpUartIsFromPanel, PumpSendIsToClient, EndIsReturn, ShutdownIsReturn, RejectIsTurnAway,
   PromoteIsLend, PumpReadIsFromClient, DrainIsToPanel, OthersStutter
DEF Next, Loop, AcceptPending, Halted

\* The bridge is a serial line lent to one client at a time, whatever the sizes of its
\* rings and stage and however many clients come, leave, vanish and overlap.
THEOREM BridgeIsLine == Spec => ImplementsLink
BY InitLink, NextLink, LinkInvariant, PTL DEF Spec, ImplementsLink, Link!LinkSpec

\* Line and Link are the same specification under the same mapping.
LEMMA LineIsLink ==
  /\ Link!LinkInit <=> Line!LinkInit
  /\ [Link!LinkNext]_(Link!linkVars) <=> [Line!LinkNext]_(Line!linkVars)
  /\ Link!StreamToPanel <=> Line!StreamToPanel
  /\ Link!StreamToClient <=> Line!StreamToClient
<1> USE DEF Link!NoOne, Line!NoOne
<1>1. Link!LinkInit <=> Line!LinkInit
  BY DEF Link!LinkInit, Line!LinkInit
<1>2. Link!LinkNext <=> Line!LinkNext
  BY DEF Link!LinkNext, Line!LinkNext, Link!Return, Line!Return, Link!Shut, Line!Shut,
         Link!ToPanel, Line!ToPanel, Link!Lend, Line!Lend, Link!TurnAway, Line!TurnAway,
         Link!InTurn, Line!InTurn, Link!FromPanel, Line!FromPanel, Link!ToClient, Line!ToClient,
         Link!FromClient, Line!FromClient
<1>3. Link!linkVars = Line!linkVars /\ (UNCHANGED Link!linkVars <=> UNCHANGED Line!linkVars)
  BY DEF Link!linkVars, Line!linkVars
<1>4. Link!StreamToPanel <=> Line!StreamToPanel
  BY DEF Link!StreamToPanel, Line!StreamToPanel
<1>5. Link!StreamToClient <=> Line!StreamToClient
  BY DEF Link!StreamToClient, Line!StreamToClient
<1>6. QED BY <1>1, <1>2, <1>3, <1>4, <1>5

LEMMA BridgeIsProvedLine == Spec => Line!LinkSpec
<1>1. Init => Line!LinkInit
  BY InitLink, LineIsLink
<1>2. LinkInv /\ [Next]_vars => [Line!LinkNext]_(Line!linkVars)
  BY NextLink, LineIsLink
<1>3. QED BY <1>1, <1>2, LinkInvariant, PTL DEF Spec, Line!LinkSpec

LEMMA MappedConstantsOK ==
  Conns \subseteq Nat \ {0} /\ Max({ChunkSize, StageSize}) \in Nat
BY ConstantsOK, MaxBatchOK, SMT DEF Conns

\* No byte of the session's client is lost, repeated or overtaken on its way to the panel,
\* across every reconnect.
THEOREM PanelStreamCorrect == Spec => []PanelStreamIntact
<1>1. Line!LinkSpec => []Line!StreamToPanel
  BY MappedConstantsOK, Line!LinkToPanel
<1>2. Line!StreamToPanel => PanelStreamIntact
  BY LineIsLink DEF PanelStreamIntact
<1>3. QED BY <1>1, <1>2, BridgeIsProvedLine, PTL

\* No reconnect replays an old session's panel bytes to the new client.
THEOREM DeliveryCorrect == Spec => []DeliveredInOrder
<1>1. Line!LinkSpec => []Line!StreamToClient
  BY MappedConstantsOK, Line!LinkToClient
<1>2. Line!StreamToClient => DeliveredInOrder
  BY LineIsLink DEF DeliveredInOrder
<1>3. QED BY <1>1, <1>2, BridgeIsProvedLine, PTL

-----------------------------------------------------------------------------
(* What a session's client gets, and what it misses *)

BytesOf(d) == [i \in DOMAIN d |-> d[i].byte]

\* What the session's client was sent, and what it was sent with what is under way to it.
Mine == SubSeq(delivered, mark.sofar + 1, Len(delivered))
SessionStream == BytesOf(Mine) \o sendStage \o uartToTcp

\* The order is stated of every two bytes, not of neighbours: an overflow makes neighbours
\* of bytes that were none.
SinceAccept ==
  /\ \A i \in DOMAIN Mine : Mine[i].conn = clientSocket
  /\ Line!Rising(SessionStream)
  /\ \A i \in DOMAIN SessionStream : mark.from < SessionStream[i] /\ SessionStream[i] <= drained
  /\ Len(SessionStream) + (uartDrops - mark.drops) = drained - mark.from

StreamInv ==
  /\ SessionInv
  /\ mark.sofar <= Len(delivered) /\ mark.from <= drained
  /\ clientSocket # NoSocket => SinceAccept

LEMMA BytesOfConcat ==
  ASSUME NEW a \in Seq(Deliveries), NEW b \in Seq(Deliveries)
  PROVE  /\ BytesOf(a) \in Seq(PanelBytes) /\ Len(BytesOf(a)) = Len(a)
         /\ BytesOf(a \o b) = BytesOf(a) \o BytesOf(b)
<1>1. ASSUME NEW d \in Seq(Deliveries)
      PROVE  /\ BytesOf(d) \in Seq(PanelBytes) /\ Len(BytesOf(d)) = Len(d)
             /\ \A i \in 1 .. Len(d) : BytesOf(d)[i] = d[i].byte
  <2>1. Len(d) \in Nat /\ DOMAIN d = 1 .. Len(d) /\ \A i \in 1 .. Len(d) : d[i] \in Deliveries
    BY LenProperties, ElementOfSeq
  <2>2. \A i \in 1 .. Len(d) : d[i].byte \in PanelBytes
    BY <2>1 DEF Deliveries
  <2>3. BytesOf(d) = [i \in 1 .. Len(d) |-> d[i].byte]
    BY <2>1 DEF BytesOf
  <2>4. QED BY <2>1, <2>2, <2>3
<1> DEFINE x == BytesOf(a)
           y == BytesOf(b)
           z == BytesOf(a \o b)
<1>2. /\ a \o b \in Seq(Deliveries) /\ Len(a \o b) = Len(a) + Len(b)
      /\ \A i \in 1 .. Len(a) + Len(b) : (a \o b)[i] = IF i <= Len(a) THEN a[i] ELSE b[i - Len(a)]
      /\ Len(a) \in Nat /\ Len(b) \in Nat
  BY ConcatProperties, LenProperties
<1>3. /\ x \in Seq(PanelBytes) /\ Len(x) = Len(a) /\ \A i \in 1 .. Len(a) : x[i] = a[i].byte
      /\ y \in Seq(PanelBytes) /\ Len(y) = Len(b) /\ \A i \in 1 .. Len(b) : y[i] = b[i].byte
      /\ z \in Seq(PanelBytes) /\ Len(z) = Len(a) + Len(b)
      /\ \A i \in 1 .. Len(a) + Len(b) : z[i] = (a \o b)[i].byte
  BY <1>1, <1>2
<1> HIDE DEF x, y, z
<1>4. /\ x \o y \in Seq(PanelBytes) /\ Len(x \o y) = Len(a) + Len(b)
      /\ \A i \in 1 .. Len(a) + Len(b) : (x \o y)[i] = IF i <= Len(a) THEN x[i] ELSE y[i - Len(a)]
  <2>1. /\ x \o y \in Seq(PanelBytes) /\ Len(x \o y) = Len(x) + Len(y)
        /\ \A i \in 1 .. Len(x) + Len(y) : (x \o y)[i] = IF i <= Len(x) THEN x[i] ELSE y[i - Len(x)]
    <3>1. x \in Seq(PanelBytes) /\ y \in Seq(PanelBytes)
      BY <1>3
    <3>2. QED BY <3>1, ConcatProperties
  <2>2. QED BY <1>3, <2>1
<1>5. ASSUME NEW i \in 1 .. Len(a) + Len(b) PROVE z[i] = (x \o y)[i]
  <2>1. CASE i <= Len(a)
    <3>1. i \in 1 .. Len(a)
      BY <1>2, <2>1, SMT
    <3>2. QED BY <1>2, <1>3, <1>4, <2>1, <3>1
  <2>2. CASE ~(i <= Len(a))
    <3>1. i - Len(a) \in 1 .. Len(b)
      BY <1>2, <2>2, SMT
    <3>2. QED BY <1>2, <1>3, <1>4, <2>2, <3>1
  <2>3. QED BY <2>1, <2>2
<1>6. z = x \o y
  BY <1>3, <1>4, <1>5, SeqEqual
<1>7. QED BY <1>3, <1>6 DEF x, y, z

\* Newer bytes join at the end.
LEMMA RisingWithMore ==
  ASSUME NEW s \in Seq(Nat), Line!Rising(s), NEW d \in Nat, NEW n \in Nat, NEW from \in Nat,
         from <= d, \A i \in DOMAIN s : from < s[i] /\ s[i] <= d
  PROVE  LET t == s \o [i \in 1..n |-> d + i]
         IN  /\ t \in Seq(Nat) /\ Len(t) = Len(s) + n
             /\ Line!Rising(t)
             /\ \A i \in DOMAIN t : from < t[i] /\ t[i] <= d + n
<1> DEFINE more == [i \in 1..n |-> d + i]
           t == s \o more
<1>1. more \in Seq(Nat) /\ Len(more) = n /\ \A i \in 1..n : more[i] = d + i
  BY SMT
<1> HIDE DEF more
<1>2. /\ t \in Seq(Nat) /\ Len(t) = Len(s) + n /\ Len(s) \in Nat
      /\ DOMAIN t = 1 .. Len(s) + n /\ DOMAIN s = 1 .. Len(s)
      /\ \A i \in 1 .. Len(s) + n : t[i] = IF i <= Len(s) THEN s[i] ELSE more[i - Len(s)]
  <2>1. /\ t \in Seq(Nat) /\ Len(t) = Len(s) + Len(more)
        /\ \A i \in 1 .. Len(s) + Len(more) : t[i] = IF i <= Len(s) THEN s[i] ELSE more[i - Len(s)]
    BY <1>1, ConcatProperties
  <2> HIDE DEF t
  <2>2. /\ Len(s) \in Nat /\ DOMAIN t = 1 .. Len(t) /\ DOMAIN s = 1 .. Len(s)
    BY <2>1, LenProperties
  <2>3. QED BY <1>1, <2>1, <2>2
<1> HIDE DEF t
<1>3. ASSUME NEW i \in DOMAIN t
      PROVE  \/ i \in DOMAIN s /\ t[i] = s[i] /\ t[i] \in Nat /\ t[i] <= d
             \/ i - Len(s) \in 1..n /\ t[i] = d + (i - Len(s)) /\ t[i] > d
  <2>1. CASE i <= Len(s)
    <3>1. i \in DOMAIN s
      BY <1>2, <2>1, SMT
    <3>2. s[i] \in Nat
      BY <1>2, <3>1, ElementOfSeq
    <3>3. QED BY <1>2, <2>1, <3>1, <3>2
  <2>2. CASE ~(i <= Len(s))
    <3>1. i - Len(s) \in 1..n
      BY <1>2, <2>2, SMT
    <3>2. t[i] = d + (i - Len(s))
      BY <1>1, <1>2, <2>2, <3>1
    <3>3. QED BY <3>1, <3>2, SMT
  <2>3. QED BY <2>1, <2>2
<1>4. ASSUME NEW i \in DOMAIN t, NEW j \in DOMAIN t, i < j PROVE t[i] < t[j]
  <2>1. CASE i \in DOMAIN s /\ t[i] = s[i] /\ j \in DOMAIN s /\ t[j] = s[j]
    BY <1>4, <2>1 DEF Line!Rising
  <2>2. CASE i \in DOMAIN s /\ t[i] \in Nat /\ t[i] <= d /\ t[j] > d /\ j - Len(s) \in 1..n
             /\ t[j] = d + (j - Len(s))
    BY <1>2, <2>2, SMT
  <2>3. CASE i - Len(s) \in 1..n /\ t[i] = d + (i - Len(s)) /\ j \in DOMAIN s
    BY <1>2, <1>4, <2>3, SMT
  <2>4. CASE i - Len(s) \in 1..n /\ t[i] = d + (i - Len(s))
             /\ j - Len(s) \in 1..n /\ t[j] = d + (j - Len(s))
    BY <1>2, <1>4, <2>4, SMT
  <2>5. QED BY <1>3, <2>1, <2>2, <2>3, <2>4
<1>5. ASSUME NEW i \in DOMAIN t PROVE from < t[i] /\ t[i] <= d + n
  <2>1. CASE i \in DOMAIN s /\ t[i] = s[i] /\ t[i] \in Nat
    <3>1. from < t[i] /\ t[i] <= d
      BY <2>1
    <3>2. QED BY <2>1, <3>1, SMT
  <2>2. CASE i - Len(s) \in 1..n /\ t[i] = d + (i - Len(s))
    BY <2>2, SMT
  <2>3. QED BY <1>3, <2>1, <2>2
<1>6. QED BY <1>2, <1>4, <1>5 DEF t, more, Line!Rising

LEMMA StreamTypes ==
  ASSUME TypeOK
  PROVE  /\ Mine \in Seq(Deliveries) /\ BytesOf(Mine) \in Seq(PanelBytes)
         /\ sendStage \in Seq(PanelBytes) /\ uartToTcp \in Seq(PanelBytes)
         /\ BytesOf(Mine) \o sendStage \in Seq(PanelBytes)
         /\ SessionStream \in Seq(PanelBytes)
         /\ SessionStream = BytesOf(Mine) \o UnderWay
         /\ drained \in Nat /\ uartDrops \in Nat
         /\ mark.from \in Nat /\ mark.drops \in Nat /\ mark.sofar \in Nat
         /\ delivered \in Seq(Deliveries)
<1>1. /\ delivered \in Seq(Deliveries) /\ mark.sofar \in Nat
      /\ mark.from \in Nat /\ mark.drops \in Nat
      /\ sendStage \in Seq(PanelBytes) /\ uartToTcp \in Seq(PanelBytes)
      /\ drained \in Nat /\ uartDrops \in Nat
  BY ConstantsOK, SMT DEF TypeOK, HistoryTypeOK, RingsTypeOK, EnvTypeOK
<1>2. Mine \in Seq(Deliveries)
  BY <1>1, DropProperties DEF Mine, Drop
<1>3. BytesOf(Mine) \in Seq(PanelBytes)
  BY <1>2, BytesOfConcat
<1>4. BytesOf(Mine) \o sendStage \in Seq(PanelBytes)
  BY <1>1, <1>3, ConcatProperties
<1>5. SessionStream \in Seq(PanelBytes)
  BY <1>1, <1>4, ConcatProperties DEF SessionStream
<1>6. SessionStream = BytesOf(Mine) \o UnderWay
  <2> DEFINE a == BytesOf(Mine)
  <2>1. a \in Seq(PanelBytes) /\ SessionStream = (a \o sendStage) \o uartToTcp
    BY <1>3 DEF SessionStream
  <2> HIDE DEF a
  <2>2. a \in Seq(PanelBytes) /\ sendStage \in Seq(PanelBytes) /\ uartToTcp \in Seq(PanelBytes)
    BY <1>1, <2>1
  <2>3. (a \o sendStage) \o uartToTcp = a \o (sendStage \o uartToTcp)
    BY <2>2, PanelBytesAssociate
  <2>4. QED BY <2>1, <2>3 DEF a, UnderWay
<1>7. QED BY <1>1, <1>2, <1>3, <1>4, <1>5, <1>6

LEMMA InitStreamInv == Init => StreamInv
BY InitSessionInv, EmptySeq, SMT DEF Init, StreamInv

\* The session starts with nothing sent, nothing under way and nothing missing.
LEMMA StreamAfterPromote ==
  ASSUME StreamInv, PromoteClient
  PROVE  mark'.sofar <= Len(delivered') /\ mark'.from <= drained' /\ SinceAccept'
<1>1. /\ mark' = [from |-> drained, drops |-> uartDrops, sofar |-> Len(delivered)]
      /\ delivered' = delivered /\ drained' = drained /\ uartDrops' = uartDrops
      /\ sendStage' = <<>> /\ uartToTcp' = <<>>
  BY DEF PromoteClient
<1>2. /\ delivered \in Seq(Deliveries) /\ drained \in Nat /\ uartDrops \in Nat
      /\ Len(delivered) \in Nat
  BY StreamTypes, LenProperties DEF StreamInv, SessionInv
<1>3. Mine' = <<>>
  <2>1. Mine' = SubSeq(delivered, Len(delivered) + 1, Len(delivered))
    BY <1>1 DEF Mine
  <2>2. QED BY <1>2, <2>1, SubSeqEmpty, SMT
<1>4. DOMAIN Mine' = {} /\ BytesOf(Mine)' = <<>>
  <2>1. DOMAIN Mine' = {}
    BY <1>3, EmptySeq, SMT
  <2> DEFINE b == BytesOf(Mine)'
  <2>2. b \in Seq(PanelBytes) /\ Len(b) = 0
    <3>1. Mine' = <<>> /\ <<>> \in Seq(Deliveries) /\ Len(<<>>) = 0
      BY <1>3, EmptySeq
    <3>2. b = BytesOf(<<>>)
      BY <3>1 DEF BytesOf
    <3>3. QED BY <3>1, <3>2, BytesOfConcat
  <2> HIDE DEF b
  <2>3. b = <<>>
    BY <2>2, EmptySeq
  <2>4. QED BY <2>1, <2>3 DEF b
<1>5. SessionStream' = <<>>
  BY <1>1, <1>4, SMT DEF SessionStream
<1>6. QED BY <1>1, <1>2, <1>4, <1>5, SMT DEF SinceAccept, Line!Rising

LEMMA PanelBytesAreNat ==
  ASSUME NEW s \in Seq(PanelBytes)
  PROVE  s \in Seq(Nat)
<1>1. Len(s) \in Nat /\ DOMAIN s = 1 .. Len(s) /\ s = [i \in 1 .. Len(s) |-> s[i]]
  BY LenProperties, SMT
<1>2. \A i \in 1 .. Len(s) : s[i] \in Nat
  <2> SUFFICES ASSUME NEW i \in 1 .. Len(s) PROVE s[i] \in Nat
    OBVIOUS
  <2>1. s[i] \in PanelBytes
    BY ElementOfSeq
  <2>2. QED BY <2>1, SMT DEF PanelBytes
<1>3. QED BY <1>1, <1>2, IsASeq

\* A batch joins at the end, an overflow cuts a stretch out of the middle and counts it.
LEMMA StreamAfterPumpUart ==
  ASSUME StreamInv, PumpUart, clientSocket # NoSocket
  PROVE  SinceAccept'
<1>1. /\ TypeOK /\ SinceAccept
      /\ UNCHANGED <<clientSocket, sendStage, delivered, mark>>
  BY DEF StreamInv, SessionInv, PumpUart, historyVars
<1>2. /\ BytesOf(Mine) \in Seq(PanelBytes) /\ sendStage \in Seq(PanelBytes)
      /\ uartToTcp \in Seq(PanelBytes) /\ BytesOf(Mine) \o sendStage \in Seq(PanelBytes)
      /\ SessionStream \in Seq(PanelBytes)
      /\ drained \in Nat /\ uartDrops \in Nat /\ mark.from \in Nat /\ mark.drops \in Nat
  BY <1>1, StreamTypes
<1>3. PICK n \in 0 .. ChunkSize :
        LET batch == [i \in 1..n |-> drained + i]
            pushed == uartToTcp \o batch
            lost == Overflow(pushed)
        IN  /\ batch \in Seq(PanelBytes) /\ Len(batch) = n
            /\ pushed \in Seq(PanelBytes) /\ Len(pushed) = Len(uartToTcp) + n
            /\ lost \in 0 .. Len(pushed)
            /\ uartToTcp' = Drop(pushed, lost)
            /\ uartDrops' = uartDrops + lost
            /\ drained' = drained + n
  BY <1>1, PumpUartMoves
<1> DEFINE batch == [i \in 1..n |-> drained + i]
           pushed == uartToTcp \o batch
           lost == Overflow(pushed)
           head == BytesOf(Mine) \o sendStage
           s == head \o uartToTcp
           t == s \o batch
           u == head \o Drop(pushed, lost)
<1>4. n \in Nat
  BY ConstantsOK, SMT
<1>5. /\ s = SessionStream /\ s \in Seq(PanelBytes) /\ head \in Seq(PanelBytes)
      /\ u = SessionStream'
  <2>1. BytesOf(Mine)' = BytesOf(Mine)
    BY <1>1 DEF BytesOf, Mine
  <2>2. QED BY <1>1, <1>2, <1>3, <2>1 DEF SessionStream
<1>6. t = head \o pushed
  <2>1. head \in Seq(PanelBytes) /\ uartToTcp \in Seq(PanelBytes) /\ batch \in Seq(PanelBytes)
    BY <1>2, <1>3
  <2> HIDE DEF head, batch
  <2>2. (head \o uartToTcp) \o batch = head \o (uartToTcp \o batch)
    BY <2>1, PanelBytesAssociate
  <2>3. QED BY <2>2
<1>7. /\ s \in Seq(Nat) /\ Line!Rising(s)
      /\ \A i \in DOMAIN s : mark.from < s[i] /\ s[i] <= drained
      /\ Len(s) + (uartDrops - mark.drops) = drained - mark.from
      /\ mark.from <= drained
  <2>1. s \in Seq(Nat)
    BY <1>5, PanelBytesAreNat
  <2>2. mark.from <= drained
    BY DEF StreamInv
  <2>3. QED BY <1>1, <1>5, <2>1, <2>2 DEF SinceAccept
<1> HIDE DEF head, s
<1>8. /\ t \in Seq(Nat) /\ Len(t) = Len(s) + n /\ Line!Rising(t)
      /\ \A i \in DOMAIN t : mark.from < t[i] /\ t[i] <= drained + n
  BY <1>2, <1>4, <1>7, RisingWithMore
<1>9. /\ Len(head) \in Nat /\ Len(pushed) \in Nat /\ lost \in 0 .. Len(pushed)
      /\ Len(t) = Len(head) + Len(pushed)
      /\ u = SubSeq(t, 1, Len(head)) \o SubSeq(t, Len(head) + lost + 1, Len(t))
      /\ Len(u) = Len(head) + (Len(pushed) - lost)
  <2>1. /\ pushed \in Seq(PanelBytes) /\ lost \in 0 .. Len(pushed) /\ head \in Seq(PanelBytes)
    BY <1>3, <1>5
  <2> HIDE DEF pushed, lost, t
  <2>2. /\ Len(head) \in Nat /\ Len(pushed) \in Nat
        /\ Len(head \o pushed) = Len(head) + Len(pushed)
    BY <2>1, LenProperties, ConcatProperties
  <2>3. u = SubSeq(t, 1, Len(head)) \o SubSeq(t, Len(head) + lost + 1, Len(t))
    BY <1>6, <2>1, DropInside
  <2>4. /\ Drop(pushed, lost) \in Seq(PanelBytes)
        /\ Len(Drop(pushed, lost)) = Len(pushed) - lost
    BY <2>1, <2>2, DropProperties, SMT
  <2>5. Len(u) = Len(head) + (Len(pushed) - lost)
    BY <2>1, <2>4, ConcatProperties
  <2>6. QED BY <1>6, <2>1, <2>2, <2>3, <2>5
<1> HIDE DEF batch, pushed, lost, t, u
<1>10. /\ u \in Seq(Nat) /\ Line!Rising(u)
       /\ \A k \in DOMAIN u : \E l \in DOMAIN t : u[k] = t[l]
  <2>1. /\ Len(head) \in 0 .. Len(t) /\ Len(head) + lost \in 0 .. Len(t)
        /\ Len(head) <= Len(head) + lost
    BY <1>9, SMT
  <2>2. QED BY <1>8, <1>9, <2>1, Line!RisingWithout
<1>11. \A i \in DOMAIN u : mark.from < u[i] /\ u[i] <= drained + n
  BY <1>8, <1>10
<1>12. Len(u) + ((uartDrops + lost) - mark.drops) = (drained + n) - mark.from
  <2>1. Len(s) \in Nat
    BY <1>7, LenProperties
  <2>2. Len(s) + (uartDrops - mark.drops) = drained - mark.from /\ Len(t) = Len(s) + n
    BY <1>7, <1>8
  <2>3. /\ Len(head) \in Nat /\ Len(pushed) \in Nat /\ lost \in 0 .. Len(pushed)
        /\ Len(t) = Len(head) + Len(pushed) /\ Len(u) = Len(head) + (Len(pushed) - lost)
    BY <1>9
  <2>4. Len(u) = Len(s) + n - lost /\ lost \in Nat
    BY <1>4, <2>1, <2>2, <2>3, SMT
  <2>5. drained \in Nat /\ uartDrops \in Nat /\ mark.from \in Nat /\ mark.drops \in Nat
    BY <1>2
  <2>6. ASSUME NEW from \in Nat, NEW drops \in Nat,
               Len(s) + (uartDrops - drops) = drained - from
        PROVE  Len(u) + ((uartDrops + lost) - drops) = (drained + n) - from
    BY <1>4, <2>1, <2>4, <2>5, <2>6, SMT
  <2>7. QED BY <2>2, <2>5, <2>6
<1>13. uartDrops' = uartDrops + lost /\ drained' = drained + n
  BY <1>3 DEF lost, pushed, batch
<1>14. \A i \in DOMAIN Mine' : Mine'[i].conn = clientSocket'
  BY <1>1 DEF Mine, SinceAccept
<1>15. /\ SessionStream' = u /\ mark' = mark
       /\ uartDrops' = uartDrops + lost /\ drained' = drained + n
  BY <1>1, <1>5, <1>13
<1>16. Line!Rising(SessionStream')
  BY <1>10, <1>15
<1>17. \A i \in DOMAIN SessionStream' :
         mark'.from < SessionStream'[i] /\ SessionStream'[i] <= drained'
  BY <1>11, <1>15
<1>18. Len(SessionStream') + (uartDrops' - mark'.drops) = drained' - mark'.from
  <2>1. Len(u) + (uartDrops' - mark.drops) = drained' - mark.from
    BY <1>12, <1>13
  <2>2. QED BY <1>15, <2>1
<1>19. QED BY <1>14, <1>16, <1>17, <1>18 DEF SinceAccept, Line!Rising

\* What write() accepted moves from what is under way to what was sent.
LEMMA StreamAfterPumpSend ==
  ASSUME StreamInv, PumpSend
  PROVE  mark'.sofar <= Len(delivered') /\ SinceAccept'
<1>1. /\ TypeOK /\ SinceAccept /\ clientSocket \in Conns
      /\ UNCHANGED <<clientSocket, mark, drained, uartDrops>>
      /\ uartToTcp' = RingAfterRefill
  BY DEF StreamInv, SessionInv, TypeOK, ControlTypeOK, PumpSend, InBridge
<1>2. PICK k \in 0 .. Len(Staged) :
        /\ sendStage' = Drop(Staged, k)
        /\ delivered' = delivered \o
             [i \in 1..k |-> [conn |-> clientSocket, byte |-> Staged[i]]]
  BY DEF PumpSend
<1> DEFINE accepted == [i \in 1..k |-> [conn |-> clientSocket, byte |-> Staged[i]]]
<1>3. /\ Staged \in Seq(PanelBytes) /\ RingAfterRefill \in Seq(PanelBytes)
      /\ Staged \o RingAfterRefill = UnderWay
  BY <1>1, RefillIsStutter
<1>4. k \in Nat /\ k <= Len(Staged) /\ Len(Staged) \in Nat
  BY <1>3, LenProperties, SMT
<1>5. /\ accepted \in Seq(Deliveries) /\ Len(accepted) = k
      /\ \A i \in 1..k : accepted[i].conn = clientSocket /\ accepted[i].byte = Staged[i]
  <2>1. \A i \in 1..k : Staged[i] \in PanelBytes
    BY <1>3, <1>4, ElementOfSeq, SMT
  <2>2. \A i \in 1..k : [conn |-> clientSocket, byte |-> Staged[i]] \in Deliveries
    BY <1>1, <2>1 DEF Deliveries
  <2>3. accepted \in Seq(Deliveries)
    BY <1>4, <2>2, IsASeq
  <2>4. QED BY <1>4, <2>3, LenProperties
<1> HIDE DEF accepted
<1>6. /\ Mine \in Seq(Deliveries) /\ BytesOf(Mine) \in Seq(PanelBytes)
      /\ SessionStream = BytesOf(Mine) \o UnderWay
      /\ delivered \in Seq(Deliveries) /\ mark.sofar \in Nat /\ Len(delivered) \in Nat
      /\ mark.sofar <= Len(delivered)
  BY <1>1, StreamTypes, LenProperties DEF StreamInv
<1>7. delivered' = delivered \o accepted
  BY <1>2 DEF accepted
<1>8. Mine' = Mine \o accepted
  <2>1. Mine = Drop(delivered, mark.sofar) /\ Mine' = Drop(delivered \o accepted, mark.sofar)
    BY <1>1, <1>7 DEF Mine, Drop
  <2>2. mark.sofar \in 0 .. Len(delivered)
    BY <1>6, SMT
  <2>3. QED BY <1>5, <1>6, <2>1, <2>2, DropOfConcat
<1>9. BytesOf(accepted) = Take(Staged, k)
  <2>1. BytesOf(accepted) \in Seq(PanelBytes) /\ Len(BytesOf(accepted)) = k
    BY <1>5, BytesOfConcat
  <2>2. /\ Take(Staged, k) \in Seq(PanelBytes) /\ Len(Take(Staged, k)) = k
        /\ \A i \in 1..k : Take(Staged, k)[i] = Staged[i]
    BY <1>3, <1>4, TakeProperties, SMT
  <2>3. DOMAIN accepted = 1..k
    BY <1>5, LenProperties
  <2>4. \A i \in 1..k : BytesOf(accepted)[i] = Take(Staged, k)[i]
    BY <1>5, <2>2, <2>3 DEF BytesOf
  <2>5. QED BY <2>1, <2>2, <2>4, SeqEqual
<1>10. BytesOf(Mine)' = BytesOf(Mine) \o Take(Staged, k)
  <2>1. BytesOf(Mine)' = BytesOf(Mine \o accepted)
    BY <1>8 DEF BytesOf
  <2>2. QED BY <1>5, <1>6, <1>9, <2>1, BytesOfConcat
<1>11. SessionStream' = SessionStream
  <2> DEFINE a == BytesOf(Mine)
             b == Take(Staged, k)
             c == Drop(Staged, k)
             d == RingAfterRefill
  <2>1. a \in Seq(PanelBytes) /\ b \in Seq(PanelBytes) /\ c \in Seq(PanelBytes)
        /\ d \in Seq(PanelBytes) /\ b \o c = Staged
    BY <1>3, <1>4, <1>6, TakeProperties, DropProperties, TakeThenDrop
  <2>2. SessionStream' = ((a \o b) \o c) \o d
    BY <1>1, <1>2, <1>10 DEF SessionStream
  <2>3. SessionStream = a \o ((b \o c) \o d)
    BY <1>3, <1>6, <2>1
  <2> HIDE DEF a, b, c, d
  <2>4. (a \o b) \o c = a \o (b \o c)
    <3>1. a \in Seq(PanelBytes) /\ b \in Seq(PanelBytes) /\ c \in Seq(PanelBytes)
      BY <2>1
    <3>2. QED BY <3>1, PanelBytesAssociate
  <2>5. (a \o (b \o c)) \o d = a \o ((b \o c) \o d)
    <3>1. /\ a \in Seq(PanelBytes) /\ b \in Seq(PanelBytes)
          /\ c \in Seq(PanelBytes) /\ d \in Seq(PanelBytes)
      BY <2>1
    <3>2. b \o c \in Seq(PanelBytes)
      BY <3>1, ConcatProperties
    <3> DEFINE e == b \o c
    <3>3. e \in Seq(PanelBytes)
      BY <3>2
    <3> HIDE DEF e
    <3>4. (a \o e) \o d = a \o (e \o d)
      <4>1. a \in Seq(PanelBytes)
        BY <3>1
      <4>2. d \in Seq(PanelBytes)
        BY <3>1
      <4>3. QED BY ONLY <3>3, <4>1, <4>2, PanelBytesAssociate
    <3>5. QED BY <3>4 DEF e
  <2>6. QED BY <2>2, <2>3, <2>4, <2>5
<1>12. \A i \in DOMAIN Mine' : Mine'[i].conn = clientSocket'
  <2>1. /\ Mine' \in Seq(Deliveries) /\ Len(Mine') = Len(Mine) + k
        /\ \A i \in 1 .. Len(Mine) + k :
             Mine'[i] = IF i <= Len(Mine) THEN Mine[i] ELSE accepted[i - Len(Mine)]
    BY <1>5, <1>6, <1>8, ConcatProperties
  <2>2. /\ DOMAIN Mine' = 1 .. Len(Mine) + k /\ DOMAIN Mine = 1 .. Len(Mine)
        /\ Len(Mine) \in Nat
    BY <1>6, <2>1, LenProperties
  <2> SUFFICES ASSUME NEW i \in 1 .. Len(Mine) + k PROVE Mine'[i].conn = clientSocket
    BY <1>1, <2>2
  <2>3. CASE i <= Len(Mine)
    <3>1. i \in DOMAIN Mine
      BY <2>2, <2>3, SMT
    <3>2. QED BY <1>1, <2>1, <2>3, <3>1 DEF SinceAccept
  <2>4. CASE ~(i <= Len(Mine))
    <3>1. i - Len(Mine) \in 1..k
      BY <1>4, <2>2, <2>4, SMT
    <3>2. QED BY <1>5, <2>1, <2>4, <3>1
  <2>5. QED BY <2>3, <2>4
<1>13. mark'.sofar <= Len(delivered')
  <2>1. Len(delivered') = Len(delivered) + k
    BY <1>5, <1>6, <1>7, ConcatProperties
  <2>2. QED BY <1>1, <1>4, <1>6, <2>1, SMT
<1>14. QED BY <1>1, <1>11, <1>12, <1>13 DEF SinceAccept

\* No other step touches what the session was sent, has under way or missed.
LEMMA NextStreamInv == StreamInv /\ [Next]_vars => StreamInv'
<1> SUFFICES ASSUME StreamInv, [Next]_vars PROVE StreamInv'
  OBVIOUS
<1>1. SessionInv' /\ TypeOK
  BY NextSessionInv DEF StreamInv, SessionInv
<1>2. ASSUME UNCHANGED <<clientSocket, uartToTcp, sendStage, uartDrops, drained, delivered, mark>>
      PROVE  StreamInv'
  BY <1>1, <1>2 DEF StreamInv, SinceAccept, SessionStream, Mine, BytesOf
<1>3. ASSUME clientSocket' = NoSocket, UNCHANGED <<drained, delivered, mark>>
      PROVE  StreamInv'
  BY <1>1, <1>3 DEF StreamInv
<1>4. CASE UNCHANGED vars
  BY <1>2, <1>4 DEF vars, bridgeVars, envVars, historyVars
<1>5. CASE Setup
  BY <1>3, <1>5 DEF Setup, StreamInv, SessionInv, envVars, historyVars
<1>6. CASE OnShutdown
  BY <1>3, <1>6 DEF OnShutdown, historyVars
<1>7. CASE PromoteClient
  BY <1>1, <1>7, StreamAfterPromote DEF StreamInv
<1>8. CASE PumpUart
  <2>1. mark'.from <= drained'
    <3>1. PICK n \in 0 .. ChunkSize : drained' = drained + n
      BY <1>1, <1>8, PumpUartMoves
    <3>2. mark' = mark /\ mark.from <= drained
      BY <1>8 DEF PumpUart, historyVars, StreamInv
    <3>3. QED BY <1>1, <3>1, <3>2, StreamTypes, ConstantsOK, SMT
  <2>2. UNCHANGED <<clientSocket, delivered, mark>>
    BY <1>8 DEF PumpUart, historyVars
  <2>3. QED BY <1>1, <1>8, <2>1, <2>2, StreamAfterPumpUart DEF StreamInv
<1>9. CASE PumpSend
  <2>1. UNCHANGED <<mark, drained>>
    BY <1>9 DEF PumpSend
  <2>2. QED BY <1>1, <1>9, <2>1, StreamAfterPumpSend DEF StreamInv
<1>10. CASE SendError \/ ReadEnds
  BY <1>3, <1>10 DEF SendError, ReadEnds, EndSession, historyVars
<1>11. CASE AcceptNothing \/ RejectClient \/ SendNothing \/ SkipRead \/ PumpRead \/ ReadNothing
            \/ DrainToUart \/ CaptureTick
  BY <1>2, <1>11
  DEF AcceptNothing, RejectClient, SendNothing, SkipRead, PumpRead, ReadNothing, DrainToUart,
      CaptureTick, bridgeVars, envVars, historyVars
<1>12. CASE Environment \/ Halted
  BY <1>2, <1>12
  DEF Environment, Halted, PanelSends, RetransmitTimeout, Connect, ClientSends, ClientLeaves,
      ClientVanishes, vars, bridgeVars, envVars, historyVars
<1>13. QED
  BY <1>4, <1>5, <1>6, <1>7, <1>8, <1>9, <1>10, <1>11, <1>12 DEF Next, Loop, AcceptPending

\* What a session has sent to its client or still holds for it was read from the UART
\* after the accept, in order, and whatever is missing was counted, one for one.
THEOREM StreamAccounted == Spec => []SessionStreamAccounted
<1>1. StreamInv => SessionStreamAccounted
  <2> SUFFICES ASSUME StreamInv, clientSocket # NoSocket PROVE SessionStreamAccounted
    BY DEF SessionStreamAccounted
  <2> DEFINE s == SessionStream
  <2>1. /\ s \in Seq(PanelBytes) /\ DOMAIN s = 1 .. Len(s) /\ Len(s) \in Nat /\ SinceAccept
    BY StreamTypes, LenProperties DEF StreamInv, SessionInv
  <2>2. \A i \in DOMAIN s : s[i] > (IF i = 1 THEN mark.from ELSE s[i-1]) /\ s[i] <= drained
    <3> SUFFICES ASSUME NEW i \in DOMAIN s
                 PROVE  s[i] > (IF i = 1 THEN mark.from ELSE s[i-1]) /\ s[i] <= drained
      OBVIOUS
    <3>1. mark.from < s[i] /\ s[i] <= drained
      BY <2>1 DEF SinceAccept
    <3>2. CASE i = 1
      BY <3>1, <3>2, SMT
    <3>3. CASE i # 1
      <4>1. i - 1 \in DOMAIN s /\ i - 1 < i
        BY <2>1, <3>3, SMT
      <4>2. s[i-1] < s[i]
        BY <2>1, <4>1 DEF SinceAccept, Line!Rising
      <4>3. QED BY <3>1, <3>3, <4>2, SMT
    <3>4. QED BY <3>2, <3>3
  <2>3. QED
    BY <2>1, <2>2 DEF SessionStreamAccounted, SinceAccept, SessionStream, Mine, BytesOf
<1>2. QED BY <1>1, InitStreamInv, NextStreamInv, PTL DEF Spec
=============================================================================
