-------------------------- MODULE RingBufferProofs --------------------------
(***************************************************************************)
(* For every capacity and every set of values: the ring's indices stay in   *)
(* agreement, and the ring implements BoundedFifo.  The circular reading of *)
(* the slots is treated once, on constants, in View; the steps of the ring  *)
(* then map to the steps of the queue by the lemmas on View.               *)
(***************************************************************************)
EXTENDS RingBuffer, TLAPS, SequenceTheorems

\* A position at most one turn past the end comes back by subtracting N once.
LEMMA WrapOnce ==
  ASSUME NEW i \in Slots, NEW k \in 0..N
  PROVE  (i + k) % N = IF i + k < N THEN i + k ELSE i + k - N
<1>1. CASE i + k < N
  BY <1>1, RingAssumption, SMT DEF Slots
<1>2. CASE i + k >= N
  <2>1. i + k \in N .. 2*N - 1
    BY <1>2, RingAssumption, SMT DEF Slots
  <2>2. QED BY <1>2, <2>1, RingAssumption, SMT DEF Slots
<1>3. QED BY <1>1, <1>2, RingAssumption, SMT DEF Slots

\* Two positions less than one turn apart fall on different slots.
LEMMA SlotsDistinct ==
  ASSUME NEW t \in Slots, NEW j \in 0..N, NEW k \in 0..N, j < k, k - j < N
  PROVE  (t + j) % N # (t + k) % N
<1>1. /\ (t + j) % N = IF t + j < N THEN t + j ELSE t + j - N
      /\ (t + k) % N = IF t + k < N THEN t + k ELSE t + k - N
  BY WrapOnce
<1>2. QED BY <1>1, RingAssumption, SMT DEF Slots

\* Moving the tail one slot on and counting from there reaches the same slot.
LEMMA SlotAfterAdvance ==
  ASSUME NEW t \in Slots, NEW k \in 0 .. N-1
  PROVE  /\ Advance(t) \in Slots
         /\ (Advance(t) + k) % N = (t + (k + 1)) % N
<1>1. Advance(t) = IF t + 1 < N THEN t + 1 ELSE t + 1 - N
  BY WrapOnce, RingAssumption, SMT DEF Advance
<1>2. Advance(t) \in Slots
  BY <1>1, RingAssumption, SMT DEF Slots
<1>3. (t + (k + 1)) % N = IF t + (k + 1) < N THEN t + (k + 1) ELSE t + (k + 1) - N
  BY WrapOnce, RingAssumption, SMT
<1>4. (Advance(t) + k) % N = IF Advance(t) + k < N THEN Advance(t) + k
                                                   ELSE Advance(t) + k - N
  BY <1>2, WrapOnce, RingAssumption, SMT
<1>5. QED BY <1>1, <1>2, <1>3, <1>4, RingAssumption, SMT DEF Slots

-----------------------------------------------------------------------------
\* The n values found in slots d from position t on: Contents on constants.
View(d, t, n) == [i \in 1..n |-> d[(t + (i - 1)) % N]]

LEMMA ViewIsSeq ==
  ASSUME NEW d \in [Slots -> T], NEW t \in Slots, NEW n \in 0..N
  PROVE  /\ View(d, t, n) \in Seq(T)
         /\ Len(View(d, t, n)) = n
         /\ \A i \in 1..n : View(d, t, n)[i] = d[(t + (i - 1)) % N]
<1>1. \A i \in 1..n : (t + (i - 1)) % N \in Slots
  BY RingAssumption, SMT DEF Slots
<1>2. \A i \in 1..n : d[(t + (i - 1)) % N] \in T
  BY <1>1
<1>3. n \in Nat
  BY RingAssumption, SMT
<1>4. View(d, t, n) \in [1..n -> T]
  BY <1>2 DEF View
<1>5. QED BY <1>3, <1>4, SMT DEF View

\* Writing the slot after the last value appends: no held value is overwritten.
LEMMA ViewPush ==
  ASSUME NEW d \in [Slots -> T], NEW t \in Slots, NEW n \in 0 .. N-1, NEW v \in T
  PROVE  View([d EXCEPT ![(t + n) % N] = v], t, n + 1) = Append(View(d, t, n), v)
<1> DEFINE e == [d EXCEPT ![(t + n) % N] = v]
           s == View(d, t, n)
           r == View(e, t, n + 1)
<1>1. (t + n) % N \in Slots
  BY RingAssumption, SMT DEF Slots
<1>2. e \in [Slots -> T]
  BY <1>1
<1>3. n \in 0..N /\ n + 1 \in 0..N
  BY RingAssumption, SMT
<1>4. /\ s \in Seq(T)
      /\ Len(s) = n
      /\ \A i \in 1..n : s[i] = d[(t + (i - 1)) % N]
  BY <1>3, ViewIsSeq
<1>5. /\ r \in Seq(T)
      /\ Len(r) = n + 1
      /\ \A i \in 1..n+1 : r[i] = e[(t + (i - 1)) % N]
  BY <1>2, <1>3, ViewIsSeq
<1>6. \A i \in 1..n : r[i] = s[i]
  <2> SUFFICES ASSUME NEW i \in 1..n PROVE r[i] = s[i]
    OBVIOUS
  <2>1. (t + (i - 1)) % N # (t + n) % N
    <3>1. i - 1 \in 0..N /\ i - 1 < n /\ n - (i - 1) < N
      BY RingAssumption, SMT
    <3>2. QED BY <1>3, <3>1, SlotsDistinct
  <2>2. (t + (i - 1)) % N \in Slots
    BY RingAssumption, SMT DEF Slots
  <2>3. e[(t + (i - 1)) % N] = d[(t + (i - 1)) % N]
    BY <2>1, <2>2, <1>1
  <2>4. QED
    <3>1. i \in 1..n+1
      BY RingAssumption, SMT
    <3>2. QED BY <1>4, <1>5, <2>3, <3>1
<1>7. r[n + 1] = v
  <2>1. n + 1 \in 1..n+1 /\ (n + 1) - 1 = n
    BY RingAssumption, SMT
  <2>2. QED BY <1>1, <1>5, <2>1
<1> HIDE DEF e, s, r
<1>8. /\ Append(s, v) \in Seq(T)
      /\ Len(Append(s, v)) = n + 1
      /\ \A i \in 1..n : Append(s, v)[i] = s[i]
      /\ Append(s, v)[n + 1] = v
  BY <1>4, AppendProperties
<1>9. \A i \in 1 .. Len(r) : r[i] = Append(s, v)[i]
  BY <1>3, <1>5, <1>6, <1>7, <1>8, SMT
<1>10. QED
  <2>1. r = Append(s, v)
    BY <1>5, <1>8, <1>9, SeqEqual
  <2>2. QED BY <2>1 DEF e, s, r

\* The tail slot holds the oldest value, and advancing the tail forgets it alone.
LEMMA ViewPop ==
  ASSUME NEW d \in [Slots -> T], NEW t \in Slots, NEW n \in 1..N
  PROVE  /\ View(d, t, n) # <<>>
         /\ Head(View(d, t, n)) = d[t]
         /\ Tail(View(d, t, n)) = View(d, Advance(t), n - 1)
<1> DEFINE s == View(d, t, n)
           r == View(d, Advance(t), n - 1)
<1>1. n \in 0..N /\ n - 1 \in 0..N
  BY RingAssumption, SMT
<1>2. Advance(t) \in Slots
  BY SlotAfterAdvance, RingAssumption, SMT
<1>3. /\ s \in Seq(T)
      /\ Len(s) = n
      /\ \A i \in 1..n : s[i] = d[(t + (i - 1)) % N]
  BY <1>1, ViewIsSeq
<1>4. /\ r \in Seq(T)
      /\ Len(r) = n - 1
      /\ \A i \in 1..n-1 : r[i] = d[(Advance(t) + (i - 1)) % N]
  BY <1>1, <1>2, ViewIsSeq
<1>5. s # <<>> /\ Head(s) = s[1]
  BY <1>3, SMT
<1>6. s[1] = d[t]
  <2>1. (t + (1 - 1)) % N = t
    BY RingAssumption, SMT DEF Slots
  <2>2. 1 \in 1..n
    BY RingAssumption, SMT
  <2>3. QED BY <1>3, <2>1, <2>2
<1>7. /\ Tail(s) \in Seq(T)
      /\ Len(Tail(s)) = n - 1
      /\ \A i \in 1..n-1 : Tail(s)[i] = s[i + 1]
  BY <1>3, <1>5, HeadTailProperties, SMT
<1>8. \A i \in 1..n-1 : Tail(s)[i] = r[i]
  <2> SUFFICES ASSUME NEW i \in 1..n-1 PROVE Tail(s)[i] = r[i]
    OBVIOUS
  <2>1. i + 1 \in 1..n /\ (i + 1) - 1 = i /\ i - 1 \in 0 .. N-1 /\ (i - 1) + 1 = i
    BY RingAssumption, SMT
  <2>2. s[i + 1] = d[(t + i) % N]
    BY <1>3, <2>1
  <2>3. (Advance(t) + (i - 1)) % N = (t + i) % N
    BY <2>1, SlotAfterAdvance
  <2>4. QED BY <1>4, <1>7, <2>2, <2>3
<1>9. Tail(s) = r
  BY <1>4, <1>7, <1>8, SeqEqual
<1>10. QED BY <1>5, <1>6, <1>9

-----------------------------------------------------------------------------
\* The ring's own invariant: every call keeps the indices in range and in agreement.
THEOREM RingCorrect == RingSpec => []RingInv
<1>1. RingInit => RingInv
  <2>1. 0 \in Slots /\ 0 \in 0..N /\ 0 = (0 + 0) % N
    BY RingAssumption, SMT DEF Slots
  <2>2. QED
    BY <2>1, RingAssumption DEF RingInit, RingInv, RingTypeOK, PositionsAgree, SlotOf
<1>2. RingInv /\ [RingNext]_ringVars => RingInv'
  <2> SUFFICES ASSUME RingInv, [RingNext]_ringVars PROVE RingInv'
    OBVIOUS
  <2> USE DEF RingInv, RingTypeOK, PositionsAgree, SlotOf
  <2>0. head = IF tail + size < N THEN tail + size ELSE tail + size - N
    BY WrapOnce
  <2>1. ASSUME NEW i \in Slots
        PROVE  Advance(i) = IF i + 1 < N THEN i + 1 ELSE i + 1 - N
    BY WrapOnce, RingAssumption, SMT DEF Advance
  <2>a. ASSUME UNCHANGED <<data, head, tail, size>>, out' \in T, ok' \in BOOLEAN
        PROVE  RingInv'
    BY <2>a
  <2>b. Fail => RingInv'
    <3>1. Fail => /\ UNCHANGED <<data, head, tail, size>>
                  /\ out' \in T /\ ok' \in BOOLEAN
      BY DEF Fail
    <3>2. QED BY <2>a, <3>1
  <2>2. ASSUME NEW v \in T, Push(v) PROVE RingInv'
    <3>1. CASE Full
      BY <2>b, <2>2, <3>1 DEF Push
    <3>2. CASE ~Full
      <4>1. /\ data' = [data EXCEPT ![head] = v] /\ head' = Advance(head)
            /\ size' = size + 1 /\ ok' = TRUE /\ tail' = tail /\ out' = out
        BY <2>2, <3>2 DEF Push
      <4>2. size + 1 \in 0..N
        BY <3>2, RingAssumption, SMT DEF Full
      <4>3. (tail + (size + 1)) % N = IF tail + (size + 1) < N THEN tail + (size + 1)
                                      ELSE tail + (size + 1) - N
        BY <4>2, WrapOnce
      <4>4. /\ head' \in Slots
            /\ head' = IF tail + (size + 1) < N THEN tail + (size + 1)
                       ELSE tail + (size + 1) - N
        BY <2>0, <2>1, <4>1, <4>2, RingAssumption, SMT DEF Slots
      <4>5. QED BY <4>1, <4>2, <4>3, <4>4
    <3>3. QED BY <3>1, <3>2
  <2>3. ASSUME ~Empty, tail' = Advance(tail), size' = size - 1, data' = data,
               head' = head, out' \in T, ok' \in BOOLEAN
        PROVE  RingInv'
    <3>1. size - 1 \in 0..N
      BY <2>3, RingAssumption, SMT DEF Empty
    <3>2. tail' \in Slots
      BY <2>1, <2>3, RingAssumption, SMT DEF Slots
    <3>3. (tail' + size') % N = IF tail' + size' < N THEN tail' + size'
                                ELSE tail' + size' - N
      BY <2>3, <3>1, <3>2, WrapOnce
    <3>4. head' = IF tail' + size' < N THEN tail' + size' ELSE tail' + size' - N
      <4>1. tail' = IF tail + 1 < N THEN tail + 1 ELSE tail + 1 - N
        BY <2>1, <2>3
      <4>2. QED BY <2>0, <2>3, <3>1, <4>1, RingAssumption, SMT DEF Slots
    <3>5. QED BY <2>3, <3>1, <3>2, <3>3, <3>4
  <2>4. ASSUME NEW v \in T, PushOverwrite(v) PROVE RingInv'
    <3>1. CASE Full
      <4>1. /\ data' = [data EXCEPT ![head] = v] /\ head' = Advance(head)
            /\ tail' = Advance(tail) /\ size' = size /\ size = N
            /\ out' = out /\ ok' = ok
        BY <2>4, <3>1 DEF PushOverwrite, Full
      <4>2. head' \in Slots /\ tail' \in Slots
        BY <2>1, <4>1, RingAssumption, SMT DEF Slots
      <4>3. (tail' + size') % N = IF tail' + size' < N THEN tail' + size'
                                  ELSE tail' + size' - N
        BY <4>1, <4>2, WrapOnce
      <4>4. head' = (tail' + size') % N
        BY <2>0, <2>1, <4>1, <4>3, RingAssumption, SMT DEF Slots
      <4>5. QED BY <4>1, <4>2, <4>4
    <3>2. CASE ~Full
      <4>1. /\ data' = [data EXCEPT ![head] = v] /\ head' = Advance(head)
            /\ size' = size + 1 /\ tail' = tail /\ out' = out /\ ok' = ok
        BY <2>4, <3>2 DEF PushOverwrite
      <4>2. size + 1 \in 0..N
        BY <3>2, RingAssumption, SMT DEF Full
      <4>3. (tail + (size + 1)) % N = IF tail + (size + 1) < N THEN tail + (size + 1)
                                      ELSE tail + (size + 1) - N
        BY <4>2, WrapOnce
      <4>4. /\ head' \in Slots
            /\ head' = IF tail + (size + 1) < N THEN tail + (size + 1)
                       ELSE tail + (size + 1) - N
        BY <2>0, <2>1, <4>1, <4>2, RingAssumption, SMT DEF Slots
      <4>5. QED BY <4>1, <4>2, <4>3, <4>4
    <3>3. QED BY <3>1, <3>2
  <2>5. CASE Pop
    <3>1. CASE Empty
      BY <2>b, <2>5, <3>1 DEF Pop
    <3>2. CASE ~Empty
      <4>1. /\ out' = data[tail] /\ tail' = Advance(tail) /\ size' = size - 1
            /\ ok' = TRUE /\ data' = data /\ head' = head
        BY <2>5, <3>2 DEF Pop
      <4>2. out' \in T /\ ok' \in BOOLEAN
        BY <4>1
      <4>3. QED BY <2>3, <3>2, <4>1, <4>2
    <3>3. QED BY <3>1, <3>2
  <2>6. CASE Peek
    <3>1. CASE Empty
      BY <2>b, <2>6, <3>1 DEF Peek
    <3>2. CASE ~Empty
      <4>1. UNCHANGED <<data, head, tail, size>> /\ out' = data[tail] /\ ok' = TRUE
        BY <2>6, <3>2 DEF Peek
      <4>2. out' \in T /\ ok' \in BOOLEAN
        BY <4>1
      <4>3. QED BY <2>a, <4>1, <4>2
    <3>3. QED BY <3>1, <3>2
  <2>7. CASE DropOldest
    <3>1. CASE Empty
      BY <2>b, <2>7, <3>1 DEF DropOldest
    <3>2. CASE ~Empty
      <4>1. /\ tail' = Advance(tail) /\ size' = size - 1 /\ ok' = TRUE
            /\ data' = data /\ head' = head /\ out' = out
        BY <2>7, <3>2 DEF DropOldest
      <4>2. out' \in T /\ ok' \in BOOLEAN
        BY <4>1
      <4>3. QED BY <2>3, <3>2, <4>1, <4>2
    <3>3. QED BY <3>1, <3>2
  <2>8. CASE Clear
    <3>1. /\ head' = 0 /\ tail' = 0 /\ size' = 0
          /\ data' = data /\ out' = out /\ ok' = ok
      BY <2>8 DEF Clear
    <3>2. 0 \in Slots /\ 0 \in 0..N /\ 0 = (0 + 0) % N
      BY RingAssumption, SMT DEF Slots
    <3>3. QED BY <3>1, <3>2
  <2>9. CASE UNCHANGED ringVars
    BY <2>9 DEF ringVars
  <2>10. QED BY <2>2, <2>4, <2>5, <2>6, <2>7, <2>8, <2>9 DEF RingNext
<1>3. QED BY <1>1, <1>2, PTL DEF RingSpec

-----------------------------------------------------------------------------
\* Contents, in this state and in the next, is a View of that state's slots.
LEMMA ContentsAreView == /\ Contents = View(data, tail, size)
                         /\ Contents' = View(data', tail', size')
BY DEF Contents, SlotOf, View

\* ring_buffer.h is a bounded FIFO queue for every capacity and value type: every call
\* changes the queue it represents, its result and its out-parameter as the queue's does.
THEOREM RingImplementsFifo == RingSpec => ImplementsFifo
<1>1. RingInit => Fifo!FifoInit
  <2> SUFFICES ASSUME RingInit PROVE Fifo!FifoInit
    OBVIOUS
  <2>1. /\ data \in [Slots -> T] /\ tail \in Slots /\ 0 \in 0..N
    BY RingAssumption, SMT DEF RingInit, Slots
  <2>2. View(data, tail, 0) \in Seq(T) /\ Len(View(data, tail, 0)) = 0
    BY <2>1, ViewIsSeq
  <2>3. View(data, tail, 0) = <<>>
    BY <2>2, SMT
  <2>4. QED
    BY <2>3, ContentsAreView DEF RingInit, Fifo!FifoInit
<1>2. RingInv /\ [RingNext]_ringVars => [Fifo!FifoNext]_(Fifo!fifoVars)
  <2> SUFFICES ASSUME RingInv, [RingNext]_ringVars
               PROVE  [Fifo!FifoNext]_(Fifo!fifoVars)
    OBVIOUS
  <2>0. /\ data \in [Slots -> T] /\ tail \in Slots /\ size \in 0..N
        /\ head = (tail + size) % N
    BY DEF RingInv, RingTypeOK, PositionsAgree, SlotOf
  <2>1. /\ Contents = View(data, tail, size)
        /\ Contents \in Seq(T)
        /\ Len(Contents) = size
    BY <2>0, ViewIsSeq, ContentsAreView
  <2>2. Contents = <<>> <=> Empty
    BY <2>1, SMT DEF Empty
  <2>3. Fail => UNCHANGED Contents /\ ok' = FALSE /\ out' = out
    BY ContentsAreView DEF Fail
  <2>4. Fail => Fifo!Refuse
    BY <2>3 DEF Fifo!Refuse
  <2>5. ~Empty => /\ Head(Contents) = data[tail]
                  /\ Tail(Contents) = View(data, Advance(tail), size - 1)
    <3> SUFFICES ASSUME ~Empty
                 PROVE  /\ Head(Contents) = data[tail]
                        /\ Tail(Contents) = View(data, Advance(tail), size - 1)
      OBVIOUS
    <3>1. size \in 1..N
      BY <2>0, RingAssumption, SMT DEF Empty
    <3>2. QED BY <2>0, <2>1, <3>1, ViewPop
  <2>6. ASSUME NEW v \in T, ~Full
        PROVE  View([data EXCEPT ![head] = v], tail, size + 1) = Append(Contents, v)
    <3>1. size \in 0 .. N-1
      BY <2>0, <2>6, RingAssumption, SMT DEF Full
    <3>2. QED BY <2>0, <2>1, <3>1, ViewPush
  <2>7. ASSUME NEW v \in T, Push(v) PROVE Fifo!FifoPush(v)
    <3>1. CASE Full
      BY <2>1, <2>4, <2>7, <3>1 DEF Push, Full, Fifo!FifoPush
    <3>2. CASE ~Full
      <4>1. Len(Contents) < N
        BY <2>0, <2>1, <3>2, RingAssumption, SMT DEF Full
      <4>2. /\ data' = [data EXCEPT ![head] = v] /\ tail' = tail /\ size' = size + 1
            /\ ok' = TRUE /\ out' = out
        BY <2>7, <3>2 DEF Push
      <4>3. Contents' = Append(Contents, v)
        BY <2>6, <3>2, <4>2, ContentsAreView
      <4>4. QED BY <4>1, <4>2, <4>3 DEF Fifo!FifoPush
    <3>3. QED BY <3>1, <3>2
  <2>8. ASSUME NEW v \in T, PushOverwrite(v) PROVE Fifo!FifoPushOverwrite(v)
    <3>1. CASE Full
      <4>1. /\ data' = [data EXCEPT ![head] = v] /\ tail' = Advance(tail)
            /\ size' = size /\ size = N /\ out' = out /\ ok' = ok
        BY <2>8, <3>1 DEF PushOverwrite, Full
      <4>2. ~Empty /\ size - 1 \in 0 .. N-1 /\ (size - 1) + 1 = size
        BY <4>1, RingAssumption, SMT DEF Empty
      <4>3. Advance(tail) \in Slots /\ (Advance(tail) + (size - 1)) % N = head
        BY <2>0, <4>2, SlotAfterAdvance
      <4>4. View([data EXCEPT ![head] = v], Advance(tail), size)
              = Append(View(data, Advance(tail), size - 1), v)
        BY <2>0, <4>2, <4>3, ViewPush
      <4>5. Contents' = Append(Tail(Contents), v)
        BY <2>5, <4>1, <4>2, <4>4, ContentsAreView
      <4>6. QED BY <2>1, <4>1, <4>5 DEF Fifo!FifoPushOverwrite
    <3>2. CASE ~Full
      <4>1. /\ data' = [data EXCEPT ![head] = v] /\ tail' = tail
            /\ size' = size + 1 /\ size # N /\ out' = out /\ ok' = ok
        BY <2>8, <3>2 DEF PushOverwrite, Full
      <4>2. Contents' = Append(Contents, v)
        BY <2>6, <3>2, <4>1, ContentsAreView
      <4>3. QED BY <2>1, <4>1, <4>2 DEF Fifo!FifoPushOverwrite
    <3>3. QED BY <3>1, <3>2
  <2>9. ASSUME Pop PROVE Fifo!FifoPop
    <3>1. CASE Empty
      BY <2>2, <2>4, <2>9, <3>1 DEF Pop, Fifo!FifoPop
    <3>2. CASE ~Empty
      <4>1. /\ data' = data /\ tail' = Advance(tail) /\ size' = size - 1
            /\ ok' = TRUE /\ out' = data[tail]
        BY <2>9, <3>2 DEF Pop
      <4>2. Contents' = Tail(Contents)
        BY <2>5, <3>2, <4>1, ContentsAreView
      <4>3. QED BY <2>2, <2>5, <3>2, <4>1, <4>2 DEF Fifo!FifoPop
    <3>3. QED BY <3>1, <3>2
  <2>10. ASSUME Peek PROVE Fifo!FifoPeek
    <3>1. CASE Empty
      BY <2>2, <2>4, <2>10, <3>1 DEF Peek, Fifo!FifoPeek
    <3>2. CASE ~Empty
      <4>1. /\ data' = data /\ tail' = tail /\ size' = size
            /\ ok' = TRUE /\ out' = data[tail]
        BY <2>10, <3>2 DEF Peek
      <4>2. UNCHANGED Contents
        BY <4>1, ContentsAreView
      <4>3. QED BY <2>2, <2>5, <3>2, <4>1, <4>2 DEF Fifo!FifoPeek
    <3>3. QED BY <3>1, <3>2
  <2>11. ASSUME DropOldest PROVE Fifo!FifoDropOldest
    <3>1. CASE Empty
      BY <2>2, <2>4, <2>11, <3>1 DEF DropOldest, Fifo!FifoDropOldest
    <3>2. CASE ~Empty
      <4>1. /\ data' = data /\ tail' = Advance(tail) /\ size' = size - 1
            /\ ok' = TRUE /\ out' = out
        BY <2>11, <3>2 DEF DropOldest
      <4>2. Contents' = Tail(Contents)
        BY <2>5, <3>2, <4>1, ContentsAreView
      <4>3. QED BY <2>2, <3>2, <4>1, <4>2 DEF Fifo!FifoDropOldest
    <3>3. QED BY <3>1, <3>2
  <2>12. ASSUME Clear PROVE Fifo!FifoClear
    <3>1. /\ tail' = 0 /\ size' = 0 /\ data' = data /\ out' = out /\ ok' = ok
      BY <2>12 DEF Clear
    <3>2. 0 \in Slots /\ 0 \in 0..N
      BY RingAssumption, SMT DEF Slots
    <3>3. Contents' \in Seq(T) /\ Len(Contents') = 0
      BY <2>0, <3>1, <3>2, ViewIsSeq, ContentsAreView
    <3>4. Contents' = <<>>
      BY <3>3, SMT
    <3>5. QED BY <3>1, <3>4 DEF Fifo!FifoClear
  <2>13. ASSUME UNCHANGED ringVars PROVE UNCHANGED Fifo!fifoVars
    <3>1. data' = data /\ tail' = tail /\ size' = size /\ out' = out /\ ok' = ok
      BY <2>13 DEF ringVars
    <3>2. QED BY <3>1, ContentsAreView DEF Fifo!fifoVars
  <2>14. QED
    BY <2>7, <2>8, <2>9, <2>10, <2>11, <2>12, <2>13 DEF RingNext, Fifo!FifoNext
<1>3. QED
  BY <1>1, <1>2, RingCorrect, PTL DEF RingSpec, ImplementsFifo, Fifo!FifoSpec
=============================================================================
