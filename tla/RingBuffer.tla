----------------------------- MODULE RingBuffer -----------------------------
(***************************************************************************)
(* ring_buffer.h: a fixed array used as a circle, with the next free slot   *)
(* (head), the oldest value (tail) and an explicit count (size), so that    *)
(* all N slots can be used and head = tail is both "empty" and "full".      *)
(* Both ends of every ring run in the cooperative loop(), so each call is   *)
(* one step.                                                               *)
(***************************************************************************)
EXTENDS Integers, Sequences

CONSTANTS N, T, Default   \* as in BoundedFifo

ASSUME RingAssumption == N \in Nat \ {0} /\ Default \in T

VARIABLES data,   \* [0..N-1 -> T], the slots; a vacated slot keeps its value
          head, tail, size,
          out,    \* the caller's out-parameter of the last pop() or peek()
          ok      \* what the last call returned

ringVars == <<data, head, tail, size, out, ok>>

Slots == 0 .. N-1

RingTypeOK == /\ data \in [Slots -> T]
              /\ head \in Slots
              /\ tail \in Slots
              /\ size \in 0..N
              /\ out \in T
              /\ ok \in BOOLEAN

RingInit == /\ data = [i \in Slots |-> Default]
            /\ head = 0 /\ tail = 0 /\ size = 0
            /\ out = Default /\ ok = TRUE

-----------------------------------------------------------------------------
\* Mutants: an index that sticks at the last slot, and a clear() that forgets tail_.
MutLinearAdvance(i) == IF i + 1 > N - 1 THEN N - 1 ELSE i + 1
MutClear == head' = 0 /\ size' = 0 /\ UNCHANGED <<data, tail, out, ok>>

-----------------------------------------------------------------------------
Advance(i) == (i + 1) % N
Empty == size = 0
Full == size = N

Fail == ok' = FALSE /\ UNCHANGED <<data, head, tail, size, out>>

Push(v) == \/ Full /\ Fail
           \/ /\ ~Full
              /\ data' = [data EXCEPT ![head] = v]
              /\ head' = Advance(head)
              /\ size' = size + 1
              /\ ok' = TRUE
              /\ UNCHANGED <<tail, out>>

Pop == \/ Empty /\ Fail
       \/ /\ ~Empty
          /\ out' = data[tail]
          /\ tail' = Advance(tail)
          /\ size' = size - 1
          /\ ok' = TRUE
          /\ UNCHANGED <<data, head>>

Peek == \/ Empty /\ Fail
        \/ /\ ~Empty
           /\ out' = data[tail]
           /\ ok' = TRUE
           /\ UNCHANGED <<data, head, tail, size>>

DropOldest == \/ Empty /\ Fail
              \/ /\ ~Empty
                 /\ tail' = Advance(tail)
                 /\ size' = size - 1
                 /\ ok' = TRUE
                 /\ UNCHANGED <<data, head, out>>

\* drop_oldest() when full, then push(), which therefore cannot fail.
PushOverwrite(v) ==
  /\ data' = [data EXCEPT ![head] = v]
  /\ head' = Advance(head)
  /\ \/ Full /\ tail' = Advance(tail) /\ UNCHANGED size
     \/ ~Full /\ size' = size + 1 /\ UNCHANGED tail
  /\ UNCHANGED <<out, ok>>

Clear == head' = 0 /\ tail' = 0 /\ size' = 0 /\ UNCHANGED <<data, out, ok>>

RingNext == \/ \E v \in T : Push(v) \/ PushOverwrite(v)
            \/ Pop
            \/ Peek
            \/ DropOldest
            \/ Clear

RingSpec == RingInit /\ [][RingNext]_ringVars

-----------------------------------------------------------------------------
\* The k-th oldest value (from 0) lies k slots after the tail, around the end.
SlotOf(k) == (tail + k) % N
Contents == [i \in 1..size |-> data[SlotOf(i - 1)]]

\* The three numbers agree: the next free slot is `size` slots after the tail.
\* Each call updates only some of them, so any call that forgets one desynchronises
\* the ring for good and a later pop() returns a vacated slot.
PositionsAgree == head = SlotOf(size)

\* The ring is well formed between any two calls.
RingInv == RingTypeOK /\ PositionsAgree

\* ring_buffer.h implements the bounded queue, call for call: what is popped is
\* the oldest value pushed and neither popped nor dropped, a push is refused exactly
\* when N values are held, and wrapping, overwriting or clearing never shows.
Fifo == INSTANCE BoundedFifo WITH queue <- Contents
ImplementsFifo == Fifo!FifoSpec
=============================================================================
