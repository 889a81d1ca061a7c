---------------------------- MODULE BoundedFifo ----------------------------
(***************************************************************************)
(* What a bounded first-in first-out queue promises its callers, with no   *)
(* storage layout: a sequence of at most N values.  ring_buffer.h promises  *)
(* exactly this; RingBuffer.tla is the layout that keeps the promise, and   *)
(* Texecom.tla uses the promise for its two byte rings.                    *)
(***************************************************************************)
EXTENDS Naturals, Sequences

CONSTANTS N,        \* the capacity, RingBuffer<T, N>'s template parameter
          T,        \* the values the queue carries
          Default   \* T's value-initialised element, T{}

VARIABLES queue,    \* the values held, oldest first
          out,      \* the caller's out-parameter of the last pop() or peek()
          ok        \* what the last call returned

fifoVars == <<queue, out, ok>>

FifoTypeOK == /\ queue \in Seq(T)
              /\ Len(queue) <= N
              /\ out \in T
              /\ ok \in BOOLEAN

FifoInit == queue = <<>> /\ out = Default /\ ok = TRUE

Refuse == ok' = FALSE /\ UNCHANGED <<queue, out>>

FifoPush(v) == \/ Len(queue) = N /\ Refuse
               \/ /\ Len(queue) < N
                  /\ queue' = Append(queue, v)
                  /\ ok' = TRUE
                  /\ UNCHANGED out

FifoPop == \/ queue = <<>> /\ Refuse
           \/ /\ queue # <<>>
              /\ out' = Head(queue)
              /\ queue' = Tail(queue)
              /\ ok' = TRUE

FifoPeek == \/ queue = <<>> /\ Refuse
            \/ /\ queue # <<>>
               /\ out' = Head(queue)
               /\ ok' = TRUE
               /\ UNCHANGED queue

FifoDropOldest == \/ queue = <<>> /\ Refuse
                  \/ /\ queue # <<>>
                     /\ queue' = Tail(queue)
                     /\ ok' = TRUE
                     /\ UNCHANGED out

FifoPushOverwrite(v) ==
  /\ queue' = Append(IF Len(queue) = N THEN Tail(queue) ELSE queue, v)
  /\ UNCHANGED <<out, ok>>

FifoClear == queue' = <<>> /\ UNCHANGED <<out, ok>>

FifoNext == \/ \E v \in T : FifoPush(v) \/ FifoPushOverwrite(v)
            \/ FifoPop
            \/ FifoPeek
            \/ FifoDropOldest
            \/ FifoClear

FifoSpec == FifoInit /\ [][FifoNext]_fifoVars
=============================================================================
