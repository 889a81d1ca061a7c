----------------------------- MODULE SerialLink -----------------------------
(***************************************************************************)
(* What the bridge promises to the panel and to its clients, without pumps,  *)
(* rings, sockets or ids: a serial line lent to one client at a time, in the *)
(* order the clients called.  Bytes of the panel may be lost on the way up,   *)
(* but only the oldest unsent ones and only to a full buffer of newer ones;   *)
(* bytes of the owner may not be lost on the way down while it stays.  What   *)
(* is under way is forgotten when the line is lent again.                    *)
(***************************************************************************)
EXTENDS Integers, Sequences

CONSTANTS Clients,       \* a set of positive numbers, in the order the clients call
          UpCapacity,    \* newer panel bytes that a loss presupposes
          DownCapacity,  \* client bytes held back from the panel
          MaxBatch       \* bound: bytes moved in one step

NoOne == 0

VARIABLES owner,     \* the client the line is lent to
          answered,  \* the clients that got the line or were turned away
          taken,     \* how many bytes the panel has given
          up,        \* those of them held for the owner
          got,       \* how many bytes each client has given
          down,      \* those of them held for the panel
          toPanel,   \* what the panel received
          toClient   \* what clients received

linkVars == <<owner, answered, taken, up, got, down, toPanel, toClient>>

LinkInit ==
  /\ owner = NoOne /\ answered = {}
  /\ taken = 0 /\ up = <<>> /\ toClient = <<>>
  /\ got = [c \in Clients |-> 0] /\ down = <<>> /\ toPanel = <<>>

\* Later callers are answered later.
InTurn(c) == c \in Clients /\ \A d \in answered : d < c

Lend(c) ==
  /\ owner = NoOne /\ InTurn(c)
  /\ owner' = c /\ answered' = answered \cup {c}
  /\ up' = <<>> /\ down' = <<>>
  /\ UNCHANGED <<taken, got, toPanel, toClient>>

TurnAway(c) ==
  /\ owner # NoOne /\ InTurn(c)
  /\ answered' = answered \cup {c}
  /\ UNCHANGED <<owner, taken, up, got, down, toPanel, toClient>>

\* The owner leaves, or the line is shut down under whoever waits: some of the
\* oldest bytes meant for the owner go with it.
Return ==
  /\ owner # NoOne /\ owner' = NoOne
  /\ \E k \in 0 .. Len(up) : up' = SubSeq(up, k + 1, Len(up))
  /\ answered \subseteq answered' /\ answered' \subseteq Clients
  /\ UNCHANGED <<taken, got, down, toPanel, toClient>>

Shut ==
  /\ owner = NoOne
  /\ answered \subseteq answered' /\ answered' \subseteq Clients
  /\ UNCHANGED <<owner, taken, up, got, down, toPanel, toClient>>

\* Bytes of the panel join those under way.  A stretch of them, from i to j, is
\* lost only when UpCapacity newer ones remain.
FromPanel(n) ==
  /\ taken' = taken + n
  /\ LET s == up \o [i \in 1..n |-> taken + i]
     IN  \E i, j \in 0 .. Len(s) :
           /\ i <= j /\ (i < j => Len(s) - j = UpCapacity)
           /\ up' = SubSeq(s, 1, i) \o SubSeq(s, j + 1, Len(s))
  /\ UNCHANGED <<owner, answered, got, down, toPanel, toClient>>

ToClient(n) ==
  /\ owner # NoOne /\ n <= Len(up)
  /\ toClient' = toClient \o [i \in 1..n |-> [conn |-> owner, byte |-> up[i]]]
  /\ up' = SubSeq(up, n + 1, Len(up))
  /\ UNCHANGED <<owner, answered, taken, got, down, toPanel>>

FromClient(n) ==
  /\ owner # NoOne /\ Len(down) + n <= DownCapacity
  /\ down' = down \o [i \in 1..n |-> [conn |-> owner, n |-> got[owner] + i]]
  /\ got' = [got EXCEPT ![owner] = @ + n]
  /\ UNCHANGED <<owner, answered, taken, up, toPanel, toClient>>

ToPanel ==
  /\ toPanel' = toPanel \o down /\ down' = <<>>
  /\ UNCHANGED <<owner, answered, taken, up, got, toClient>>

LinkNext == \/ Return \/ Shut \/ ToPanel
            \/ \E c \in Clients : Lend(c) \/ TurnAway(c)
            \/ \E n \in 1..MaxBatch : FromPanel(n) \/ ToClient(n) \/ FromClient(n)

LinkSpec == LinkInit /\ [][LinkNext]_linkVars

-----------------------------------------------------------------------------
\* What the panel has been sent, followed by what is held for it, is client after
\* client an unbroken prefix of what that client gave, and for the owner all of it:
\* no byte of the owner is lost, repeated or overtaken, and none comes after a
\* later client's.
StreamToPanel ==
  LET s == toPanel \o down
      n == Len(s)
  IN  /\ \A i \in 1..n :
           \/ s[i].n = 1 /\ (i > 1 => s[i-1].conn < s[i].conn)
           \/ i > 1 /\ s[i-1].conn = s[i].conn /\ s[i].n = s[i-1].n + 1
      /\ owner # NoOne =>
           IF got[owner] = 0 THEN \A i \in 1..n : s[i].conn # owner
           ELSE n > 0 /\ s[n] = [conn |-> owner, n |-> got[owner]]

\* Panel bytes reach clients in order, each one at most once, whichever clients
\* come and go: lending the line again never replays an earlier owner's bytes.
StreamToClient ==
  \A i, j \in DOMAIN toClient :
    i < j => /\ toClient[i].byte < toClient[j].byte
             /\ toClient[i].conn <= toClient[j].conn
=============================================================================
