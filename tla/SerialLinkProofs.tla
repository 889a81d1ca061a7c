-------------------------- MODULE SerialLinkProofs --------------------------
(***************************************************************************)
(* For any clients that are positive numbers, any capacities and any size of *)
(* step: on a serial line neither direction loses its order, repeats a byte  *)
(* or carries one over to another client's turn.                            *)
(***************************************************************************)
EXTENDS SerialLink, TLAPS, SequenceTheorems

-----------------------------------------------------------------------------
(* Helpers *)

\* A part of a sequence from its i-th element on, or up to it.
LEMMA Part ==
  ASSUME NEW S, NEW s \in Seq(S), NEW a \in 1 .. Len(s) + 1, NEW b \in 0 .. Len(s), a <= b + 1
  PROVE  /\ SubSeq(s, a, b) \in Seq(S)
         /\ Len(SubSeq(s, a, b)) = b - a + 1
         /\ \A i \in 1 .. b - a + 1 : SubSeq(s, a, b)[i] = s[a + i - 1]
<1>1. Len(s) \in Nat /\ a \in Nat /\ b \in Nat
  BY LenProperties, SMT
<1>2. \A i \in a .. b : s[i] \in S
  BY <1>1, ElementOfSeq, SMT
<1>3. /\ SubSeq(s, a, b) \in Seq(S)
      /\ Len(SubSeq(s, a, b)) = IF a <= b THEN b - a + 1 ELSE 0
      /\ \A i \in 1 .. b - a + 1 : SubSeq(s, a, b)[i] = s[a + i - 1]
  BY <1>1, <1>2, SubSeqProperties
<1>4. QED BY <1>1, <1>3, SMT

-----------------------------------------------------------------------------
(* The panel's bytes *)

Received == [conn : Clients, byte : Nat]

\* Numbers that only grow.
Rising(s) == \A i, j \in DOMAIN s : i < j => s[i] < s[j]

UpTypeOK ==
  /\ owner \in Clients \cup {NoOne}
  /\ answered \subseteq Clients
  /\ owner # NoOne => owner \in answered
  /\ taken \in Nat
  /\ up \in Seq(Nat)
  /\ toClient \in Seq(Received)

\* What a client received comes before what is under way, what is under way before
\* what the panel will give; and whoever received something was answered, and not
\* after the owner.
UpInv ==
  /\ UpTypeOK
  /\ Rising(up)
  /\ \A j \in DOMAIN up : up[j] <= taken
  /\ \A i \in DOMAIN toClient :
       /\ toClient[i].byte <= taken
       /\ toClient[i].conn \in answered
       /\ owner # NoOne => toClient[i].conn <= owner
       /\ \A j \in DOMAIN up : toClient[i].byte < up[j]
  /\ StreamToClient

\* A stretch cut out of a rising sequence leaves a rising sequence.
LEMMA RisingWithout ==
  ASSUME NEW s \in Seq(Nat), Rising(s),
         NEW i \in 0 .. Len(s), NEW j \in 0 .. Len(s), i <= j
  PROVE  LET t == SubSeq(s, 1, i) \o SubSeq(s, j + 1, Len(s))
         IN  /\ t \in Seq(Nat) /\ Rising(t)
             /\ \A k \in DOMAIN t : \E l \in DOMAIN s : t[k] = s[l]
<1> DEFINE a == SubSeq(s, 1, i)
           b == SubSeq(s, j + 1, Len(s))
           t == a \o b
<1>1. Len(s) \in Nat /\ DOMAIN s = 1 .. Len(s)
  BY LenProperties
<1>2. a \in Seq(Nat) /\ Len(a) = i /\ \A k \in 1..i : a[k] = s[k]
  <2>1. /\ a \in Seq(Nat) /\ Len(a) = i - 1 + 1
        /\ \A k \in 1 .. i - 1 + 1 : a[k] = s[1 + k - 1]
    BY <1>1, Part, SMT
  <2> HIDE DEF a
  <2>2. QED BY <1>1, <2>1, SMT
<1>3. b \in Seq(Nat) /\ Len(b) = Len(s) - j /\ \A k \in 1 .. Len(s) - j : b[k] = s[j + k]
  <2>1. j + 1 \in 1 .. Len(s) + 1 /\ Len(s) \in 0 .. Len(s) /\ j + 1 <= Len(s) + 1
    BY <1>1, SMT
  <2>2. /\ b \in Seq(Nat) /\ Len(b) = Len(s) - (j + 1) + 1
        /\ \A k \in 1 .. Len(s) - (j + 1) + 1 : b[k] = s[j + 1 + k - 1]
    BY <2>1, Part
  <2> HIDE DEF b
  <2>3. QED BY <1>1, <2>2, SMT
<1> HIDE DEF a, b
<1>4. /\ t \in Seq(Nat) /\ Len(t) = Len(a) + Len(b)
      /\ \A k \in 1 .. Len(a) + Len(b) : t[k] = IF k <= Len(a) THEN a[k] ELSE b[k - Len(a)]
  BY <1>2, <1>3, ConcatProperties
<1> HIDE DEF t
<1> DEFINE Was(k) == IF k <= i THEN k ELSE j + (k - i)
<1>5. DOMAIN t = 1 .. i + (Len(s) - j)
  BY <1>2, <1>3, <1>4, LenProperties
<1>6. \A k \in DOMAIN t : Was(k) \in DOMAIN s
  BY <1>1, <1>5, SMT
<1>7. \A k, l \in DOMAIN t : k < l => Was(k) < Was(l)
  BY <1>1, <1>5, SMT
<1>8. ASSUME NEW k \in DOMAIN t PROVE t[k] = s[Was(k)]
  <2>1. k \in 1 .. i + (Len(s) - j)
    BY <1>5
  <2>2. t[k] = IF k <= i THEN a[k] ELSE b[k - i]
    BY <1>2, <1>3, <1>4, <2>1
  <2>3. CASE k <= i
    BY <1>1, <1>2, <2>1, <2>2, <2>3, SMT
  <2>4. CASE ~(k <= i)
    <3>1. k - i \in 1 .. Len(s) - j
      BY <1>1, <2>1, <2>4, SMT
    <3>2. QED BY <1>3, <2>2, <2>4, <3>1
  <2>5. QED BY <2>3, <2>4
<1> HIDE DEF Was
<1>9. Rising(t)
  BY <1>6, <1>7, <1>8 DEF Rising
<1>10. \A k \in DOMAIN t : \E l \in DOMAIN s : t[k] = s[l]
  BY <1>6, <1>8
<1>11. QED BY <1>4, <1>9, <1>10 DEF t, a, b

LEMMA InitUp == LinkInit => UpInv
<1> SUFFICES ASSUME LinkInit PROVE UpInv
  OBVIOUS
<1>1. DOMAIN up = {} /\ DOMAIN toClient = {}
  BY SMT DEF LinkInit
<1>2. UpTypeOK
  BY SMT DEF LinkInit, UpTypeOK, Received, NoOne
<1>3. QED BY <1>1, <1>2 DEF UpInv, Rising, StreamToClient

\* New bytes of the panel are larger than all before; a loss takes a stretch out.
LEMMA FromPanelUp ==
  ASSUME UpInv, NEW n \in Nat, FromPanel(n) PROVE UpInv'
<1> DEFINE new == [i \in 1..n |-> taken + i]
           s == up \o new
<1>1. /\ taken \in Nat /\ up \in Seq(Nat) /\ new \in Seq(Nat) /\ Len(new) = n
      /\ Len(up) \in Nat /\ DOMAIN up = 1 .. Len(up)
  BY LenProperties DEF UpInv, UpTypeOK
<1>2. /\ s \in Seq(Nat) /\ Len(s) = Len(up) + n /\ DOMAIN s = 1 .. Len(s)
      /\ \A i \in 1 .. Len(s) : s[i] = IF i <= Len(up) THEN up[i] ELSE taken + (i - Len(up))
  <2>1. \A i \in 1..n : new[i] = taken + i
    OBVIOUS
  <2> HIDE DEF new
  <2>2. /\ s \in Seq(Nat) /\ Len(s) = Len(up) + n
        /\ \A i \in 1 .. Len(up) + n : s[i] = IF i <= Len(up) THEN up[i] ELSE new[i - Len(up)]
    BY <1>1, ConcatProperties
  <2> HIDE DEF s
  <2>3. \A i \in 1 .. Len(up) + n : ~(i <= Len(up)) => i - Len(up) \in 1..n
    BY <1>1, SMT
  <2>4. QED BY <2>1, <2>2, <2>3, LenProperties
<1> HIDE DEF s, new
<1>3. \A i \in DOMAIN up : up[i] \in Nat /\ up[i] <= taken
  BY <1>1, ElementOfSeq DEF UpInv
<1>4. Rising(s)
  <2> SUFFICES ASSUME NEW i \in DOMAIN s, NEW j \in DOMAIN s, i < j PROVE s[i] < s[j]
    BY DEF Rising
  <2>1. CASE j <= Len(up)
    <3>1. i \in DOMAIN up /\ j \in DOMAIN up /\ i <= Len(up)
      BY <1>1, <1>2, <2>1, SMT
    <3>2. up[i] < up[j]
      BY <3>1 DEF UpInv, Rising
    <3>3. QED BY <1>2, <2>1, <3>1, <3>2
  <2>2. CASE ~(j <= Len(up)) /\ i <= Len(up)
    <3>1. i \in DOMAIN up /\ s[j] = taken + (j - Len(up)) /\ s[i] = up[i]
      BY <1>1, <1>2, <2>2, SMT
    <3>2. up[i] \in Nat /\ up[i] <= taken /\ j \in Nat
      BY <1>2, <1>3, <3>1
    <3>3. QED BY <1>1, <2>2, <3>1, <3>2, SMT
  <2>3. CASE ~(j <= Len(up)) /\ ~(i <= Len(up))
    <3>1. s[j] = taken + (j - Len(up)) /\ s[i] = taken + (i - Len(up))
      BY <1>2, <2>3
    <3>2. QED BY <1>1, <1>2, <3>1, SMT
  <2>4. QED BY <2>1, <2>2, <2>3
<1>5. ASSUME NEW i \in DOMAIN s
      PROVE  s[i] <= taken + n /\ ((\E k \in DOMAIN up : s[i] = up[k]) \/ taken < s[i])
  <2>1. CASE i <= Len(up)
    <3>1. i \in DOMAIN up /\ s[i] = up[i]
      BY <1>1, <1>2, <2>1, SMT
    <3>2. up[i] \in Nat /\ up[i] <= taken
      BY <1>3, <3>1
    <3>3. QED BY <1>1, <3>1, <3>2, SMT
  <2>2. CASE ~(i <= Len(up))
    <3>1. s[i] = taken + (i - Len(up))
      BY <1>2, <2>2
    <3>2. QED BY <1>1, <1>2, <2>2, <3>1, SMT
  <2>3. QED BY <2>1, <2>2
<1>6. PICK i \in 0 .. Len(s), j \in 0 .. Len(s) :
        i <= j /\ up' = SubSeq(s, 1, i) \o SubSeq(s, j + 1, Len(s))
  BY DEF FromPanel, s, new
<1>7. /\ up' \in Seq(Nat) /\ Rising(up')
      /\ \A k \in DOMAIN up' : \E l \in DOMAIN s : up'[k] = s[l]
  BY <1>2, <1>4, <1>6, RisingWithout
<1>8. taken' = taken + n /\ UNCHANGED <<owner, answered, toClient>>
  BY DEF FromPanel
<1>9. ASSUME NEW i1 \in DOMAIN toClient
      PROVE  toClient[i1].byte \in Nat /\ toClient[i1].byte <= taken
  <2>1. toClient[i1] \in Received
    BY ElementOfSeq, LenProperties DEF UpInv, UpTypeOK
  <2>2. QED BY <2>1 DEF UpInv, Received
<1>10. \A k \in DOMAIN up' : up'[k] <= taken'
  BY <1>5, <1>7, <1>8
<1>11. ASSUME NEW i1 \in DOMAIN toClient, NEW k \in DOMAIN up'
       PROVE  toClient[i1].byte < up'[k]
  <2>1. PICK l \in DOMAIN s : up'[k] = s[l]
    BY <1>7
  <2>2. CASE \E m \in DOMAIN up : s[l] = up[m]
    BY <2>1, <2>2 DEF UpInv
  <2>3. CASE taken < s[l]
    <3>1. s[l] \in Nat
      BY <1>2, ElementOfSeq
    <3>2. QED BY <1>1, <1>9, <2>1, <2>3, <3>1, SMT
  <2>4. QED BY <1>5, <2>2, <2>3
<1>12. \A i1 \in DOMAIN toClient : toClient[i1].byte <= taken'
  BY <1>1, <1>8, <1>9, SMT
<1>13. QED
  BY <1>1, <1>7, <1>8, <1>10, <1>11, <1>12 DEF UpInv, UpTypeOK, StreamToClient

\* What remains of a sequence without its first k elements.
LEMMA Suffix ==
  ASSUME NEW S, NEW s \in Seq(S), NEW k \in 0 .. Len(s)
  PROVE  LET t == SubSeq(s, k + 1, Len(s))
         IN  /\ t \in Seq(S) /\ DOMAIN t = 1 .. Len(s) - k /\ Len(t) = Len(s) - k
             /\ \A i \in DOMAIN t : k + i \in DOMAIN s /\ t[i] = s[k + i]
<1> DEFINE t == SubSeq(s, k + 1, Len(s))
<1>1. Len(s) \in Nat /\ DOMAIN s = 1 .. Len(s) /\ k \in Nat /\ k <= Len(s)
  BY LenProperties, SMT
<1>2. k + 1 \in 1 .. Len(s) + 1 /\ Len(s) \in 0 .. Len(s) /\ k + 1 <= Len(s) + 1
  BY <1>1, SMT
<1>3. /\ t \in Seq(S) /\ Len(t) = Len(s) - (k + 1) + 1
      /\ \A i \in 1 .. Len(s) - (k + 1) + 1 : t[i] = s[k + 1 + i - 1]
  BY <1>2, Part
<1> HIDE DEF t
<1>4. DOMAIN t = 1 .. Len(t)
  BY <1>3, LenProperties
<1>5. ASSUME NEW i \in DOMAIN t
      PROVE  i \in 1 .. Len(s) - (k + 1) + 1 /\ k + i \in DOMAIN s /\ k + 1 + i - 1 = k + i
  BY <1>1, <1>3, <1>4, SMT
<1>6. Len(t) = Len(s) - k
  BY <1>1, <1>3, SMT
<1>7. QED BY <1>3, <1>4, <1>5, <1>6 DEF t

LEMMA RisingSuffix ==
  ASSUME NEW s \in Seq(Nat), Rising(s), NEW k \in 0 .. Len(s)
  PROVE  Rising(SubSeq(s, k + 1, Len(s)))
<1> DEFINE t == SubSeq(s, k + 1, Len(s))
<1>1. DOMAIN t = 1 .. Len(s) - k /\ \A i \in DOMAIN t : k + i \in DOMAIN s /\ t[i] = s[k + i]
  BY Suffix
<1> HIDE DEF t
<1>2. \A i, j \in DOMAIN t : i < j => k + i < k + j
  BY <1>1, LenProperties, SMT
<1>3. Rising(t)
  BY <1>1, <1>2 DEF Rising
<1>4. QED BY <1>3 DEF t

LEMMA ReturnUp ==
  ASSUME UpInv, Return PROVE UpInv'
<1>1. /\ owner' = NoOne /\ UNCHANGED <<taken, toClient>>
      /\ answered \subseteq answered' /\ answered' \subseteq Clients
  BY DEF Return
<1>2. PICK k \in 0 .. Len(up) : up' = SubSeq(up, k + 1, Len(up))
  BY DEF Return
<1>3. up \in Seq(Nat) /\ Rising(up)
  BY DEF UpInv, UpTypeOK
<1>4. /\ up' \in Seq(Nat) /\ Rising(up')
      /\ \A i \in DOMAIN up' : k + i \in DOMAIN up /\ up'[i] = up[k + i]
  BY <1>2, <1>3, Suffix, RisingSuffix
<1>5. UpTypeOK'
  BY <1>1, <1>4 DEF UpInv, UpTypeOK
<1>6. QED BY <1>1, <1>4, <1>5 DEF UpInv, StreamToClient

\* The line is lent anew: the client is later than all who were answered.
LEMMA LendUp ==
  ASSUME Clients \subseteq Nat \ {0}, UpInv, NEW c \in Clients, Lend(c) PROVE UpInv'
<1>1. /\ owner' = c /\ answered' = answered \cup {c} /\ up' = <<>>
      /\ UNCHANGED <<taken, toClient>> /\ \A d \in answered : d < c
  BY DEF Lend, InTurn
<1>2. UpTypeOK'
  <2>1. up' \in Seq(Nat)
    BY <1>1
  <2>2. owner' \in Clients /\ answered' \subseteq Clients /\ owner' \in answered'
    BY <1>1 DEF UpInv, UpTypeOK
  <2>3. QED BY <1>1, <2>1, <2>2 DEF UpInv, UpTypeOK
<1>3. DOMAIN up' = {}
  BY <1>1, SMT
<1>4. \A i \in DOMAIN toClient : toClient[i].conn \in answered' /\ toClient[i].conn <= c
  <2>1. answered \subseteq Nat
    BY DEF UpInv, UpTypeOK
  <2>2. \A d \in answered : d <= c
    BY <1>1, <2>1, SMT
  <2>3. QED BY <1>1, <2>2 DEF UpInv
<1>5. QED BY <1>1, <1>2, <1>3, <1>4 DEF UpInv, Rising, StreamToClient

LEMMA ToClientUp ==
  ASSUME Clients \subseteq Nat \ {0}, UpInv, NEW n \in Nat, ToClient(n) PROVE UpInv'
<1> DEFINE new == [i \in 1..n |-> [conn |-> owner, byte |-> up[i]]]
<1>1. /\ owner # NoOne /\ n <= Len(up)
      /\ toClient' = toClient \o new /\ up' = SubSeq(up, n + 1, Len(up))
      /\ UNCHANGED <<owner, answered, taken>>
  BY DEF ToClient
<1>2. /\ up \in Seq(Nat) /\ Rising(up) /\ Len(up) \in Nat /\ DOMAIN up = 1 .. Len(up)
      /\ toClient \in Seq(Received) /\ Len(toClient) \in Nat
      /\ DOMAIN toClient = 1 .. Len(toClient)
      /\ taken \in Nat /\ owner \in Clients /\ owner \in answered /\ owner \in Nat
  BY <1>1, LenProperties DEF UpInv, UpTypeOK
<1>3. \A i \in DOMAIN up : up[i] \in Nat
  BY <1>2, ElementOfSeq
<1>4. /\ new \in Seq(Received) /\ Len(new) = n
      /\ \A i \in 1..n : /\ new[i] = [conn |-> owner, byte |-> up[i]]
                          /\ i \in DOMAIN up
  <2>1. 1..n \subseteq DOMAIN up
    BY <1>1, <1>2, SMT
  <2>2. \A i \in 1..n : [conn |-> owner, byte |-> up[i]] \in Received
    BY <1>2, <1>3, <2>1 DEF Received
  <2>3. QED BY <2>1, <2>2
<1>5. /\ up' \in Seq(Nat) /\ Rising(up') /\ DOMAIN up' = 1 .. Len(up) - n
      /\ \A i \in DOMAIN up' : n + i \in DOMAIN up /\ up'[i] = up[n + i]
  <2>1. n \in 0 .. Len(up)
    BY <1>1, <1>2, SMT
  <2>2. QED BY <1>1, <1>2, <2>1, Suffix, RisingSuffix
<1> DEFINE m == Len(toClient)
<1> HIDE DEF new
<1>6. /\ toClient' \in Seq(Received) /\ DOMAIN toClient' = 1 .. m + n
      /\ \A i \in 1 .. m + n : toClient'[i] = IF i <= m THEN toClient[i] ELSE new[i - m]
  <2>1. toClient' \in Seq(Received) /\ Len(toClient') = m + n
    BY <1>1, <1>2, <1>4, ConcatProperties
  <2>2. \A i \in 1 .. m + n : toClient'[i] = IF i <= m THEN toClient[i] ELSE new[i - m]
    BY <1>1, <1>2, <1>4, ConcatProperties
  <2>3. QED BY <2>1, <2>2, LenProperties
<1>7. ASSUME NEW i \in DOMAIN toClient', i <= m
      PROVE  i \in DOMAIN toClient /\ toClient'[i] = toClient[i]
  BY <1>2, <1>6, <1>7, SMT
<1>8. ASSUME NEW i \in DOMAIN toClient', ~(i <= m)
      PROVE  /\ i - m \in 1..n /\ i - m \in DOMAIN up
             /\ toClient'[i].conn = owner /\ toClient'[i].byte = up[i - m]
  <2>1. i - m \in 1..n /\ i \in 1 .. m + n
    BY <1>2, <1>6, <1>8, SMT
  <2>2. toClient'[i] = [conn |-> owner, byte |-> up[i - m]]
    BY <1>4, <1>6, <1>8, <2>1
  <2>3. QED BY <1>4, <2>1, <2>2
<1>9. UpTypeOK'
  BY <1>1, <1>5, <1>6 DEF UpInv, UpTypeOK
<1>10. \A j \in DOMAIN up' : up'[j] <= taken'
  BY <1>1, <1>5 DEF UpInv
<1>11. ASSUME NEW i \in DOMAIN toClient'
       PROVE  /\ toClient'[i].byte <= taken /\ toClient'[i].conn \in answered
              /\ toClient'[i].conn <= owner
              /\ \A j \in DOMAIN up' : toClient'[i].byte < up'[j]
  <2>1. CASE i <= m
    BY <1>1, <1>5, <1>7, <2>1 DEF UpInv
  <2>2. CASE ~(i <= m)
    <3>1. /\ i - m \in DOMAIN up /\ toClient'[i].conn = owner /\ toClient'[i].byte = up[i - m]
      BY <1>8, <2>2
    <3>2. up[i - m] <= taken
      BY <3>1 DEF UpInv
    <3>3. ASSUME NEW j \in DOMAIN up' PROVE up[i - m] < up'[j]
      <4>1. n + j \in DOMAIN up /\ up'[j] = up[n + j]
        BY <1>5
      <4>2. i - m < n + j
        BY <1>2, <1>5, <1>8, <2>2, SMT
      <4>3. QED BY <1>2, <3>1, <4>1, <4>2 DEF Rising
    <3>4. owner <= owner
      BY <1>2, SMT
    <3>5. QED BY <1>2, <3>1, <3>2, <3>3, <3>4
  <2>3. QED BY <2>1, <2>2
<1>12. ASSUME NEW i \in DOMAIN toClient', NEW j \in DOMAIN toClient', i < j
       PROVE  /\ toClient'[i].byte < toClient'[j].byte
              /\ toClient'[i].conn <= toClient'[j].conn
  <2>1. CASE j <= m
    <3>1. i <= m
      BY <1>2, <1>6, <1>12, <2>1, SMT
    <3>2. QED BY <1>7, <1>12, <2>1, <3>1 DEF UpInv, StreamToClient
  <2>2. CASE ~(j <= m) /\ i <= m
    <3>1. /\ i \in DOMAIN toClient /\ toClient'[i] = toClient[i]
          /\ j - m \in DOMAIN up
          /\ toClient'[j].conn = owner /\ toClient'[j].byte = up[j - m]
      BY <1>7, <1>8, <2>2
    <3>2. QED BY <1>1, <3>1 DEF UpInv
  <2>3. CASE ~(j <= m) /\ ~(i <= m)
    <3>1. /\ i - m \in DOMAIN up /\ j - m \in DOMAIN up
          /\ toClient'[i].conn = owner /\ toClient'[i].byte = up[i - m]
          /\ toClient'[j].conn = owner /\ toClient'[j].byte = up[j - m]
      BY <1>8, <2>3
    <3>2. i - m < j - m /\ owner <= owner
      BY <1>2, <1>6, <1>12, SMT
    <3>3. QED BY <1>2, <3>1, <3>2 DEF Rising
  <2>4. QED BY <2>1, <2>2, <2>3
<1>13. QED BY <1>1, <1>5, <1>9, <1>10, <1>11, <1>12 DEF UpInv, StreamToClient

LEMMA NextUp ==
  ASSUME Clients \subseteq Nat \ {0}, MaxBatch \in Nat, UpInv, [LinkNext]_linkVars PROVE UpInv'
<1>1. \A n \in 1..MaxBatch : n \in Nat
  BY SMT
<1>2. CASE ToPanel \/ UNCHANGED linkVars \/ \E n \in 1..MaxBatch : FromClient(n)
  <2>1. UNCHANGED <<owner, answered, taken, up, toClient>>
    BY <1>2 DEF ToPanel, FromClient, linkVars
  <2>2. QED BY <2>1 DEF UpInv, UpTypeOK, StreamToClient, Rising
<1>3. CASE Shut \/ \E c \in Clients : TurnAway(c)
  <2>1. /\ UNCHANGED <<owner, taken, up, toClient>>
        /\ answered \subseteq answered' /\ answered' \subseteq Clients
    BY <1>3 DEF Shut, TurnAway, UpInv, UpTypeOK
  <2>2. QED BY <2>1 DEF UpInv, UpTypeOK, StreamToClient, Rising
<1>4. QED BY <1>1, <1>2, <1>3, FromPanelUp, ReturnUp, LendUp, ToClientUp DEF LinkNext

\* Panel bytes reach clients in order, each at most once, however often the line is
\* lent: for any clients, capacities and size of step.
THEOREM LinkToClient ==
  ASSUME Clients \subseteq Nat \ {0}, MaxBatch \in Nat
  PROVE  LinkSpec => []StreamToClient
<1>1. UpInv /\ [LinkNext]_linkVars => UpInv'
  BY NextUp
<1>2. UpInv => StreamToClient
  BY DEF UpInv
<1>3. QED BY <1>1, <1>2, InitUp, PTL DEF LinkSpec

-----------------------------------------------------------------------------
(* The clients' bytes *)

Sent == [conn : Clients, n : Nat \ {0}]

\* What the panel got or will get.
Given == toPanel \o down

DownTypeOK ==
  /\ owner \in Clients \cup {NoOne}
  /\ answered \subseteq Clients
  /\ owner # NoOne => owner \in answered
  /\ got \in [Clients -> Nat]
  /\ down \in Seq(Sent) /\ toPanel \in Seq(Sent)

\* Client after client, each from its first byte on without a gap.
Unbroken(s) ==
  \A i \in 1 .. Len(s) :
    \/ s[i].n = 1 /\ (i > 1 => s[i-1].conn < s[i].conn)
    \/ i > 1 /\ s[i-1].conn = s[i].conn /\ s[i].n = s[i-1].n + 1

\* All that the owner gave is there, and last.
OwnersComplete(s) ==
  owner # NoOne =>
    IF got[owner] = 0 THEN \A i \in 1 .. Len(s) : s[i].conn # owner
    ELSE Len(s) > 0 /\ s[Len(s)] = [conn |-> owner, n |-> got[owner]]

\* Who was never answered gave nothing; who gave something was answered, and not
\* after the owner.
DownInv ==
  /\ DownTypeOK
  /\ \A c \in Clients \ answered : got[c] = 0
  /\ \A i \in 1 .. Len(Given) :
       /\ Given[i].conn \in answered
       /\ owner # NoOne => Given[i].conn <= owner
  /\ Unbroken(Given)
  /\ OwnersComplete(Given)

LEMMA GivenType ==
  ASSUME DownTypeOK
  PROVE  Given \in Seq(Sent) /\ Len(Given) \in Nat
BY ConcatProperties, LenProperties DEF DownTypeOK, Given

LEMMA InitDown == LinkInit => DownInv
<1> SUFFICES ASSUME LinkInit PROVE DownInv
  OBVIOUS
<1>1. Given = <<>> /\ Len(Given) = 0 /\ 1 .. 0 = {}
  BY SMT DEF LinkInit, Given
<1>2. DownTypeOK
  BY SMT DEF LinkInit, DownTypeOK, NoOne
<1>3. owner = NoOne /\ \A c \in Clients : got[c] = 0
  BY DEF LinkInit
<1>4. QED BY <1>1, <1>2, <1>3 DEF DownInv, Unbroken, OwnersComplete

\* Steps that move bytes only from one hand to the other, or none, and lend to nobody.
LEMMA KeepsDown ==
  ASSUME DownInv, DownTypeOK', Given' = Given, UNCHANGED got,
         answered \subseteq answered', owner' \in {owner, NoOne}
  PROVE  DownInv'
<1>1. \A i \in 1 .. Len(Given') :
        /\ Given'[i].conn \in answered'
        /\ owner' # NoOne => Given'[i].conn <= owner'
  BY DEF DownInv
<1>2. Unbroken(Given)' /\ OwnersComplete(Given)'
  BY DEF DownInv, Unbroken, OwnersComplete
<1>3. \A c \in Clients \ answered' : got'[c] = 0
  BY DEF DownInv
<1>4. QED BY <1>1, <1>2, <1>3 DEF DownInv

LEMMA ToPanelDown == ASSUME DownInv, ToPanel PROVE DownInv'
<1>1. /\ toPanel' = Given /\ down' = <<>> /\ UNCHANGED <<owner, answered, got>>
  BY DEF ToPanel, Given
<1>2. Given \in Seq(Sent)
  BY GivenType DEF DownInv
<1>3. Given' = Given
  BY <1>1, <1>2, ConcatEmptySeq DEF Given
<1>4. DownTypeOK'
  <2>1. down' \in Seq(Sent)
    BY <1>1
  <2>2. QED BY <1>1, <1>2, <2>1 DEF DownInv, DownTypeOK
<1>5. QED BY <1>1, <1>3, <1>4, KeepsDown

LEMMA SentAssociate ==
  ASSUME NEW a \in Seq(Sent), NEW b \in Seq(Sent), NEW c \in Seq(Sent)
  PROVE  (a \o b) \o c = a \o (b \o c)
BY ConcatAssociative

LEMMA FromClientDown ==
  ASSUME Clients \subseteq Nat \ {0}, DownInv, NEW n \in Nat, FromClient(n) PROVE DownInv'
<1> DEFINE g == got[owner]
           new == [i \in 1..n |-> [conn |-> owner, n |-> g + i]]
<1>1. /\ owner # NoOne /\ down' = down \o new /\ got' = [got EXCEPT ![owner] = @ + n]
      /\ UNCHANGED <<owner, answered, toPanel>>
  BY DEF FromClient
<1>2. owner \in Clients /\ owner \in answered /\ owner \in Nat /\ g \in Nat
  BY <1>1 DEF DownInv, DownTypeOK
<1>3. /\ new \in Seq(Sent) /\ Len(new) = n
      /\ \A i \in 1..n : new[i] = [conn |-> owner, n |-> g + i]
  <2>1. \A i \in 1..n : g + i \in Nat \ {0}
    BY <1>2, SMT
  <2> HIDE DEF g
  <2>2. \A i \in 1..n : [conn |-> owner, n |-> g + i] \in Sent
    BY <1>2, <2>1 DEF Sent
  <2>3. QED BY <2>2
<1> HIDE DEF new
<1>4. down \in Seq(Sent) /\ toPanel \in Seq(Sent) /\ got \in [Clients -> Nat]
  BY DEF DownInv, DownTypeOK
<1>5. Given' = Given \o new
  <2>1. Given' = toPanel \o (down \o new)
    BY <1>1 DEF Given
  <2>2. (toPanel \o down) \o new = toPanel \o (down \o new)
    BY <1>3, <1>4, SentAssociate
  <2>3. QED BY <2>1, <2>2 DEF Given
<1>6. got' \in [Clients -> Nat] /\ got'[owner] = g + n
      /\ \A c \in Clients : c # owner => got'[c] = got[c]
  BY <1>1, <1>2, <1>4, SMT
<1>7. DownTypeOK'
  <2>1. down' \in Seq(Sent)
    BY <1>1, <1>3, <1>4, ConcatProperties
  <2>2. QED BY <1>1, <1>6, <2>1 DEF DownInv, DownTypeOK
<1> DEFINE m == Len(Given)
<1>8. Given \in Seq(Sent) /\ m \in Nat
  BY GivenType DEF DownInv
<1>9. /\ Len(Given') = m + n
      /\ \A i \in 1 .. m + n : Given'[i] = IF i <= m THEN Given[i] ELSE new[i - m]
  BY <1>3, <1>5, <1>8, ConcatProperties
<1> HIDE DEF m, g
<1>10. ASSUME NEW i \in 1 .. m + n, i <= m
       PROVE  i \in 1..m /\ Given'[i] = Given[i]
  BY <1>8, <1>9, <1>10, SMT
<1>11. ASSUME NEW i \in 1 .. m + n, ~(i <= m)
       PROVE  Given'[i].conn = owner /\ Given'[i].n = g + (i - m)
  <2>1. i - m \in 1..n
    BY <1>8, <1>11, SMT
  <2>2. Given'[i] = [conn |-> owner, n |-> g + (i - m)]
    BY <1>3, <1>9, <1>11, <2>1
  <2>3. QED BY <2>2
<1>12. ASSUME NEW i \in 1 .. Len(Given')
       PROVE  Given'[i].conn \in answered' /\ Given'[i].conn <= owner'
  <2>1. CASE i <= m
    BY <1>1, <1>9, <1>10, <2>1 DEF DownInv, m
  <2>2. CASE ~(i <= m)
    BY <1>1, <1>2, <1>9, <1>11, <2>2, SMT
  <2>3. QED BY <2>1, <2>2
<1>13. ASSUME NEW i \in 1 .. Len(Given')
       PROVE  \/ Given'[i].n = 1 /\ (i > 1 => Given'[i-1].conn < Given'[i].conn)
              \/ i > 1 /\ Given'[i-1].conn = Given'[i].conn /\ Given'[i].n = Given'[i-1].n + 1
  <2> DEFINE P(s) == \/ s[i].n = 1 /\ (i > 1 => s[i-1].conn < s[i].conn)
                     \/ i > 1 /\ s[i-1].conn = s[i].conn /\ s[i].n = s[i-1].n + 1
  <2>1. CASE i <= m
    <3>1. i \in 1..m /\ Given'[i] = Given[i]
      BY <1>9, <1>10, <2>1
    <3>2. i > 1 => Given'[i-1] = Given[i-1]
      <4>1. i > 1 => i - 1 \in 1 .. m + n /\ i - 1 <= m
        BY <1>8, <1>9, <2>1, SMT
      <4>2. QED BY <1>10, <4>1
    <3>3. \/ Given[i].n = 1 /\ (i > 1 => Given[i-1].conn < Given[i].conn)
          \/ i > 1 /\ Given[i-1].conn = Given[i].conn /\ Given[i].n = Given[i-1].n + 1
      BY <3>1 DEF DownInv, Unbroken, m
    <3>4. QED BY <3>1, <3>2, <3>3
  <2>2. CASE i = m + 1 /\ g = 0
    <3>1. Given'[i].conn = owner /\ Given'[i].n = 1
      BY <1>8, <1>9, <1>11, <2>2, SMT
    <3>2. ASSUME i > 1 PROVE Given'[i-1].conn < owner
      <4>1. m \in 1..m /\ i - 1 = m /\ m \in 1 .. m + n /\ m <= m
        BY <1>8, <2>2, <3>2, SMT
      <4>2. Given[m].conn \in answered /\ Given[m].conn <= owner /\ Given[m].conn # owner
        BY <1>1, <2>2, <4>1 DEF DownInv, OwnersComplete, m, g
      <4>3. Given[m].conn \in Nat
        BY <4>2 DEF DownInv, DownTypeOK
      <4>4. Given[m].conn < owner
        BY <1>2, <4>2, <4>3, SMT
      <4>5. QED BY <1>10, <4>1, <4>4
    <3>3. QED BY <3>1, <3>2
  <2>3. CASE i = m + 1 /\ g # 0
    <3>1. Given'[i].conn = owner /\ Given'[i].n = g + 1
      BY <1>8, <1>9, <1>11, <2>3, SMT
    <3>2. m > 0 /\ Given[m] = [conn |-> owner, n |-> g]
      BY <1>1, <2>3 DEF DownInv, OwnersComplete, m, g
    <3>3. i > 1 /\ i - 1 = m /\ m \in 1 .. m + n /\ m <= m
      BY <1>8, <2>3, <3>2, SMT
    <3>4. Given'[i-1] = Given[m]
      BY <1>10, <3>3
    <3>5. QED BY <3>1, <3>2, <3>3, <3>4
  <2>4. CASE i > m + 1
    <3>1. /\ i - 1 \in 1 .. m + n /\ ~(i - 1 <= m) /\ ~(i <= m) /\ i > 1
          /\ g + (i - m) = g + (i - 1 - m) + 1
      BY <1>2, <1>8, <1>9, <2>4, SMT DEF g
    <3>2. QED BY <1>9, <1>11, <3>1
  <2>5. QED BY <1>8, <1>9, <2>1, <2>2, <2>3, <2>4, SMT
<1>14. OwnersComplete(Given)'
  <2>1. CASE n = 0
    <3>1. Len(Given') = m /\ \A i \in 1..m : Given'[i] = Given[i]
      BY <1>8, <1>9, <1>10, <2>1, SMT
    <3>2. got'[owner'] = g /\ owner' = owner
      BY <1>1, <1>2, <1>6, <2>1, SMT DEF g
    <3>3. m > 0 => m \in 1..m
      BY <1>8, SMT
    <3>4. IF g = 0 THEN \A i \in 1 .. m : Given[i].conn # owner
          ELSE m > 0 /\ Given[m] = [conn |-> owner, n |-> g]
      BY <1>1 DEF DownInv, OwnersComplete, m, g
    <3>5. QED BY <3>1, <3>2, <3>3, <3>4 DEF OwnersComplete
  <2>2. CASE n # 0
    <3>1. m + n \in 1 .. m + n /\ ~(m + n <= m) /\ m + n - m = n /\ m + n > 0 /\ g + n # 0
      BY <1>2, <1>8, <2>2, SMT DEF g
    <3>2. Given'[m + n] = [conn |-> owner, n |-> g + n]
      <4>1. n \in 1..n
        BY <2>2, SMT
      <4>2. new[n] = [conn |-> owner, n |-> g + n]
        BY <1>3, <4>1
      <4>3. ASSUME NEW i \in 1 .. m + n, i = m + n PROVE Given'[i] = new[n]
        <5>1. ~(i <= m) /\ i - m = n
          BY <1>8, <2>2, <4>3, SMT
        <5>2. QED BY <1>9, <5>1
      <4>4. QED BY <3>1, <4>2, <4>3
    <3>3. QED BY <1>1, <1>6, <1>9, <3>1, <3>2 DEF OwnersComplete
  <2>3. QED BY <2>1, <2>2
<1>15. \A c \in Clients \ answered' : got'[c] = 0
  BY <1>1, <1>2, <1>6 DEF DownInv
<1>16. QED BY <1>7, <1>12, <1>13, <1>14, <1>15 DEF DownInv, Unbroken

\* What is held for the panel is forgotten; the new owner gave nothing yet.
LEMMA LendDown ==
  ASSUME Clients \subseteq Nat \ {0}, DownInv, NEW c \in Clients, Lend(c) PROVE DownInv'
<1>1. /\ owner' = c /\ answered' = answered \cup {c} /\ down' = <<>>
      /\ UNCHANGED <<got, toPanel>> /\ \A d \in answered : d < c
  BY DEF Lend, InTurn
<1>2. down \in Seq(Sent) /\ toPanel \in Seq(Sent) /\ answered \subseteq Clients
  BY DEF DownInv, DownTypeOK
<1>3. Given' = toPanel
  BY <1>1, <1>2, ConcatEmptySeq DEF Given
<1>4. DownTypeOK'
  <2>1. down' \in Seq(Sent)
    BY <1>1
  <2>2. owner' \in Clients /\ answered' \subseteq Clients /\ owner' \in answered'
    BY <1>1, <1>2
  <2>3. QED BY <1>1, <2>1, <2>2 DEF DownInv, DownTypeOK
<1>5. /\ Len(toPanel) \in Nat /\ Len(toPanel) <= Len(Given)
      /\ \A i \in 1 .. Len(toPanel) : i \in 1 .. Len(Given) /\ toPanel[i] = Given[i]
  <2>1. /\ Len(toPanel) \in Nat /\ Len(down) \in Nat
        /\ Len(Given) = Len(toPanel) + Len(down)
        /\ \A i \in 1 .. Len(toPanel) + Len(down) :
             Given[i] = IF i <= Len(toPanel) THEN toPanel[i] ELSE down[i - Len(toPanel)]
    BY <1>2, ConcatProperties, LenProperties DEF Given
  <2>2. QED BY <2>1, SMT
<1>6. ASSUME NEW i \in 1 .. Len(toPanel)
      PROVE  toPanel[i].conn \in answered /\ toPanel[i].conn < c /\ toPanel[i].conn <= c
  <2>1. toPanel[i].conn \in answered
    BY <1>5 DEF DownInv
  <2>2. \A d \in answered : d \in Nat /\ c \in Nat /\ d < c
    BY <1>1, <1>2
  <2>3. \A d \in answered : d <= c
    BY <2>2, SMT
  <2>4. QED BY <2>1, <2>2, <2>3
<1>7. c \notin answered /\ c \in Nat
  BY <1>1, SMT
<1>8. Unbroken(toPanel)
  <2> SUFFICES ASSUME NEW i \in 1 .. Len(toPanel)
               PROVE  \/ toPanel[i].n = 1 /\ (i > 1 => toPanel[i-1].conn < toPanel[i].conn)
                      \/ /\ i > 1 /\ toPanel[i-1].conn = toPanel[i].conn
                         /\ toPanel[i].n = toPanel[i-1].n + 1
    BY DEF Unbroken
  <2>1. i > 1 => i - 1 \in 1 .. Len(toPanel)
    BY <1>5, SMT
  <2>2. toPanel[i] = Given[i] /\ (i > 1 => toPanel[i-1] = Given[i-1])
    BY <1>5, <2>1
  <2>3. \/ Given[i].n = 1 /\ (i > 1 => Given[i-1].conn < Given[i].conn)
        \/ i > 1 /\ Given[i-1].conn = Given[i].conn /\ Given[i].n = Given[i-1].n + 1
    BY <1>5 DEF DownInv, Unbroken
  <2>4. QED BY <2>2, <2>3
<1>9. got[c] = 0
  BY <1>7 DEF DownInv
<1>10. \A i \in 1 .. Len(toPanel) : toPanel[i].conn # c
  BY <1>6, <1>7
<1>11. OwnersComplete(Given)'
  BY <1>1, <1>3, <1>9, <1>10 DEF OwnersComplete
<1>12. QED BY <1>1, <1>3, <1>4, <1>6, <1>8, <1>11 DEF DownInv, Unbroken

LEMMA NextDown ==
  ASSUME Clients \subseteq Nat \ {0}, MaxBatch \in Nat, DownInv, [LinkNext]_linkVars
  PROVE  DownInv'
<1>1. \A n \in 1..MaxBatch : n \in Nat
  BY SMT
<1>2. CASE \/ Return \/ Shut \/ \E c \in Clients : TurnAway(c)
           \/ UNCHANGED linkVars \/ \E n \in 1..MaxBatch : FromPanel(n) \/ ToClient(n)
  <2>1. /\ UNCHANGED <<got, down, toPanel>> /\ owner' \in {owner, NoOne}
        /\ answered \subseteq answered' /\ answered' \subseteq Clients
    BY <1>2 DEF Return, Shut, TurnAway, FromPanel, ToClient, linkVars, DownInv, DownTypeOK
  <2>2. DownTypeOK' /\ Given' = Given
    BY <2>1 DEF DownInv, DownTypeOK, Given
  <2>3. QED BY <2>1, <2>2, KeepsDown
<1>3. QED BY <1>1, <1>2, ToPanelDown, FromClientDown, LendDown DEF LinkNext

\* What the panel got and will get is, client after client, an unbroken prefix of what
\* that client gave, and everything the owner gave: for any clients, capacities and size
\* of step.
THEOREM LinkToPanel ==
  ASSUME Clients \subseteq Nat \ {0}, MaxBatch \in Nat
  PROVE  LinkSpec => []StreamToPanel
<1>1. DownInv /\ [LinkNext]_linkVars => DownInv'
  BY NextDown
<1>2. DownInv => StreamToPanel
  BY DEF DownInv, Unbroken, OwnersComplete, Given, StreamToPanel
<1>3. QED BY <1>1, <1>2, InitDown, PTL DEF LinkSpec
=============================================================================
