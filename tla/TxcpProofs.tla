----------------------------- MODULE TxcpProofs -----------------------------
(***************************************************************************)
(* For every base, name length, payload, ring and clock, a recording reads    *)
(* back what was put into it: the header as it was written, from any prefix   *)
(* of the file the events that are whole in it, and from the whole of it      *)
(* every payload up to where the ring was full, which is counted; with        *)
(* timestamps right in their low 32 bits and in order within a session        *)
(* shorter than a turn of micros().                                         *)
(***************************************************************************)
EXTENDS Txcp, Recursion, TLAPS, SequenceTheorems, FiniteSetTheorems

-----------------------------------------------------------------------------
(* Quotients and remainders *)

LEMMA QuotientRemainder ==
  ASSUME NEW a \in Int, NEW b \in Nat \ {0}
  PROVE  a \div b \in Int /\ a % b \in 0 .. b - 1 /\ a = b * (a \div b) + (a % b)
BY SMT

LEMMA TimesAtLeast == ASSUME NEW b \in Nat, NEW d \in Nat \ {0} PROVE b * d >= b
BY SMT

LEMMA NotApart ==
  ASSUME NEW b \in Nat \ {0}, NEW p \in Int, NEW q \in Int, NEW r \in 0 .. b - 1,
         NEW s \in 0 .. b - 1, b * p + r = b * q + s
  PROVE  ~(p < q)
<1> SUFFICES ASSUME p < q PROVE FALSE
  OBVIOUS
<1> DEFINE d == q - p
<1>1. d \in Nat \ {0} /\ q = p + d
  BY SMT
<1> HIDE DEF d
<1>2. b * q = b * p + b * d
  BY <1>1, SMT
<1>3. b * d >= b
  BY <1>1, TimesAtLeast
<1> DEFINE x == b * p
           y == b * d
<1>4. x \in Int /\ y \in Int /\ y >= b /\ x + r = x + y + s
  BY <1>1, <1>2, <1>3, SMT
<1> HIDE DEF x, y
<1>5. QED BY <1>4, SMT

\* There is one way to divide.
LEMMA DivisionIsUnique ==
  ASSUME NEW a \in Int, NEW b \in Nat \ {0}, NEW q \in Int, NEW r \in 0 .. b - 1,
         a = b * q + r
  PROVE  a \div b = q /\ a % b = r
<1> DEFINE p == a \div b
           s == a % b
<1>1. p \in Int /\ s \in 0 .. b - 1 /\ a = b * p + s
  BY QuotientRemainder
<1> HIDE DEF p, s
<1>2. ~(p < q) /\ ~(q < p)
  BY <1>1, NotApart
<1>3. p = q
  BY <1>1, <1>2, SMT
<1> DEFINE x == b * q
<1>4. x \in Int /\ x + r = x + s
  BY <1>1, <1>3, SMT
<1> HIDE DEF x
<1>5. r = s
  BY <1>1, <1>4, SMT
<1>6. QED BY <1>3, <1>5 DEF p, s

\* One more digit of a number.
LEMMA DigitStep ==
  ASSUME NEW v \in Nat, NEW p \in Nat \ {0}, NEW b \in Nat \ {0}
  PROVE  (v % p) + ((v \div p) % b) * p = v % (b * p)
<1> DEFINE q == v \div p
           r == v % p
           t == q \div b
           d == q % b
<1>1. q \in Int /\ r \in 0 .. p - 1 /\ v = p * q + r
  BY QuotientRemainder
<1>2. t \in Int /\ d \in 0 .. b - 1 /\ q = b * t + d
  BY <1>1, QuotientRemainder
<1> HIDE DEF q, r, t, d
<1>3. v = (b * p) * t + (r + d * p)
  <2>1. p * q = (b * p) * t + d * p
    BY <1>1, <1>2, SMT
  <2> DEFINE x == (b * p) * t
             y == d * p
  <2>2. x \in Int /\ y \in Int /\ v = (x + y) + r /\ r \in Int
    BY <1>1, <1>2, <2>1, SMT
  <2> HIDE DEF x, y
  <2>3. v = x + (r + y)
    BY <2>2, SMT
  <2>4. QED BY <2>3 DEF x, y
<1>4. r + d * p \in 0 .. (b * p) - 1 /\ b * p \in Nat \ {0}
  <2> DEFINE c == (b - 1) - d
             y == d * p
             z == c * p
  <2>1. c \in Nat /\ d \in Nat /\ (b - 1) = c + d
    BY <1>2, SMT
  <2>2. y \in Nat /\ z \in Nat /\ b * p = (z + y) + p
    BY <1>1, <2>1, SMT
  <2> HIDE DEF c, y, z
  <2>3. r + y \in 0 .. ((z + y) + p) - 1 /\ (z + y) + p \in Nat \ {0}
    BY <1>1, <2>2, SMT
  <2>4. QED BY <2>2, <2>3 DEF y
<1>5. v % (b * p) = r + d * p
  <2> DEFINE x == b * p
             y == r + d * p
  <2>1. x \in Nat \ {0} /\ y \in 0 .. x - 1 /\ v = x * t + y
    BY <1>3, <1>4
  <2> HIDE DEF x, y
  <2>2. v % x = y
    BY <1>2, <2>1, DivisionIsUnique
  <2>3. QED BY <2>2 DEF x, y
<1>6. QED BY <1>5 DEF q, r, d

-----------------------------------------------------------------------------
(* What w bytes hold *)

LEMMA BaseOK == Base \in Nat /\ Base > 1 /\ Base \in Nat \ {0}
BY TxcpAssumption, SMT

\* The capacities of up to w bytes.
Capacities(w) == CHOOSE g : g = [k \in 0..w |-> IF k = 0 THEN 1 ELSE Base * g[k-1]]

LEMMA CapacitiesOK ==
  ASSUME NEW w \in Nat
  PROVE  /\ Capacity(w) = Capacities(w)[w]
         /\ Capacities(w)[0] = 1
         /\ \A k \in 1..w : Capacities(w)[k] = Base * Capacities(w)[k-1]
<1> DEFINE S == Nat
           E == {0}
           z == 1
           es == [i \in 1..w |-> 0]
           step == [a \in S |-> [e \in E |-> Base * a]]
<1>1. /\ step \in [S -> [E -> S]] /\ z \in S
      /\ \A a \in S, e \in E : step[a][e] = Base * a
  BY BaseOK, SMT
<1>2. es \in Seq(E) /\ Len(es) = w /\ \A k \in 1..w : es[k] \in E
  <2>1. es \in Seq(E)
    BY IsASeq
  <2>2. DOMAIN es = 1..w
    OBVIOUS
  <2>3. Len(es) = w
    BY <2>1, <2>2, LenProperties, SameLength
  <2>4. QED BY <2>1, <2>3
<1> HIDE DEF step, E, es, z
<1>3. PICK f \in [0 .. Len(es) -> S] : IsRun(f, step, z, es)
  <2> HIDE DEF S
  <2>1. QED BY <1>1, <1>2, RunExists
<1>4. f = [k \in 0..w |-> IF k = 0 THEN 1 ELSE Base * f[k-1]]
  <2>1. ASSUME NEW k \in 0..w PROVE f[k] = IF k = 0 THEN 1 ELSE Base * f[k-1]
    <3>1. CASE k = 0
      BY <1>3, <3>1 DEF IsRun, z
    <3>2. CASE k # 0
      <4>1. k \in 1..w /\ k - 1 \in 0..w
        BY <3>2, SMT
      <4>2. f[k] = step[f[k-1]][es[k]] /\ f[k-1] \in S /\ es[k] \in E
        BY <1>2, <1>3, <4>1 DEF IsRun
      <4>3. QED BY <1>1, <3>2, <4>2
    <3>3. QED BY <3>1, <3>2
  <2>2. QED BY <1>2, <1>3, <2>1
<1> DEFINE g == Capacities(w)
<1>5. g = [k \in 0..w |-> IF k = 0 THEN 1 ELSE Base * g[k-1]]
  BY <1>4 DEF Capacities
<1>6. Capacity(w) = g[w]
  BY DEF Capacity, Capacities
<1> HIDE DEF g
<1>7. 0 \in 0..w /\ \A k \in 1..w : k \in 0..w /\ k # 0
  BY SMT
<1>8. g[0] = 1 /\ \A k \in 1..w : g[k] = Base * g[k-1]
  BY <1>5, <1>7
<1>9. QED BY <1>6, <1>8 DEF g

\* Each byte more multiplies what fits by the base.
LEMMA CapacityStep ==
  /\ Capacity(0) = 1
  /\ \A w \in Nat : Capacity(w + 1) = Base * Capacity(w) /\ Capacity(w) \in Nat \ {0}
<1>1. Capacity(0) = 1
  BY CapacitiesOK
<1>2. ASSUME NEW w \in Nat PROVE Capacity(w + 1) = Base * Capacity(w)
  <2> DEFINE f == Capacities(w)
             g == Capacities(w + 1)
             N == {k \in 0..w : g[k] = f[k]}
  <2>1. Capacity(w) = f[w] /\ f[0] = 1 /\ \A k \in 1..w : f[k] = Base * f[k-1]
    BY CapacitiesOK
  <2>2. /\ Capacity(w + 1) = g[w + 1] /\ g[0] = 1
        /\ \A k \in 1 .. w + 1 : g[k] = Base * g[k-1]
    <3> DEFINE x == w + 1
    <3>1. x \in Nat
      BY SMT
    <3> HIDE DEF x
    <3>2. /\ Capacity(x) = Capacities(x)[x] /\ Capacities(x)[0] = 1
          /\ \A k \in 1..x : Capacities(x)[k] = Base * Capacities(x)[k-1]
      BY <3>1, CapacitiesOK
    <3>3. QED BY <3>2 DEF x
  <2> HIDE DEF f, g
  <2>3. w + 1 \in 1 .. w + 1 /\ (w + 1) - 1 = w /\ 0 \in 0..w /\ w \in 0..w
    BY SMT
  <2>4. 0 \in N
    BY <2>1, <2>2, <2>3
  <2>5. ASSUME NEW k \in 1..w, k - 1 \in N PROVE k \in N
    <3>1. k \in 1 .. w + 1 /\ k \in 0..w
      BY SMT
    <3>2. g[k-1] = f[k-1]
      BY <2>5
    <3>3. QED BY <2>1, <2>2, <3>1, <3>2
  <2>6. \A k \in 0..w : k \in N
    <3> HIDE DEF N
    <3>1. QED BY <2>4, <2>5, InductionUpTo
  <2>7. g[w] = f[w]
    BY <2>3, <2>6
  <2>8. g[w + 1] = Base * g[w]
    BY <2>2, <2>3
  <2>9. QED BY <2>1, <2>2, <2>7, <2>8
<1>3. \A w \in Nat : Capacity(w) \in Nat \ {0}
  <2> DEFINE N == {w \in Nat : Capacity(w) \in Nat \ {0}}
  <2>1. 0 \in N
    BY <1>1
  <2>2. ASSUME NEW w \in Nat, w \in N PROVE w + 1 \in N
    <3> DEFINE c == Capacity(w)
    <3>1. c \in Nat \ {0} /\ Capacity(w + 1) = Base * c
      BY <1>2, <2>2
    <3> HIDE DEF c
    <3>2. Base * c \in Nat \ {0}
      BY <3>1, BaseOK, TimesAtLeast, SMT
    <3>3. QED BY <3>1, <3>2
  <2>3. Nat \subseteq N
    <3> HIDE DEF N
    <3>1. QED BY <2>1, <2>2, SetInduction
  <2>4. QED BY <2>3
<1>4. QED BY <1>1, <1>2, <1>3

LEMMA SmallRemainder == ASSUME NEW b \in Nat \ {0}, NEW a \in 0 .. b - 1 PROVE a % b = a
<1>1. a \in Int /\ 0 \in Int /\ a = b * 0 + a
  BY SMT
<1>2. QED BY <1>1, DivisionIsUnique

LEMMA FieldCapacities ==
  /\ Capacity(2) = Base * Base
  /\ \A w \in Nat : Capacity(w) \in Nat \ {0}
  /\ Capacity(8) = Capacity(4) * Capacity(4)
<1> DEFINE c(w) == Capacity(w)
<1>1. /\ c(0) = 1 /\ c(1) = Base * c(0) /\ c(2) = Base * c(1) /\ c(3) = Base * c(2)
      /\ c(4) = Base * c(3) /\ c(5) = Base * c(4) /\ c(6) = Base * c(5)
      /\ c(7) = Base * c(6) /\ c(8) = Base * c(7)
  <2>1. /\ 0 + 1 = 1 /\ 1 + 1 = 2 /\ 2 + 1 = 3 /\ 3 + 1 = 4 /\ 4 + 1 = 5 /\ 5 + 1 = 6
        /\ 6 + 1 = 7 /\ 7 + 1 = 8
    BY SMT
  <2> HIDE DEF c
  <2>2. c(0) = 1 /\ \A w \in Nat : c(w + 1) = Base * c(w)
    BY CapacityStep DEF c
  <2>3. QED BY <2>1, <2>2
<1>2. \A w \in Nat : c(w) \in Nat \ {0}
  BY CapacityStep
<1> DEFINE d == c(4)
<1>3. d \in Nat /\ c(8) = Base * (Base * (Base * (Base * d)))
  BY <1>1, <1>2
<1>4. c(2) = Base * Base /\ d = Base * (Base * (Base * Base))
  <2>1. Base * 1 = Base
    BY BaseOK, SMT
  <2>2. QED BY <1>1, <2>1
<1> HIDE DEF c, d
<1> DEFINE e == Base * Base
           f == Base * e
<1>5. e \in Nat /\ f \in Nat
  BY BaseOK, SMT
<1>6. /\ Base * (Base * d) = e * d
      /\ Base * (e * d) = f * d
      /\ Base * (f * d) = (Base * f) * d
  <2> HIDE DEF f
  <2>1. Base * (f * d) = (Base * f) * d
    BY <1>3, <1>5, BaseOK, SMT
  <2> USE DEF f
  <2> HIDE DEF e
  <2>2. Base * (e * d) = f * d
    BY <1>3, <1>5, BaseOK, SMT
  <2> HIDE DEF f
  <2> USE DEF e
  <2>3. Base * (Base * d) = e * d
    BY <1>3, BaseOK, SMT
  <2>4. QED BY <2>1, <2>2, <2>3
<1>7. c(8) = d * d
  <2>1. c(8) = (Base * f) * d
    BY <1>3, <1>6
  <2>2. QED BY <1>4, <2>1
<1>8. QED BY <1>2, <1>4, <1>7 DEF c, d

-----------------------------------------------------------------------------
(* Little-endian integers *)

LEMMA WriteLEOK ==
  ASSUME NEW v \in Nat, NEW w \in Nat
  PROVE  /\ WriteLE(v, w) \in Seq(Byte) /\ Len(WriteLE(v, w)) = w
         /\ \A i \in 1..w : WriteLE(v, w)[i] = (v \div Capacity(i - 1)) % Base
<1> DEFINE digit(i) == (v \div Capacity(i - 1)) % Base
           bytes == [i \in 1..w |-> digit(i)]
<1>1. ASSUME NEW i \in 1..w PROVE digit(i) \in Byte
  <2> DEFINE c == Capacity(i - 1)
             q == v \div c
  <2>1. i - 1 \in Nat
    BY SMT
  <2>2. c \in Nat \ {0}
    BY <2>1, CapacityStep
  <2> HIDE DEF c
  <2>3. v \in Int /\ q \in Int
    BY <2>2, QuotientRemainder, SMT
  <2> HIDE DEF q
  <2>4. q % Base \in 0 .. Base - 1
    BY <2>3, BaseOK, QuotientRemainder
  <2>5. QED BY <2>4 DEF q, c, Byte
<1> HIDE DEF digit
<1>2. bytes \in Seq(Byte)
  BY <1>1, IsASeq
<1>3. DOMAIN bytes = 1..w
  OBVIOUS
<1>4. Len(bytes) = w
  BY <1>2, <1>3, LenProperties, SameLength
<1>5. WriteLE(v, w) = bytes
  BY DEF WriteLE, digit
<1>6. \A i \in 1..w : bytes[i] = digit(i)
  OBVIOUS
<1> HIDE DEF bytes
<1>7. QED BY <1>2, <1>4, <1>5, <1>6 DEF digit

\* read_u*_le gives back what write_u*_le wrote, as far as the field holds it.
LEMMA ReadLEOfWriteLE ==
  ASSUME NEW v \in Nat, NEW w \in Nat, NEW bytes, NEW at,
         \A i \in 1..w : bytes[at + i] = WriteLE(v, w)[i]
  PROVE  ReadLE(bytes, at, w) = v % Capacity(w)
<1> DEFINE f == [k \in 0..w |-> v % Capacity(k)]
           g == CHOOSE g : g = [k \in 0..w |-> IF k = 0 THEN 0
                                               ELSE g[k-1] + bytes[at + k] * Capacity(k - 1)]
<1>1. v % Capacity(0) = 0
  <2>1. v \in Int /\ 1 \in Nat \ {0} /\ 0 \in 0 .. 1 - 1 /\ v = 1 * v + 0
    BY SMT
  <2>2. v % 1 = 0
    BY <2>1, DivisionIsUnique
  <2>3. QED BY <2>2, CapacityStep
<1>2. ASSUME NEW k \in 1..w
      PROVE  v % Capacity(k) = (v % Capacity(k - 1)) + bytes[at + k] * Capacity(k - 1)
  <2> DEFINE p == Capacity(k - 1)
  <2>1. k - 1 \in Nat /\ (k - 1) + 1 = k
    BY SMT
  <2>2. p \in Nat \ {0} /\ Capacity(k) = Base * p
    BY <2>1, CapacityStep
  <2>3. bytes[at + k] = (v \div p) % Base
    BY WriteLEOK
  <2> HIDE DEF p
  <2>4. (v % p) + ((v \div p) % Base) * p = v % (Base * p)
    BY <2>2, BaseOK, DigitStep
  <2>5. QED BY <2>2, <2>3, <2>4 DEF p
<1>3. f = [k \in 0..w |-> IF k = 0 THEN 0 ELSE f[k-1] + bytes[at + k] * Capacity(k - 1)]
  <2>1. ASSUME NEW k \in 0..w
        PROVE  f[k] = IF k = 0 THEN 0 ELSE f[k-1] + bytes[at + k] * Capacity(k - 1)
    <3>1. CASE k = 0
      BY <1>1, <3>1
    <3>2. CASE k # 0
      <4>1. k \in 1..w /\ k - 1 \in 0..w
        BY <3>2, SMT
      <4>2. f[k] = v % Capacity(k) /\ f[k-1] = v % Capacity(k - 1)
        BY <4>1
      <4>3. QED BY <1>2, <3>2, <4>1, <4>2
    <3>3. QED BY <3>1, <3>2
  <2>2. QED BY <2>1
<1>4. g = [k \in 0..w |-> IF k = 0 THEN 0 ELSE g[k-1] + bytes[at + k] * Capacity(k - 1)]
  <2> HIDE DEF f
  <2>1. QED BY <1>3
<1>5. ReadLE(bytes, at, w) = g[w]
  BY DEF ReadLE
<1>6. \A k \in 0..w : f[k] = v % Capacity(k)
  OBVIOUS
<1> HIDE DEF f, g
<1> DEFINE N == {k \in 0..w : g[k] = v % Capacity(k)}
<1>7. 0 \in N
  <2>1. 0 \in 0..w
    BY SMT
  <2>2. QED BY <1>1, <1>4, <2>1
<1>8. ASSUME NEW k \in 1..w, k - 1 \in N PROVE k \in N
  <2>1. k \in 0..w /\ k # 0
    BY SMT
  <2>2. g[k-1] = v % Capacity(k - 1)
    BY <1>8
  <2>3. g[k] = g[k-1] + bytes[at + k] * Capacity(k - 1)
    BY <1>4, <2>1
  <2>4. QED BY <1>2, <2>1, <2>2, <2>3
<1>9. \A k \in 0..w : k \in N
  <2> HIDE DEF N
  <2>1. QED BY <1>7, <1>8, InductionUpTo
<1>10. w \in 0..w
  BY SMT
<1>11. QED BY <1>5, <1>9, <1>10

-----------------------------------------------------------------------------
(* Byte sequences *)

LEMMA ConcatAt ==
  ASSUME NEW S, NEW s \in Seq(S), NEW t \in Seq(S)
  PROVE  /\ s \o t \in Seq(S) /\ Len(s \o t) = Len(s) + Len(t)
         /\ \A i \in 1 .. Len(s) : (s \o t)[i] = s[i]
         /\ \A i \in 1 .. Len(t) : (s \o t)[Len(s) + i] = t[i]
<1> DEFINE u == s \o t
           m == Len(s)
           n == Len(t)
<1>1. /\ u \in Seq(S) /\ Len(u) = m + n
      /\ \A i \in 1 .. m + n : u[i] = IF i <= m THEN s[i] ELSE t[i - m]
  BY ConcatProperties
<1>2. m \in Nat /\ n \in Nat
  BY LenProperties
<1> HIDE DEF u, m, n
<1>3. /\ \A i \in 1..m : i \in 1 .. m + n /\ i <= m
      /\ \A i \in 1..n : m + i \in 1 .. m + n /\ ~(m + i <= m) /\ (m + i) - m = i
  BY <1>2, SMT
<1>4. QED BY <1>1, <1>3 DEF u, m, n

\* t is found in s after the first at elements.
Has(s, at, t) == \A i \in 1 .. Len(t) : s[at + i] = t[i]

\* What a prefix has, the whole has; and t is found behind s.
LEMMA HasInConcat ==
  ASSUME NEW S, NEW s \in Seq(S), NEW t \in Seq(S)
  PROVE  /\ Has(s \o t, Len(s), t)
         /\ \A at \in Nat, r \in Seq(S) :
              at + Len(r) <= Len(s) /\ Has(s, at, r) => Has(s \o t, at, r)
<1>1. Has(s \o t, Len(s), t)
  BY ConcatAt DEF Has
<1>2. ASSUME NEW at \in Nat, NEW r \in Seq(S), at + Len(r) <= Len(s), Has(s, at, r)
      PROVE  Has(s \o t, at, r)
  <2>1. ASSUME NEW i \in 1 .. Len(r) PROVE (s \o t)[at + i] = r[i]
    <3>1. Len(r) \in Nat /\ Len(s) \in Nat
      BY LenProperties
    <3>2. at + i \in 1 .. Len(s)
      BY <1>2, <3>1, SMT
    <3>3. QED BY <1>2, <3>2, ConcatAt DEF Has
  <2>2. QED BY <2>1 DEF Has
<1>3. QED BY <1>1, <1>2

LEMMA Appended ==
  ASSUME NEW S, NEW s \in Seq(S), NEW t \in Seq(S)
  PROVE  s \o t \in Seq(S) /\ Len(s \o t) = Len(s) + Len(t) /\ Has(s \o t, Len(s), t)
BY ConcatAt DEF Has

-----------------------------------------------------------------------------
(* The header *)

Headers == [start : 0 .. Capacity(4) - 1, name : Seq(Byte), baud : 0 .. Capacity(4) - 1]

LEMMA PanelNameOK ==
  ASSUME NEW n \in Seq(Byte)
  PROVE  PanelName(n) \in Seq(Byte) /\ Len(PanelName(n)) = NameLen
<1> DEFINE e(i) == IF i <= Len(n) THEN n[i] ELSE 0
           s == [i \in 1..NameLen |-> e(i)]
<1>1. Len(n) \in Nat /\ NameLen \in Nat
  BY LenProperties, TxcpAssumption
<1>2. ASSUME NEW i \in 1..NameLen PROVE e(i) \in Byte
  <2>1. CASE i <= Len(n)
    <3>1. i \in 1 .. Len(n)
      BY <1>1, <2>1, SMT
    <3>2. QED BY <2>1, <3>1, ElementOfSeq
  <2>2. CASE ~(i <= Len(n))
    <3>1. 0 \in Byte
      BY BaseOK, SMT DEF Byte
    <3>2. QED BY <2>2, <3>1
  <2>3. QED BY <2>1, <2>2
<1> HIDE DEF e
<1>3. s \in Seq(Byte)
  BY <1>1, <1>2, IsASeq
<1>4. DOMAIN s = 1..NameLen
  OBVIOUS
<1>5. Len(s) = NameLen
  BY <1>1, <1>3, <1>4, LenProperties, SameLength
<1>6. PanelName(n) = s
  BY DEF PanelName, e
<1>7. QED BY <1>3, <1>5, <1>6

LEMMA VersionOK == Version \in Nat /\ Version \in 0 .. Capacity(2) - 1
<1>1. Capacity(2) = Base * Base
  BY FieldCapacities
<1>2. Base * Base >= Base
  BY BaseOK, TimesAtLeast
<1> DEFINE c == Base * Base
<1>3. c \in Nat /\ c >= Base
  BY <1>2, BaseOK, SMT
<1> HIDE DEF c
<1>4. Version \in 0 .. c - 1
  BY <1>3, BaseOK, TxcpAssumption, SMT
<1>5. QED BY <1>1, <1>4, SMT DEF c

\* The fields of a header, each at its place, in kCaptureHeaderSize bytes.
LEMMA HeaderLayout ==
  ASSUME NEW h \in Headers
  PROVE  LET b == SerializeHeader(h)
         IN  /\ b \in Seq(Byte) /\ Len(b) = kCaptureHeaderSize
             /\ Has(b, 0, Magic) /\ Has(b, 4, WriteLE(Version, 2))
             /\ Has(b, 6, WriteLE(h.start, 4)) /\ Has(b, 10, PanelName(h.name))
             /\ Has(b, 10 + NameLen, WriteLE(h.baud, 4))
<1> DEFINE m == Magic
           v == WriteLE(Version, 2)
           s == WriteLE(h.start, 4)
           n == PanelName(h.name)
           d == WriteLE(h.baud, 4)
           z == <<0, 0>>
           b2 == m \o v
           b3 == b2 \o s
           b4 == b3 \o n
           b5 == b4 \o d
           b == b5 \o z
           B == Byte
<1>1. /\ m \in Seq(B) /\ v \in Seq(B) /\ s \in Seq(B) /\ n \in Seq(B) /\ d \in Seq(B)
      /\ Len(m) = 4 /\ Len(v) = 2 /\ Len(s) = 4 /\ Len(n) = NameLen /\ Len(d) = 4
  <2>1. /\ h.start \in Nat /\ h.baud \in Nat /\ h.name \in Seq(Byte)
    <3>1. \A c \in Nat : 0 .. c - 1 \subseteq Nat
      BY SMT
    <3>2. Capacity(4) \in Nat
      BY FieldCapacities
    <3>3. QED BY <3>1, <3>2 DEF Headers
  <2>2. QED BY <2>1, VersionOK, WriteLEOK, PanelNameOK, TxcpAssumption
<1>2. z \in Seq(B) /\ Len(z) = 2
  <2>1. 0 \in B
    BY BaseOK, SMT DEF Byte
  <2>2. QED BY <2>1, SMT
<1>3. NameLen \in Nat
  BY TxcpAssumption
<1>4. b = SerializeHeader(h)
  BY DEF SerializeHeader
<1> HIDE DEF m, v, s, n, d, z, b2, b3, b4, b5, b, B
<1>5. b2 \in Seq(B) /\ Len(b2) = 6 /\ Has(b2, 0, m) /\ Has(b2, 4, v)
  <2>1. m \o v \in Seq(B) /\ Len(m \o v) = 4 + 2 /\ Has(m \o v, 4, v)
    <3>1. /\ m \o v \in Seq(B) /\ Len(m \o v) = Len(m) + Len(v)
          /\ Has(m \o v, Len(m), v)
      <4>1. m \in Seq(B) /\ v \in Seq(B)
        BY <1>1
      <4>2. QED BY ONLY <4>1, Appended
    <3>2. QED BY <1>1, <3>1
  <2>2. Has(m, 0, m)
    <3>1. \A i \in 1 .. 4 : 0 + i = i
      BY SMT
    <3>2. QED BY <1>1, <3>1 DEF Has
  <2>3. 0 \in Nat /\ 0 + Len(m) <= Len(m) /\ 4 + 2 = 6
    BY <1>1, SMT
  <2>4. Has(m \o v, 0, m)
    BY <1>1, <2>2, <2>3, HasInConcat
  <2>5. QED BY <2>1, <2>3, <2>4 DEF b2
<1>6. /\ b3 \in Seq(B) /\ Len(b3) = 10
      /\ Has(b3, 0, m) /\ Has(b3, 4, v) /\ Has(b3, 6, s)
  <2>1. b2 \o s \in Seq(B) /\ Len(b2 \o s) = 6 + 4 /\ Has(b2 \o s, 6, s)
    <3>1. /\ b2 \o s \in Seq(B) /\ Len(b2 \o s) = Len(b2) + Len(s)
          /\ Has(b2 \o s, Len(b2), s)
      <4>1. b2 \in Seq(B) /\ s \in Seq(B)
        BY <1>1, <1>5
      <4>2. QED BY ONLY <4>1, Appended
    <3>2. QED BY <1>1, <1>5, <3>1
  <2>2. 0 + Len(m) <= Len(b2) /\ 4 + Len(v) <= Len(b2) /\ 6 + 4 = 10 /\ 0 \in Nat /\ 4 \in Nat
    BY <1>1, <1>5, SMT
  <2>3. Has(b2 \o s, 0, m) /\ Has(b2 \o s, 4, v)
    BY <1>1, <1>5, <2>2, HasInConcat
  <2>4. QED BY <2>1, <2>2, <2>3 DEF b3
<1>7. /\ b4 \in Seq(B) /\ Len(b4) = 10 + NameLen
      /\ Has(b4, 0, m) /\ Has(b4, 4, v) /\ Has(b4, 6, s) /\ Has(b4, 10, n)
  <2>1. b3 \o n \in Seq(B) /\ Len(b3 \o n) = 10 + NameLen /\ Has(b3 \o n, 10, n)
    <3>1. /\ b3 \o n \in Seq(B) /\ Len(b3 \o n) = Len(b3) + Len(n)
          /\ Has(b3 \o n, Len(b3), n)
      <4>1. b3 \in Seq(B) /\ n \in Seq(B)
        BY <1>1, <1>6
      <4>2. QED BY ONLY <4>1, Appended
    <3>2. QED BY <1>1, <1>6, <3>1
  <2>2. /\ 0 + Len(m) <= Len(b3) /\ 4 + Len(v) <= Len(b3) /\ 6 + Len(s) <= Len(b3)
        /\ 0 \in Nat /\ 4 \in Nat /\ 6 \in Nat
    BY <1>1, <1>6, SMT
  <2>3. Has(b3 \o n, 0, m) /\ Has(b3 \o n, 4, v) /\ Has(b3 \o n, 6, s)
    BY <1>1, <1>6, <2>2, HasInConcat
  <2>4. QED BY <2>1, <2>3 DEF b4
<1>8. /\ b5 \in Seq(B) /\ Len(b5) = 14 + NameLen
      /\ Has(b5, 0, m) /\ Has(b5, 4, v) /\ Has(b5, 6, s) /\ Has(b5, 10, n)
      /\ Has(b5, 10 + NameLen, d)
  <2>1. b4 \o d \in Seq(B) /\ Len(b4 \o d) = (10 + NameLen) + 4 /\ Has(b4 \o d, 10 + NameLen, d)
    <3>1. /\ b4 \o d \in Seq(B) /\ Len(b4 \o d) = Len(b4) + Len(d)
          /\ Has(b4 \o d, Len(b4), d)
      <4>1. b4 \in Seq(B) /\ d \in Seq(B)
        BY <1>1, <1>7
      <4>2. QED BY ONLY <4>1, Appended
    <3>2. QED BY <1>1, <1>7, <3>1
  <2>2. /\ 0 + Len(m) <= Len(b4) /\ 4 + Len(v) <= Len(b4) /\ 6 + Len(s) <= Len(b4)
        /\ 10 + Len(n) <= Len(b4) /\ (10 + NameLen) + 4 = 14 + NameLen
        /\ 0 \in Nat /\ 4 \in Nat /\ 6 \in Nat /\ 10 \in Nat
    BY <1>1, <1>3, <1>7, SMT
  <2>3. Has(b4 \o d, 0, m) /\ Has(b4 \o d, 4, v) /\ Has(b4 \o d, 6, s) /\ Has(b4 \o d, 10, n)
    BY <1>1, <1>7, <2>2, HasInConcat
  <2>4. QED BY <2>1, <2>2, <2>3 DEF b5
<1>9. /\ b \in Seq(B) /\ Len(b) = 16 + NameLen
      /\ Has(b, 0, m) /\ Has(b, 4, v) /\ Has(b, 6, s) /\ Has(b, 10, n) /\ Has(b, 10 + NameLen, d)
  <2>1. b5 \o z \in Seq(B) /\ Len(b5 \o z) = (14 + NameLen) + 2
    <3>1. /\ b5 \o z \in Seq(B) /\ Len(b5 \o z) = Len(b5) + Len(z)
      <4>1. b5 \in Seq(B) /\ z \in Seq(B)
        BY <1>2, <1>8
      <4>2. QED BY ONLY <4>1, Appended
    <3>2. QED BY <1>2, <1>8, <3>1
  <2>2. /\ 0 + Len(m) <= Len(b5) /\ 4 + Len(v) <= Len(b5) /\ 6 + Len(s) <= Len(b5)
        /\ 10 + Len(n) <= Len(b5) /\ (10 + NameLen) + Len(d) <= Len(b5)
        /\ (14 + NameLen) + 2 = 16 + NameLen /\ 10 + NameLen \in Nat
        /\ 0 \in Nat /\ 4 \in Nat /\ 6 \in Nat /\ 10 \in Nat
    BY <1>1, <1>3, <1>8, SMT
  <2>3. /\ Has(b5 \o z, 0, m) /\ Has(b5 \o z, 4, v) /\ Has(b5 \o z, 6, s)
        /\ Has(b5 \o z, 10, n) /\ Has(b5 \o z, 10 + NameLen, d)
    BY <1>1, <1>2, <1>8, <2>2, HasInConcat
  <2>4. QED BY <2>1, <2>2, <2>3 DEF b
<1>10. QED BY <1>4, <1>9 DEF B, m, v, s, n, d, kCaptureHeaderSize

LEMMA HasWithin ==
  ASSUME NEW S, NEW t \in Seq(S), NEW u \in Seq(S), NEW s, NEW at \in Nat, NEW off \in Nat,
         Has(s, at, t), Has(t, off, u), off + Len(u) <= Len(t)
  PROVE  Has(s, at + off, u)
<1> SUFFICES ASSUME NEW i \in 1 .. Len(u) PROVE s[(at + off) + i] = u[i]
  BY DEF Has
<1>1. Len(u) \in Nat /\ Len(t) \in Nat
  BY LenProperties
<1>2. off + i \in 1 .. Len(t) /\ at + (off + i) = (at + off) + i
  BY <1>1, SMT
<1>3. s[at + (off + i)] = t[off + i] /\ t[off + i] = u[i]
  BY <1>2 DEF Has
<1>4. QED BY <1>2, <1>3

LEMMA SubSeqIs ==
  ASSUME NEW S, NEW s \in Seq(S), NEW t \in Seq(S), NEW at \in Nat,
         at + Len(t) <= Len(s), Has(s, at, t)
  PROVE  SubSeq(s, at + 1, at + Len(t)) = t
<1> DEFINE n == Len(t)
           a == at + 1
           b == at + n
           r == SubSeq(s, a, b)
<1>1. Len(s) \in Nat /\ n \in Nat /\ b <= Len(s)
  BY LenProperties
<1>2. /\ \A i \in 1..n : s[at + i] = t[i]
  BY DEF Has
<1> HIDE DEF n
<1>3. /\ a \in Int /\ b \in Int /\ (b - a) + 1 = n /\ (IF a <= b THEN (b - a) + 1 ELSE 0) = n
      /\ \A i \in a..b : i \in 1 .. Len(s)
      /\ \A i \in 1..n : (a + i) - 1 = at + i
  BY <1>1, SMT
<1> HIDE DEF a, b
<1>4. \A i \in a..b : s[i] \in S
  BY <1>3, ElementOfSeq
<1>5. /\ r \in Seq(S) /\ Len(r) = n
      /\ \A i \in 1..n : r[i] = s[(a + i) - 1]
  BY <1>3, <1>4, SubSeqProperties
<1> HIDE DEF r
<1>6. \A i \in 1 .. Len(r) : r[i] = t[i]
  BY <1>2, <1>3, <1>5
<1>7. r = t
  BY <1>5, <1>6, SeqEqual DEF n
<1>8. QED BY <1>7 DEF r, a, b, n

\* What is left of s after the first at elements.
LEMMA RestOK ==
  ASSUME NEW S, NEW s \in Seq(S), NEW at \in 0 .. Len(s)
  PROVE  LET r == SubSeq(s, at + 1, Len(s))
         IN  /\ r \in Seq(S) /\ Len(r) = Len(s) - at
             /\ \A i \in 1 .. Len(s) - at : r[i] = s[at + i]
<1> DEFINE b == Len(s)
           a == at + 1
           n == b - at
           r == SubSeq(s, a, b)
<1>1. b \in Nat /\ at \in Nat /\ at <= b
  <2>1. b \in Nat
    BY LenProperties
  <2>2. QED BY <2>1, SMT
<1> HIDE DEF b
<1>2. /\ a \in Int /\ b \in Int /\ (b - a) + 1 = n /\ (IF a <= b THEN (b - a) + 1 ELSE 0) = n
      /\ \A i \in a..b : i \in 1..b
      /\ \A i \in 1..n : (a + i) - 1 = at + i
  BY <1>1, SMT
<1> HIDE DEF a, n
<1>3. \A i \in a..b : s[i] \in S
  BY <1>2, ElementOfSeq DEF b
<1>4. /\ r \in Seq(S) /\ Len(r) = n
      /\ \A i \in 1..n : r[i] = s[(a + i) - 1]
  BY <1>2, <1>3, SubSeqProperties
<1>5. QED BY <1>2, <1>4 DEF a, b, n

LEMMA FieldReads ==
  ASSUME NEW v \in Nat, NEW w \in Nat, NEW in, NEW at, v < Capacity(w),
         Has(in, at, WriteLE(v, w))
  PROVE  ReadLE(in, at, w) = v
<1>1. ReadLE(in, at, w) = v % Capacity(w)
  BY WriteLEOK, ReadLEOfWriteLE DEF Has
<1> DEFINE c == Capacity(w)
<1>2. c \in Nat \ {0} /\ v < c
  BY FieldCapacities
<1> HIDE DEF c
<1>3. v \in 0 .. c - 1
  BY <1>2, SMT
<1>4. QED BY <1>1, <1>2, <1>3, SmallRemainder DEF c

\* A file that begins with a header is read as that header.
LEMMA HeaderParses ==
  ASSUME NEW h \in Headers, NEW in \in Seq(Byte), Len(in) >= kCaptureHeaderSize,
         Has(in, 0, SerializeHeader(h))
  PROVE  ParseHeader(in) = [ok |-> TRUE, start |-> h.start, name |-> PanelName(h.name),
                            baud |-> h.baud]
<1> DEFINE b == SerializeHeader(h)
           v == WriteLE(Version, 2)
           s == WriteLE(h.start, 4)
           n == PanelName(h.name)
           d == WriteLE(h.baud, 4)
<1>1. /\ b \in Seq(Byte) /\ Len(b) = 16 + NameLen
      /\ Has(b, 0, Magic) /\ Has(b, 4, v) /\ Has(b, 6, s) /\ Has(b, 10, n)
      /\ Has(b, 10 + NameLen, d)
  BY HeaderLayout DEF kCaptureHeaderSize
<1>2. /\ h.start \in Nat /\ h.start < Capacity(4) /\ h.baud \in Nat /\ h.baud < Capacity(4)
      /\ h.name \in Seq(Byte) /\ Version < Capacity(2) /\ Version \in Nat
  <2>1. \A c \in Nat : \A x \in 0 .. c - 1 : x \in Nat /\ x < c
    BY SMT
  <2>2. Capacity(4) \in Nat /\ Capacity(2) \in Nat
    BY FieldCapacities
  <2>3. QED BY <2>1, <2>2, VersionOK DEF Headers
<1>3. /\ v \in Seq(Byte) /\ s \in Seq(Byte) /\ n \in Seq(Byte) /\ d \in Seq(Byte)
      /\ Magic \in Seq(Byte) /\ Len(Magic) = 4
      /\ Len(v) = 2 /\ Len(s) = 4 /\ Len(n) = NameLen /\ Len(d) = 4
  BY <1>2, WriteLEOK, PanelNameOK, TxcpAssumption
<1>4. NameLen \in Nat /\ Len(in) \in Nat /\ Len(in) >= 16 + NameLen
  BY LenProperties, TxcpAssumption DEF kCaptureHeaderSize
<1>5. Has(in, 0, b)
  OBVIOUS
<1> HIDE DEF b, v, s, n, d
<1>6. /\ 0 + Len(Magic) <= Len(b) /\ 4 + Len(v) <= Len(b) /\ 6 + Len(s) <= Len(b)
      /\ 10 + Len(n) <= Len(b) /\ (10 + NameLen) + Len(d) <= Len(b)
      /\ 0 + 0 = 0 /\ 0 + 4 = 4 /\ 0 + 6 = 6 /\ 0 + 10 = 10
      /\ 0 + (10 + NameLen) = 10 + NameLen /\ 10 + NameLen \in Nat
      /\ 0 + 1 = 1 /\ 0 + 4 <= Len(in) /\ 10 + 1 = 11 /\ 10 + NameLen <= Len(in)
      /\ 0 \in Nat /\ 4 \in Nat /\ 6 \in Nat /\ 10 \in Nat
  BY <1>1, <1>3, <1>4, SMT
<1>7. /\ Has(in, 0, Magic) /\ Has(in, 4, v) /\ Has(in, 6, s) /\ Has(in, 10, n)
      /\ Has(in, 10 + NameLen, d)
  <2>1. /\ Has(in, 0 + 0, Magic) /\ Has(in, 0 + 4, v) /\ Has(in, 0 + 6, s)
        /\ Has(in, 0 + 10, n) /\ Has(in, 0 + (10 + NameLen), d)
    BY <1>1, <1>3, <1>5, <1>6, HasWithin
  <2>2. QED BY <1>6, <2>1
<1>8. SubSeq(in, 1, 4) = Magic /\ SubSeq(in, 11, 10 + NameLen) = n
  <2>1. SubSeq(in, 0 + 1, 0 + Len(Magic)) = Magic
    BY <1>3, <1>6, <1>7, SubSeqIs
  <2>2. SubSeq(in, 10 + 1, 10 + Len(n)) = n
    BY <1>3, <1>6, <1>7, SubSeqIs
  <2>3. QED BY <1>3, <1>6, <2>1, <2>2
<1>9. ReadLE(in, 4, 2) = Version /\ ReadLE(in, 6, 4) = h.start /\ ReadLE(in, 10 + NameLen, 4) = h.baud
  BY <1>2, <1>7, FieldReads DEF v, s, d
<1>10. QED BY <1>8, <1>9 DEF ParseHeader, n

-----------------------------------------------------------------------------
(* Events *)

StampedEvents == [dir : 0..1, ts : 0 .. Capacity(8) - 1,
                  data : {d \in Seq(Byte) : Len(d) <= MaxEventPayload}]

RecordOf(e) == SerializeEvent(e.dir, e.ts, e.data)
Read(e) == [dir |-> e.dir, ts |-> e.ts, data |-> e.data]
SizeOf(e) == kCaptureEventFixedSize + Len(e.data)

LEMMA EventFields ==
  ASSUME NEW e \in StampedEvents
  PROVE  /\ e.dir \in Nat /\ e.dir <= 1 /\ e.dir \in Byte
         /\ e.ts \in Nat /\ e.ts < Capacity(8)
         /\ e.data \in Seq(Byte) /\ Len(e.data) \in Nat /\ Len(e.data) <= MaxEventPayload
         /\ Len(e.data) < Base * Base /\ Len(e.data) < Capacity(2)
         /\ SizeOf(e) \in Nat /\ SizeOf(e) >= 11
<1>1. e.dir \in 0..1 /\ e.ts \in 0 .. Capacity(8) - 1 /\ e.data \in Seq(Byte)
      /\ Len(e.data) <= MaxEventPayload
  BY DEF StampedEvents
<1>2. Capacity(8) \in Nat /\ Capacity(2) = Base * Base
  BY FieldCapacities
<1>3. Len(e.data) \in Nat
  BY <1>1, LenProperties
<1> DEFINE c == Base * Base
           n == Len(e.data)
           f == Capacity(8)
<1>4. MaxEventPayload \in 1 .. c - 1 /\ c \in Nat /\ Base \in Nat /\ Base > 1 /\ f \in Nat
  BY <1>2, BaseOK, TxcpAssumption, SMT
<1>5. n \in Nat /\ n <= MaxEventPayload /\ e.ts \in 0 .. f - 1 /\ Capacity(2) = c
  BY <1>1, <1>2, <1>3
<1> HIDE DEF c, n, f
<1>6. n < c /\ 11 + n \in Nat /\ 11 + n >= 11 /\ e.ts \in Nat /\ e.ts < f
  BY <1>4, <1>5, SMT
<1>7. e.dir \in Nat /\ e.dir <= 1 /\ e.dir \in 0 .. Base - 1
  BY <1>1, <1>4, SMT
<1>8. QED BY <1>1, <1>5, <1>6, <1>7 DEF c, n, f, SizeOf, kCaptureEventFixedSize, Byte

\* The fields of an event's record, each at its place.
LEMMA RecordLayout ==
  ASSUME NEW e \in StampedEvents
  PROVE  LET r == RecordOf(e)
         IN  /\ r \in Seq(Byte) /\ Len(r) = SizeOf(e)
             /\ Has(r, 0, <<e.dir>>) /\ Has(r, 1, WriteLE(e.ts, 8))
             /\ Has(r, 9, WriteLE(Len(e.data), 2)) /\ Has(r, 11, e.data)
<1> DEFINE a == <<e.dir>>
           t == WriteLE(e.ts, 8)
           n == WriteLE(Len(e.data), 2)
           d == e.data
           r2 == a \o t
           r3 == r2 \o n
           r == r3 \o d
           B == Byte
<1>1. /\ e.dir \in Nat /\ e.dir <= 1 /\ e.dir \in B /\ e.ts \in Nat
      /\ d \in Seq(B) /\ Len(d) \in Nat /\ Len(d) < Base * Base
  BY EventFields
<1>2. RecordOf(e) = r
  <2>1. ~(e.dir > 1)
    BY <1>1, SMT
  <2>2. ~(Len(d) >= Base * Base)
    <3> DEFINE c == Base * Base
               l == Len(d)
    <3>1. c \in Int /\ l \in Int /\ l < c
      BY <1>1, BaseOK, SMT
    <3> HIDE DEF c, l
    <3>2. ~(l >= c)
      BY <3>1, SMT
    <3>3. QED BY <3>2 DEF c, l
  <2>3. QED BY <2>1, <2>2 DEF RecordOf, SerializeEvent
<1>3. /\ a \in Seq(B) /\ t \in Seq(B) /\ n \in Seq(B)
      /\ Len(a) = 1 /\ Len(t) = 8 /\ Len(n) = 2
  <2>1. t \in Seq(B) /\ n \in Seq(B) /\ Len(t) = 8 /\ Len(n) = 2
    BY <1>1, WriteLEOK
  <2>2. a \in Seq(B) /\ Len(a) = 1
    BY <1>1, SMT
  <2>3. QED BY <2>1, <2>2
<1> HIDE DEF a, t, n, d, r2, r3, r, B
<1>4. r2 \in Seq(B) /\ Len(r2) = 9 /\ Has(r2, 0, a) /\ Has(r2, 1, t)
  <2>1. r2 \in Seq(B) /\ Len(r2) = Len(a) + Len(t) /\ Has(r2, Len(a), t)
    <3>1. a \in Seq(B) /\ t \in Seq(B)
      BY <1>3
    <3>2. /\ a \o t \in Seq(B) /\ Len(a \o t) = Len(a) + Len(t)
          /\ Has(a \o t, Len(a), t)
      BY ONLY <3>1, Appended
    <3>3. QED BY <3>2 DEF r2
  <2>2. Has(a, 0, a)
    <3>1. \A i \in 1..1 : 0 + i = i
      BY SMT
    <3>2. QED BY <1>3, <3>1 DEF Has
  <2>3. 0 \in Nat /\ 0 + Len(a) <= Len(a) /\ Len(a) + Len(t) = 9
    BY <1>3, SMT
  <2>4. Has(r2, 0, a)
    BY <1>3, <2>2, <2>3, HasInConcat DEF r2
  <2>5. QED BY <1>3, <2>1, <2>3, <2>4
<1>5. /\ r3 \in Seq(B) /\ Len(r3) = 11
      /\ Has(r3, 0, a) /\ Has(r3, 1, t) /\ Has(r3, 9, n)
  <2>1. r3 \in Seq(B) /\ Len(r3) = Len(r2) + Len(n) /\ Has(r3, Len(r2), n)
    <3>1. r2 \in Seq(B) /\ n \in Seq(B)
      BY <1>3, <1>4
    <3>2. /\ r2 \o n \in Seq(B) /\ Len(r2 \o n) = Len(r2) + Len(n)
          /\ Has(r2 \o n, Len(r2), n)
      BY ONLY <3>1, Appended
    <3>3. QED BY <3>2 DEF r3
  <2>2. /\ 0 + Len(a) <= Len(r2) /\ 1 + Len(t) <= Len(r2) /\ Len(r2) + Len(n) = 11
        /\ 0 \in Nat /\ 1 \in Nat
    BY <1>3, <1>4, SMT
  <2>3. Has(r3, 0, a) /\ Has(r3, 1, t)
    BY <1>3, <1>4, <2>2, HasInConcat DEF r3
  <2>4. QED BY <1>4, <2>1, <2>2, <2>3
<1>6. /\ r \in Seq(B) /\ Len(r) = 11 + Len(d)
      /\ Has(r, 0, a) /\ Has(r, 1, t) /\ Has(r, 9, n) /\ Has(r, 11, d)
  <2>1. r \in Seq(B) /\ Len(r) = Len(r3) + Len(d) /\ Has(r, Len(r3), d)
    <3>1. r3 \in Seq(B) /\ d \in Seq(B)
      BY <1>1, <1>5
    <3>2. /\ r3 \o d \in Seq(B) /\ Len(r3 \o d) = Len(r3) + Len(d)
          /\ Has(r3 \o d, Len(r3), d)
      BY ONLY <3>1, Appended
    <3>3. QED BY <3>2 DEF r
  <2>2. /\ 0 + Len(a) <= Len(r3) /\ 1 + Len(t) <= Len(r3) /\ 9 + Len(n) <= Len(r3)
        /\ 0 \in Nat /\ 1 \in Nat /\ 9 \in Nat
    BY <1>3, <1>5, SMT
  <2>3. Has(r, 0, a) /\ Has(r, 1, t) /\ Has(r, 9, n)
    BY <1>1, <1>3, <1>5, <2>2, HasInConcat DEF r
  <2>4. QED BY <1>5, <2>1, <2>3
<1>7. QED BY <1>2, <1>6 DEF a, t, n, d, B, SizeOf, kCaptureEventFixedSize

\* A whole record is parsed as the event it was made from, whatever follows it.
LEMMA WholeRecordParses ==
  ASSUME NEW e \in StampedEvents, NEW in \in Seq(Byte), Len(in) >= SizeOf(e),
         Has(in, 0, RecordOf(e))
  PROVE  ParseEvent(in) = [used |-> SizeOf(e), dir |-> e.dir, ts |-> e.ts, data |-> e.data]
<1> DEFINE r == RecordOf(e)
           a == <<e.dir>>
           t == WriteLE(e.ts, 8)
           n == WriteLE(Len(e.data), 2)
           d == e.data
<1>1. /\ e.dir \in Nat /\ e.dir <= 1 /\ e.dir \in Byte /\ e.ts \in Nat /\ e.ts < Capacity(8)
      /\ d \in Seq(Byte) /\ Len(d) \in Nat /\ Len(d) < Capacity(2)
  BY EventFields
<1>2. /\ r \in Seq(Byte) /\ Len(r) = 11 + Len(d)
      /\ Has(r, 0, a) /\ Has(r, 1, t) /\ Has(r, 9, n) /\ Has(r, 11, d)
  BY RecordLayout DEF SizeOf, kCaptureEventFixedSize
<1>3. /\ a \in Seq(Byte) /\ t \in Seq(Byte) /\ n \in Seq(Byte)
      /\ Len(a) = 1 /\ a[1] = e.dir /\ Len(t) = 8 /\ Len(n) = 2
  <2>1. t \in Seq(Byte) /\ n \in Seq(Byte) /\ Len(t) = 8 /\ Len(n) = 2
    BY <1>1, WriteLEOK
  <2>2. a \in Seq(Byte) /\ Len(a) = 1 /\ a[1] = e.dir
    BY <1>1, SMT
  <2>3. QED BY <2>1, <2>2
<1>4. Len(in) \in Nat /\ Len(in) >= 11 + Len(d) /\ Has(in, 0, r)
  BY LenProperties DEF SizeOf, kCaptureEventFixedSize
<1> HIDE DEF r, a, t, n, d
<1>5. /\ 0 + Len(a) <= Len(r) /\ 1 + Len(t) <= Len(r) /\ 9 + Len(n) <= Len(r)
      /\ 11 + Len(d) <= Len(r)
      /\ 0 + 0 = 0 /\ 0 + 1 = 1 /\ 0 + 9 = 9 /\ 0 + 11 = 11
      /\ 0 \in Nat /\ 1 \in Nat /\ 9 \in Nat /\ 11 \in Nat
      /\ ~(Len(in) < 11) /\ ~(Len(in) < 11 + Len(d)) /\ ~(e.dir > 1)
      /\ 1 \in 1..1 /\ 11 + Len(d) <= Len(in)
  BY <1>1, <1>2, <1>3, <1>4, SMT
<1>6. Has(in, 0, a) /\ Has(in, 1, t) /\ Has(in, 9, n) /\ Has(in, 11, d)
  <2>1. Has(in, 0 + 0, a) /\ Has(in, 0 + 1, t) /\ Has(in, 0 + 9, n) /\ Has(in, 0 + 11, d)
    BY <1>1, <1>2, <1>3, <1>4, <1>5, HasWithin
  <2>2. QED BY <1>5, <2>1
<1>7. in[1] = e.dir
  <2>1. in[0 + 1] = a[1]
    BY <1>3, <1>5, <1>6 DEF Has
  <2>2. QED BY <1>3, <1>5, <2>1
<1>8. ReadLE(in, 1, 8) = e.ts /\ ReadLE(in, 9, 2) = Len(d)
  BY <1>1, <1>6, FieldReads DEF t, n, d
<1>9. SubSeq(in, 11 + 1, 11 + Len(d)) = d
  BY <1>1, <1>5, <1>6, SubSeqIs
<1>10. QED BY <1>5, <1>7, <1>8, <1>9 DEF ParseEvent, kCaptureEventFixedSize, SizeOf, d

\* A record that is cut off anywhere uses no byte.
LEMMA CutRecordFails ==
  ASSUME NEW e \in StampedEvents, NEW in \in Seq(Byte), Len(in) < SizeOf(e),
         \A i \in 1 .. Len(in) : in[i] = RecordOf(e)[i]
  PROVE  ParseEvent(in) = [used |-> 0]
<1> DEFINE r == RecordOf(e)
           n == WriteLE(Len(e.data), 2)
           l == Len(e.data)
<1>1. l \in Nat /\ l < Capacity(2) /\ Len(in) \in Nat /\ Len(in) < 11 + l
  BY EventFields, LenProperties DEF SizeOf, kCaptureEventFixedSize
<1>2. Has(r, 9, n)
  BY RecordLayout
<1>3. Len(n) = 2
  BY <1>1, WriteLEOK
<1>4. \A i \in 1 .. Len(in) : in[i] = r[i]
  OBVIOUS
<1> HIDE DEF r, l
<1>5. CASE Len(in) < 11
  BY <1>5 DEF ParseEvent, kCaptureEventFixedSize
<1>6. CASE ~(Len(in) < 11)
  <2>1. \A i \in 1..2 : 9 + i \in 1 .. Len(in)
    BY <1>1, <1>6, SMT
  <2> HIDE DEF n
  <2>2. Has(in, 9, n)
    BY <1>2, <1>3, <1>4, <2>1 DEF Has
  <2>3. ReadLE(in, 9, 2) = l
    BY <1>1, <2>2, FieldReads DEF n, l
  <2>4. QED BY <1>1, <1>6, <2>3 DEF ParseEvent, kCaptureEventFixedSize
<1>7. QED BY <1>5, <1>6

-----------------------------------------------------------------------------
(* One after the other *)

\* f holds what the beginnings of s come to, one after the other.
Joins(f, s) == f[0] = <<>> /\ \A k \in 1 .. Len(s) : f[k] = f[k-1] \o s[k]

LEMMA FlattenIsJoin ==
  ASSUME NEW S, NEW s \in Seq(Seq(S))
  PROVE  \E f \in [0 .. Len(s) -> Seq(S)] : Joins(f, s) /\ FlattenSeq(s) = f[Len(s)]
<1> DEFINE T == Seq(S)
           z == <<>>
           step == [a \in T |-> [b \in T |-> a \o b]]
           n == Len(s)
<1>1. /\ step \in [T -> [T -> T]] /\ z \in T /\ s \in Seq(T)
      /\ \A a \in T, b \in T : step[a][b] = a \o b
  <2>1. \A a \in T, b \in T : a \o b \in T
    BY ConcatProperties
  <2>2. z \in T
    BY EmptySeq
  <2> HIDE DEF T
  <2>3. QED BY <2>1, <2>2 DEF T
<1>2. \A a \in T : z \o a = a
  BY ConcatEmptySeq
<1> HIDE DEF step, T, z
<1>3. PICK f \in [0..n -> T] : IsRun(f, step, z, s)
  BY <1>1, RunExists
<1>4. n \in Nat /\ \A k \in 1..n : s[k] \in T
  BY <1>1, LenProperties, ElementOfSeq
<1>5. f[0] = z /\ \A k \in 1..n : f[k] = f[k-1] \o s[k]
  <2>1. f[0] = z
    BY <1>3 DEF IsRun
  <2>2. ASSUME NEW k \in 1..n PROVE f[k] = f[k-1] \o s[k]
    <3>1. k - 1 \in 0..n
      BY <1>4, SMT
    <3>2. f[k-1] \in T /\ s[k] \in T
      BY <1>3, <1>4, <3>1
    <3>3. f[k] = step[f[k-1]][s[k]]
      BY <1>3 DEF IsRun
    <3>4. QED BY <1>1, <3>2, <3>3
  <2>3. QED BY <2>1, <2>2
<1> DEFINE g == CHOOSE g : g = [i \in 1..n |-> IF i = 1 THEN s[i] ELSE g[i-1] \o s[i]]
           h == [i \in 1..n |-> f[i]]
<1>6. h = [i \in 1..n |-> IF i = 1 THEN s[i] ELSE h[i-1] \o s[i]]
  <2>1. ASSUME NEW i \in 1..n PROVE f[i] = IF i = 1 THEN s[i] ELSE h[i-1] \o s[i]
    <3>1. CASE i = 1
      <4>1. 1 - 1 = 0 /\ s[1] \in T
        BY <1>4, <3>1, SMT
      <4>2. f[1] = z \o s[1]
        BY <1>5, <3>1, <4>1
      <4>3. QED BY <1>2, <3>1, <4>1, <4>2
    <3>2. CASE i # 1
      <4>1. i - 1 \in 1..n
        BY <1>4, <3>2, SMT
      <4>2. h[i-1] = f[i-1]
        BY <4>1
      <4>3. QED BY <1>5, <3>2, <4>2
    <3>3. QED BY <3>1, <3>2
  <2>2. QED BY <2>1
<1>7. g = [i \in 1..n |-> IF i = 1 THEN s[i] ELSE g[i-1] \o s[i]]
  <2> HIDE DEF h
  <2>1. QED BY <1>6
<1>8. FlattenSeq(s) = IF n = 0 THEN s ELSE g[n]
  BY DEF FlattenSeq
<1> HIDE DEF g, h
<1> DEFINE N == {k \in 0..n : k # 0 => g[k] = f[k]}
<1>9. \A k \in 0..n : k \in N
  <2>1. 0 \in N
    BY <1>4, SMT
  <2>2. ASSUME NEW k \in 1..n, k - 1 \in N PROVE k \in N
    <3>1. CASE k = 1
      <4>1. f[1] = z \o s[1] /\ s[1] \in T
        <5>1. 1 - 1 = 0 /\ 1 \in 1..n
          BY <3>1, SMT
        <5>2. QED BY <1>4, <1>5, <5>1
      <4>2. g[1] = s[1] /\ 1 \in 0..n
        BY <1>4, <1>7, <3>1, SMT
      <4>3. QED BY <1>2, <3>1, <4>1, <4>2
    <3>2. CASE k # 1
      <4>1. k - 1 # 0 /\ k \in 0..n
        BY <1>4, <3>2, SMT
      <4>2. g[k-1] = f[k-1]
        BY <2>2, <4>1
      <4>3. g[k] = g[k-1] \o s[k]
        BY <1>7, <3>2
      <4>4. QED BY <1>5, <4>1, <4>2, <4>3
    <3>3. QED BY <3>1, <3>2
  <2>3. QED
    <3> HIDE DEF N
    <3>1. QED BY <1>4, <2>1, <2>2, InductionUpTo
<1>10. FlattenSeq(s) = f[n]
  <2>1. CASE n = 0
    <3>1. s = <<>>
      BY <1>1, <2>1, EmptySeq
    <3>2. QED BY <1>5, <1>8, <2>1, <3>1 DEF z
  <2>2. CASE n # 0
    <3>1. n \in 0..n
      BY <1>4, SMT
    <3>2. QED BY <1>8, <1>9, <2>2, <3>1
  <2>3. QED BY <2>1, <2>2
<1>11. QED BY <1>3, <1>5, <1>10 DEF T, z, Joins

(* Concatenation is associative on T. Kept folded in the lemma below, whose  *)
(* sequences of sequences slow the provers down when it is expanded.         *)
Associative(T) == \A a, b, c \in T : (a \o b) \o c = a \o (b \o c)

LEMMA SequencesAssociate ==
  ASSUME NEW S
  PROVE  Associative(Seq(S))
<1> SUFFICES ASSUME NEW a \in Seq(S), NEW b \in Seq(S), NEW c \in Seq(S)
             PROVE  (a \o b) \o c = a \o (b \o c)
  BY DEF Associative
<1>1. a \in Seq(S) /\ b \in Seq(S) /\ c \in Seq(S)
  OBVIOUS
<1>2. QED BY ONLY <1>1, ConcatAssociative

LEMMA FlattenOfConcat ==
  ASSUME NEW S, NEW r \in Seq(Seq(S)), NEW s \in Seq(Seq(S))
  PROVE  /\ FlattenSeq(r \o s) = FlattenSeq(r) \o FlattenSeq(s)
         /\ FlattenSeq(r) \in Seq(S)
<1> DEFINE T == Seq(S)
           t == r \o s
           n == Len(r)
           m == Len(s)
<1>0. Associative(T)
  BY SequencesAssociate
<1>1. n \in Nat /\ m \in Nat /\ \A k \in 1..m : s[k] \in T
  BY LenProperties, ElementOfSeq
<1>2. /\ t \in Seq(T) /\ Len(t) = n + m
      /\ \A k \in 1..n : t[k] = r[k]
      /\ \A k \in 1..m : t[n + k] = s[k]
  BY ConcatAt
<1>3. PICK f \in [0..n -> T] : Joins(f, r) /\ FlattenSeq(r) = f[n]
  BY FlattenIsJoin
<1>4. PICK g \in [0..m -> T] : Joins(g, s) /\ FlattenSeq(s) = g[m]
  BY FlattenIsJoin
<1>5. PICK h \in [0 .. n + m -> T] : Joins(h, t) /\ FlattenSeq(t) = h[n + m]
  <2> HIDE DEF t
  <2>1. t \in Seq(Seq(S))
    BY <1>2
  <2>2. \E h \in [0 .. Len(t) -> Seq(S)] : Joins(h, t) /\ FlattenSeq(t) = h[Len(t)]
    BY <2>1, FlattenIsJoin
  <2>3. QED BY <1>2, <2>2
<1>6. /\ f[0] = <<>> /\ \A k \in 1..n : f[k] = f[k-1] \o r[k]
      /\ g[0] = <<>> /\ \A k \in 1..m : g[k] = g[k-1] \o s[k]
      /\ h[0] = <<>> /\ \A k \in 1 .. n + m : h[k] = h[k-1] \o t[k]
  BY <1>2, <1>3, <1>4, <1>5 DEF Joins
<1> HIDE DEF n, m, t, T
<1>7. \A k \in 0..n : h[k] = f[k]
  <2> DEFINE N == {k \in 0..n : h[k] = f[k]}
  <2>1. 0 \in N
    BY <1>1, <1>6, SMT
  <2>2. ASSUME NEW k \in 1..n, k - 1 \in N PROVE k \in N
    <3>1. k \in 1 .. n + m /\ k \in 0..n
      BY <1>1, SMT
    <3>2. h[k] = h[k-1] \o t[k] /\ f[k] = f[k-1] \o r[k] /\ t[k] = r[k]
      BY <1>2, <1>6, <3>1
    <3>3. h[k-1] = f[k-1]
      BY <2>2
    <3>4. h[k] = f[k]
      BY <3>2, <3>3
    <3>5. QED BY <3>1, <3>4
  <2>3. \A k \in 0..n : k \in N
    <3> HIDE DEF N
    <3>1. QED BY <1>1, <2>1, <2>2, InductionUpTo
  <2>4. QED BY <2>3
<1>8. n \in 0..n /\ 0 \in 0..m /\ m \in 0..m
  BY <1>1, SMT
<1>9. f[n] \in T /\ \A a \in T : a \o <<>> = a
  <2>1. \A a \in T : a \o <<>> = a
    BY ConcatEmptySeq DEF T
  <2>2. QED BY <1>3, <1>8, <2>1
<1>10. \A k \in 0..m : h[n + k] = f[n] \o g[k]
  <2> DEFINE N == {k \in 0..m : h[n + k] = f[n] \o g[k]}
  <2>1. 0 \in N
    <3>1. n + 0 = n
      BY <1>1, SMT
    <3>2. QED BY <1>6, <1>7, <1>8, <1>9, <3>1
  <2>2. ASSUME NEW k \in 1..m, k - 1 \in N PROVE k \in N
    <3>1. /\ n + k \in 1 .. n + m /\ (n + k) - 1 = n + (k - 1)
          /\ k \in 0..m /\ k - 1 \in 0..m
      BY <1>1, SMT
    <3>2. h[n + k] = h[n + (k - 1)] \o s[k]
      BY <1>2, <1>6, <3>1
    <3>3. h[n + (k - 1)] = f[n] \o g[k-1] /\ g[k] = g[k-1] \o s[k]
      BY <1>6, <2>2
    <3>4. (f[n] \o g[k-1]) \o s[k] = f[n] \o (g[k-1] \o s[k])
      <4> DEFINE a == f[n]
                 b == g[k-1]
                 c == s[k]
      <4>1. a \in T /\ b \in T /\ c \in T
        BY <1>1, <1>4, <1>9, <3>1
      <4> HIDE DEF a, b, c
      <4>2. (a \o b) \o c = a \o (b \o c)
        BY <1>0, <4>1, Zenon DEF Associative
      <4>3. QED BY <4>2 DEF a, b, c
    <3>5. QED BY <3>1, <3>2, <3>3, <3>4
  <2>3. \A k \in 0..m : k \in N
    <3> HIDE DEF N
    <3>1. QED BY <1>1, <2>1, <2>2, InductionUpTo
  <2>4. QED BY <2>3
<1>11. h[n + m] = f[n] \o g[m]
  BY <1>8, <1>10
<1>12. QED BY <1>3, <1>4, <1>5, <1>9, <1>11 DEF T, t

LEMMA FlattenOfAppend ==
  ASSUME NEW S, NEW s \in Seq(Seq(S)), NEW e \in Seq(S)
  PROVE  FlattenSeq(Append(s, e)) = FlattenSeq(s) \o e
<1> DEFINE T == Seq(S)
           t == <<e>>
<1>1. t \in Seq(T) /\ Len(t) = 1 /\ t[1] = e
  BY SMT
<1>2. Append(s, e) = s \o t
  BY AppendIsConcat
<1> HIDE DEF t
<1>3. FlattenSeq(s \o t) = FlattenSeq(s) \o FlattenSeq(t)
  BY <1>1, FlattenOfConcat
<1>4. PICK f \in [0 .. Len(t) -> T] : Joins(f, t) /\ FlattenSeq(t) = f[Len(t)]
  BY <1>1, FlattenIsJoin
<1>5. f[1] = <<>> \o e
  <2>1. 1 \in 1..1 /\ 1 - 1 = 0
    BY SMT
  <2>2. QED BY <1>1, <1>4, <2>1 DEF Joins
<1>6. <<>> \o e = e
  BY ConcatEmptySeq
<1>7. QED BY <1>1, <1>2, <1>3, <1>4, <1>5, <1>6

-----------------------------------------------------------------------------
(* Where the records of a file lie *)

\* E gives where events of the sizes of p end.
Runs(E, p) == /\ E[0] = kCaptureHeaderSize
              /\ \A k \in 1 .. Len(p) : E[k] = E[k-1] + SizeOf(p[k])

LEMMA HeaderSizeIsNat == kCaptureHeaderSize \in Nat
<1>1. NameLen \in Nat
  BY TxcpAssumption
<1>2. QED BY <1>1, SMT DEF kCaptureHeaderSize

LEMMA EndsOfRuns ==
  ASSUME NEW p, NEW n \in Nat, Len(p) = n, \A k \in 1..n : Len(p[k].data) \in Nat
  PROVE  /\ EndsOf(p) \in [0..n -> Nat] /\ Runs(EndsOf(p), p)
<1> DEFINE d == [k \in 1..n |-> Len(p[k].data)]
           S == Nat
           z == kCaptureHeaderSize
           c == kCaptureEventFixedSize
           step == [a \in S |-> [b \in S |-> a + c + b]]
<1>1. /\ step \in [S -> [S -> S]] /\ z \in S
      /\ \A a, b \in S : step[a][b] = a + c + b
  <2>1. c \in Nat
    BY SMT DEF kCaptureEventFixedSize
  <2> HIDE DEF c
  <2>2. QED BY <2>1, HeaderSizeIsNat, SMT
<1>2. d \in Seq(S) /\ Len(d) = n /\ \A k \in 1..n : d[k] = Len(p[k].data) /\ d[k] \in S
  <2>1. d \in [1..n -> S]
    OBVIOUS
  <2>2. d \in Seq(S)
    BY <2>1, SeqDef
  <2>3. DOMAIN d = 1..n
    OBVIOUS
  <2>4. Len(d) = n
    BY <2>2, <2>3, LenProperties, SameLength
  <2>5. QED BY <2>1, <2>2, <2>4
<1> HIDE DEF d, step, S, z, c
<1>3. PICK f \in [0..n -> S] : IsRun(f, step, z, d)
  BY <1>1, <1>2, RunExists
<1>4. f = [k \in 0..n |-> IF k = 0 THEN z ELSE f[k-1] + c + Len(p[k].data)]
  <2>1. ASSUME NEW k \in 0..n
        PROVE  f[k] = IF k = 0 THEN z ELSE f[k-1] + c + Len(p[k].data)
    <3>1. CASE k = 0
      BY <1>3, <3>1 DEF IsRun
    <3>2. CASE k # 0
      <4>1. k \in 1..n /\ k - 1 \in 0..n
        BY <3>2, SMT
      <4>2. f[k] = step[f[k-1]][d[k]] /\ f[k-1] \in S /\ d[k] \in S /\ d[k] = Len(p[k].data)
        BY <1>2, <1>3, <4>1 DEF IsRun
      <4>3. QED BY <1>1, <3>2, <4>2
    <3>3. QED BY <3>1, <3>2
  <2>2. QED BY <1>3, <2>1
<1> DEFINE g == CHOOSE g : g = [k \in 0..n |-> IF k = 0 THEN z ELSE g[k-1] + c + Len(p[k].data)]
<1>5. g = [k \in 0..n |-> IF k = 0 THEN z ELSE g[k-1] + c + Len(p[k].data)]
  BY <1>4
<1>6. EndsOf(p) = g
  BY DEF EndsOf, z, c
<1> HIDE DEF g
<1> DEFINE N == {k \in 0..n : g[k] = f[k]}
<1>7. \A k \in 0..n : k \in N
  <2>1. 0 \in 0..n /\ \A k \in 1..n : k \in 0..n /\ k - 1 \in 0..n /\ k # 0
    BY SMT
  <2>2. 0 \in N
    BY <1>4, <1>5, <2>1
  <2>3. ASSUME NEW k \in 1..n, k - 1 \in N PROVE k \in N
    <3>1. g[k-1] = f[k-1]
      BY <2>3
    <3>2. g[k] = g[k-1] + c + Len(p[k].data)
      BY <1>5, <2>1
    <3>3. f[k] = f[k-1] + c + Len(p[k].data)
      BY <1>4, <2>1
    <3>4. QED BY <2>1, <3>1, <3>2, <3>3
  <2>4. \A k \in 0..n : k \in N
    <3> HIDE DEF N
    <3>1. QED BY <2>2, <2>3, InductionUpTo
  <2>5. QED BY <2>4
<1>8. g = f
  BY <1>3, <1>5, <1>7
<1>9. /\ g[0] = z
      /\ \A k \in 1..n : g[k] = g[k-1] + (c + Len(p[k].data))
  <2>1. 0 \in 0..n /\ \A k \in 1..n : k \in 0..n /\ k - 1 \in 0..n /\ k # 0
    BY SMT
  <2>2. ASSUME NEW k \in 1..n PROVE g[k] = g[k-1] + (c + Len(p[k].data))
    <3> DEFINE a == g[k-1]
               b == Len(p[k].data)
    <3>1. g[k] = a + c + b
      BY <1>5, <2>1
    <3>2. a \in Nat /\ b \in Nat /\ c \in Nat
      <4>1. a \in S
        BY <1>3, <1>8, <2>1
      <4>2. c \in Nat
        BY SMT DEF c, kCaptureEventFixedSize
      <4>3. QED BY <4>1, <4>2 DEF S
    <3> HIDE DEF a, b
    <3>3. a + c + b = a + (c + b)
      BY <3>2, SMT
    <3>4. QED BY <3>1, <3>3 DEF a, b
  <2>3. QED BY <1>5, <2>1, <2>2
<1>10. QED BY <1>3, <1>6, <1>8, <1>9 DEF Runs, SizeOf, S, z, c

LEMMA SizeAtLeast == ASSUME NEW e \in StampedEvents PROVE SizeOf(e) \in Nat /\ SizeOf(e) >= 11
BY EventFields

\* Every record takes at least kCaptureEventFixedSize bytes.
LEMMA EndsGrow ==
  ASSUME NEW w \in Seq(StampedEvents), NEW n \in Nat, Len(w) = n,
         NEW E \in [0..n -> Nat], Runs(E, w)
  PROVE  /\ \A k \in 0..n : E[k] >= 11 * k /\ E[k] >= kCaptureHeaderSize
         /\ \A j, k \in 0..n : j < k => E[j] + 11 <= E[k]
<1>1. /\ E[0] = kCaptureHeaderSize /\ E[0] \in Nat
      /\ \A k \in 1..n : /\ k - 1 \in 0..n /\ k \in 0..n /\ E[k] \in Nat /\ E[k-1] \in Nat
                         /\ E[k-1] + 11 <= E[k]
  <2>1. 0 \in 0..n
    BY SMT
  <2>2. ASSUME NEW k \in 1..n
        PROVE  k - 1 \in 0..n /\ k \in 0..n /\ E[k] \in Nat /\ E[k-1] \in Nat /\ E[k-1] + 11 <= E[k]
    <3>1. k - 1 \in 0..n /\ k \in 0..n
      BY SMT
    <3> DEFINE a == E[k-1]
               b == E[k]
               c == SizeOf(w[k])
    <3>2. a \in Nat /\ b \in Nat /\ b = a + c
      BY <3>1 DEF Runs
    <3>3. w[k] \in StampedEvents
      BY ElementOfSeq
    <3>4. c \in Nat /\ c >= 11
      BY <3>3, SizeAtLeast
    <3> HIDE DEF a, b, c
    <3>5. a + 11 <= b
      BY <3>2, <3>4, SMT
    <3>6. QED BY <3>1, <3>2, <3>5 DEF a, b
  <2>3. QED BY <2>1, <2>2 DEF Runs
<1> DEFINE h == kCaptureHeaderSize
           N == {k \in 0..n : /\ E[k] >= 11 * k /\ E[k] >= h
                              /\ \A j \in 0..n : j < k => E[j] + 11 <= E[k]}
<1>2. h \in Nat
  BY HeaderSizeIsNat
<1> HIDE DEF h
<1>3. 0 \in N
  <2>1. 0 \in 0..n /\ \A j \in 0..n : ~(j < 0)
    BY SMT
  <2>2. E[0] >= 11 * 0 /\ E[0] >= h
    BY <1>1, <1>2, SMT DEF h
  <2>3. QED BY <2>1, <2>2
<1>4. ASSUME NEW k \in 1..n, k - 1 \in N PROVE k \in N
  <2> DEFINE a == E[k-1]
             b == E[k]
  <2>1. a \in Nat /\ b \in Nat /\ a + 11 <= b /\ a >= 11 * (k - 1) /\ a >= h /\ k \in 0..n
    BY <1>1, <1>4
  <2>2. \A j \in 0..n : j < k - 1 => E[j] + 11 <= a
    BY <1>4
  <2> HIDE DEF a, b
  <2>3. b >= 11 * k /\ b >= h
    BY <1>2, <2>1, SMT
  <2>4. ASSUME NEW j \in 0..n, j < k PROVE E[j] + 11 <= b
    <3>1. CASE j = k - 1
      BY <2>1, <3>1 DEF a
    <3>2. CASE j # k - 1
      <4>1. j < k - 1
        BY <2>4, <3>2, SMT
      <4> DEFINE x == E[j]
      <4>2. x \in Nat /\ x + 11 <= a
        BY <2>2, <4>1
      <4> HIDE DEF x
      <4>3. x + 11 <= b
        BY <2>1, <4>2, SMT
      <4>4. QED BY <4>3 DEF x
    <3>3. QED BY <3>1, <3>2
  <2>5. QED BY <2>1, <2>3, <2>4 DEF b
<1>5. \A k \in 0..n : k \in N
  <2> HIDE DEF N
  <2>1. QED BY <1>3, <1>4, InductionUpTo
<1>6. QED BY <1>5 DEF h

LEMMA RecordsOK ==
  ASSUME NEW w \in Seq(StampedEvents)
  PROVE  LET r == [k \in DOMAIN w |-> RecordOf(w[k])]
         IN  /\ r \in Seq(Seq(Byte)) /\ Len(r) = Len(w)
             /\ \A k \in 1 .. Len(w) : r[k] = RecordOf(w[k])
             /\ Records(w) = FlattenSeq(r)
<1> DEFINE n == Len(w)
           r == [k \in DOMAIN w |-> RecordOf(w[k])]
<1>1. n \in Nat /\ DOMAIN w = 1..n /\ \A k \in 1..n : w[k] \in StampedEvents
  BY LenProperties, ElementOfSeq
<1>2. r \in [1..n -> Seq(Byte)]
  <2>1. \A k \in 1..n : RecordOf(w[k]) \in Seq(Byte)
    BY <1>1, RecordLayout
  <2> HIDE DEF n
  <2>2. QED BY <1>1, <2>1
<1>3. r \in Seq(Seq(Byte))
  <2> HIDE DEF r, n
  <2>1. QED BY <1>1, <1>2, SeqDef
<1>4. DOMAIN r = 1..n
  BY <1>1
<1>5. Len(r) = n
  <2> HIDE DEF r, n
  <2>1. QED BY <1>1, <1>3, <1>4, LenProperties, SameLength
<1>6. Records(w) = FlattenSeq(r)
  BY DEF Records, RecordOf
<1>7. \A k \in 1..n : r[k] = RecordOf(w[k])
  BY <1>1
<1> HIDE DEF r
<1>8. QED BY <1>3, <1>5, <1>6, <1>7 DEF r

LEMMA BytesAssociate ==
  ASSUME NEW a \in Seq(Byte), NEW b \in Seq(Byte), NEW c \in Seq(Byte)
  PROVE  (a \o b) \o c = a \o (b \o c)
BY ConcatAssociative

\* Behind a header of its size, each record is found where the one before it ends.
LEMMA RecordsLayout ==
  ASSUME NEW w \in Seq(StampedEvents), NEW hdr \in Seq(Byte), Len(hdr) = kCaptureHeaderSize,
         NEW n \in Nat, Len(w) = n, NEW E \in [0..n -> Nat], Runs(E, w)
  PROVE  LET f == hdr \o Records(w)
         IN  /\ f \in Seq(Byte) /\ Len(f) = E[n] /\ Has(f, 0, hdr)
             /\ \A k \in 1..n : Has(f, E[k-1], RecordOf(w[k]))
<1> DEFINE r == [k \in DOMAIN w |-> RecordOf(w[k])]
           T == Seq(Byte)
<1>1. /\ r \in Seq(T) /\ Len(r) = n /\ Records(w) = FlattenSeq(r)
      /\ \A k \in 1..n : r[k] = RecordOf(w[k])
  BY RecordsOK
<1> HIDE DEF r
<1>2. PICK g \in [0..n -> T] : Joins(g, r) /\ Records(w) = g[n]
  <2>1. \E g \in [0 .. Len(r) -> Seq(Byte)] : Joins(g, r) /\ FlattenSeq(r) = g[Len(r)]
    BY <1>1, FlattenIsJoin
  <2>2. QED BY <1>1, <2>1
<1>3. /\ \A k \in 1..n : /\ k - 1 \in 0..n /\ k \in 0..n /\ k - 1 \in Nat
                         /\ g[k] = g[k-1] \o r[k] /\ g[k-1] \in T
                         /\ r[k] \in T /\ Len(r[k]) = SizeOf(w[k])
                         /\ E[k] = E[k-1] + SizeOf(w[k])
                         /\ E[k-1] \in Nat
      /\ g[0] = <<>> /\ E[0] = Len(hdr) /\ 0 \in 0..n /\ n \in 0..n
  <2>1. 0 \in 0..n /\ n \in 0..n /\ \A k \in 1..n : k - 1 \in 0..n /\ k \in 0..n /\ k - 1 \in Nat
    BY SMT
  <2>2. \A k \in 1..n : w[k] \in StampedEvents
    BY ElementOfSeq
  <2>3. \A k \in 1..n : r[k] \in T /\ Len(r[k]) = SizeOf(w[k])
    BY <1>1, <2>2, RecordLayout
  <2>4. QED BY <1>1, <1>2, <2>1, <2>3 DEF Joins, Runs
<1>4. \A a \in T : a \o <<>> = a
  BY ConcatEmptySeq
<1>5. \A j, k \in 0..n : j <= k => E[j] <= E[k]
  <2>1. \A j, k \in 0..n : j < k => E[j] + 11 <= E[k]
    BY EndsGrow
  <2>2. ASSUME NEW j \in 0..n, NEW k \in 0..n, j <= k PROVE E[j] <= E[k]
    <3> DEFINE a == E[j]
               b == E[k]
    <3>1. a \in Nat /\ b \in Nat /\ (j < k => a + 11 <= b) /\ (j = k => a = b)
      BY <2>1
    <3> HIDE DEF a, b
    <3>2. a <= b
      BY <2>2, <3>1, SMT
    <3>3. QED BY <3>2 DEF a, b
  <2>3. QED BY <2>2
<1> DEFINE f(k) == hdr \o g[k]
           N == {k \in 0..n : /\ f(k) \in T /\ Len(f(k)) = E[k] /\ Has(f(k), 0, hdr)
                              /\ \A j \in 1..k : Has(f(k), E[j-1], r[j])}
<1>6. 0 \in N
  <2>1. f(0) = hdr
    BY <1>3, <1>4
  <2>2. Has(hdr, 0, hdr)
    <3>1. \A i \in 1 .. Len(hdr) : 0 + i = i
      BY SMT
    <3>2. QED BY <3>1 DEF Has
  <2>3. \A j \in 1..0 : FALSE
    BY SMT
  <2> HIDE DEF f
  <2>4. QED BY <1>3, <2>1, <2>2, <2>3
<1>7. ASSUME NEW k \in 1..n, k - 1 \in N PROVE k \in N
  <2> DEFINE s == f(k-1)
             t == r[k]
             a == E[k-1]
  <2>1. f(k) = s \o t
    <3> DEFINE b == g[k-1]
               c == r[k]
    <3>1. b \in Seq(Byte) /\ c \in Seq(Byte) /\ g[k] = b \o c
      BY <1>3
    <3> HIDE DEF b, c
    <3>2. (hdr \o b) \o c = hdr \o (b \o c)
      BY <3>1, BytesAssociate
    <3>3. QED BY <3>1, <3>2 DEF b, c
  <2>2. /\ s \in T /\ Len(s) = a /\ Has(s, 0, hdr) /\ \A j \in 1 .. k - 1 : Has(s, E[j-1], r[j])
        /\ t \in T /\ Len(t) = SizeOf(w[k]) /\ E[k] = a + SizeOf(w[k]) /\ a \in Nat
    <3> HIDE DEF f
    <3>1. QED BY <1>3, <1>7
  <2> HIDE DEF s, t, a, f
  <2>3. /\ s \o t \in T /\ Len(s \o t) = Len(s) + Len(t) /\ Has(s \o t, Len(s), t)
    BY <2>2, ConcatAt, HasInConcat
  <2>4. Has(s \o t, 0, hdr)
    <3>1. 0 \in Nat /\ 0 + Len(hdr) <= Len(s)
      <4>1. Len(hdr) <= a /\ Len(hdr) \in Nat
        <5>1. k - 1 \in 0..n /\ 0 <= k - 1
          BY <1>3, SMT
        <5>2. E[0] <= E[k-1]
          BY <1>3, <1>5, <5>1
        <5>3. QED BY <1>3, <5>2, LenProperties DEF a
      <4>2. QED BY <2>2, <4>1, SMT
    <3>2. QED BY <2>2, <3>1, HasInConcat
  <2>5. ASSUME NEW j \in 1..k PROVE Has(s \o t, E[j-1], r[j])
    <3>1. CASE j = k
      BY <2>2, <2>3, <3>1 DEF t, a
    <3>2. CASE j # k
      <4>1. j \in 1 .. k - 1 /\ j \in 1..n /\ j \in 0..n /\ j <= k - 1 /\ k - 1 \in 0..n
        BY <3>2, SMT
      <4>2. Has(s, E[j-1], r[j])
        BY <2>2, <4>1
      <4>3. E[j-1] \in Nat /\ r[j] \in T /\ E[j-1] + Len(r[j]) = E[j] /\ E[j] <= a
        BY <1>3, <1>5, <4>1 DEF a
      <4>4. QED BY <2>2, <4>2, <4>3, HasInConcat
    <3>3. QED BY <3>1, <3>2
  <2>6. QED BY <1>3, <2>1, <2>2, <2>3, <2>4, <2>5
<1>8. \A k \in 0..n : k \in N
  <2> HIDE DEF N
  <2>1. QED BY <1>6, <1>7, InductionUpTo
<1>9. n \in N /\ n \in 0..n
  <2> HIDE DEF N
  <2>1. QED BY <1>3, <1>8
<1>10. f(n) \in T /\ Len(f(n)) = E[n] /\ Has(f(n), 0, hdr) /\ \A j \in 1..n : Has(f(n), E[j-1], r[j])
  BY <1>9
<1>11. hdr \o Records(w) = f(n)
  BY <1>2
<1> HIDE DEF f
<1>12. QED BY <1>1, <1>10, <1>11 DEF T

-----------------------------------------------------------------------------
(* Reading a file *)

LoopAt(at, events) == [at |-> at, events |-> events]

\* The reader takes a whole record as the event it was made from.
LEMMA TurnReads ==
  ASSUME NEW bytes \in Seq(Byte), NEW e \in StampedEvents, NEW at \in Nat, NEW events,
         at + SizeOf(e) <= Len(bytes), Has(bytes, at, RecordOf(e))
  PROVE  AfterRecord(LoopAt(at, events), bytes)
           = LoopAt(at + SizeOf(e), Append(events, Read(e)))
<1> DEFINE in == SubSeq(bytes, at + 1, Len(bytes))
           r == RecordOf(e)
           n == SizeOf(e)
           p == ParseEvent(in)
<1>1. n \in Nat /\ n >= 11 /\ r \in Seq(Byte) /\ Len(r) = n /\ Len(bytes) \in Nat
  BY SizeAtLeast, RecordLayout, LenProperties
<1>2. at + n <= Len(bytes) /\ Has(bytes, at, r)
  OBVIOUS
<1> HIDE DEF n, r
<1>3. /\ at \in 0 .. Len(bytes) /\ Len(bytes) - at >= n /\ n # 0
      /\ \A i \in 1..n : i \in 1 .. Len(bytes) - at /\ 0 + i = i
  BY <1>1, <1>2, SMT
<1>4. /\ in \in Seq(Byte) /\ Len(in) = Len(bytes) - at
      /\ \A i \in 1 .. Len(bytes) - at : in[i] = bytes[at + i]
  BY <1>3, RestOK
<1> HIDE DEF in
<1>5. Has(in, 0, r)
  BY <1>1, <1>2, <1>3, <1>4 DEF Has
<1>6. p = [used |-> n, dir |-> e.dir, ts |-> e.ts, data |-> e.data]
  <2>1. Len(in) >= SizeOf(e) /\ Has(in, 0, RecordOf(e))
    BY <1>3, <1>4, <1>5 DEF n, r
  <2>2. QED BY <1>4, <2>1, WholeRecordParses DEF n
<1>7. p.used = n /\ p.used # 0 /\ [dir |-> p.dir, ts |-> p.ts, data |-> p.data] = Read(e)
  BY <1>3, <1>6 DEF Read
<1> HIDE DEF p
<1>8. AfterRecord(LoopAt(at, events), bytes)
        = [at |-> at + p.used, events |-> Append(events, [dir |-> p.dir, ts |-> p.ts, data |-> p.data])]
  BY <1>7 DEF AfterRecord, LoopAt, p, in
<1>9. QED BY <1>7, <1>8 DEF LoopAt, n

\* At the end, or before a record that is cut off, the reader stays where it is.
LEMMA TurnStays ==
  ASSUME NEW bytes \in Seq(Byte), NEW at \in 0 .. Len(bytes), NEW events,
         \/ at = Len(bytes)
         \/ \E e \in StampedEvents :
              /\ Len(bytes) < at + SizeOf(e)
              /\ \A i \in 1 .. Len(bytes) - at : bytes[at + i] = RecordOf(e)[i]
  PROVE  AfterRecord(LoopAt(at, events), bytes) = LoopAt(at, events)
<1> DEFINE in == SubSeq(bytes, at + 1, Len(bytes))
<1>1. /\ in \in Seq(Byte) /\ Len(in) = Len(bytes) - at
      /\ \A i \in 1 .. Len(bytes) - at : in[i] = bytes[at + i]
  BY RestOK
<1>2. Len(bytes) \in Nat /\ at \in Nat
  <2>1. Len(bytes) \in Nat
    BY LenProperties
  <2>2. QED BY <2>1, SMT
<1> HIDE DEF in
<1>3. ParseEvent(in) = [used |-> 0]
  <2>1. CASE at = Len(bytes)
    <3>1. Len(in) < 11
      BY <1>1, <1>2, <2>1, SMT
    <3>2. QED BY <3>1 DEF ParseEvent, kCaptureEventFixedSize
  <2>2. ASSUME NEW e \in StampedEvents, Len(bytes) < at + SizeOf(e),
               \A i \in 1 .. Len(bytes) - at : bytes[at + i] = RecordOf(e)[i]
        PROVE  ParseEvent(in) = [used |-> 0]
    <3> DEFINE n == SizeOf(e)
    <3>1. n \in Nat /\ Len(bytes) < at + n
      BY <2>2, SizeAtLeast
    <3> HIDE DEF n
    <3>2. Len(bytes) - at < n
      BY <1>2, <3>1, SMT
    <3>3. Len(in) < SizeOf(e) /\ \A i \in 1 .. Len(in) : in[i] = RecordOf(e)[i]
      BY <1>1, <2>2, <3>2 DEF n
    <3>4. QED BY <1>1, <3>3, CutRecordFails
  <2>3. QED BY <2>1, <2>2
<1>4. QED BY <1>3 DEF AfterRecord, LoopAt, in

\* A reader's loop comes to where a sequence of turns leads.
LEMMA LoopRuns ==
  ASSUME NEW bytes, NEW n \in Nat, Len(bytes) \div kCaptureEventFixedSize = n, NEW f,
         f[0] = LoopAt(kCaptureHeaderSize, <<>>),
         \A k \in 1..n : f[k] = AfterRecord(f[k-1], bytes)
  PROVE  ParsedFrom(bytes) = f[n].events
<1> DEFINE z == LoopAt(kCaptureHeaderSize, <<>>)
           h == [k \in 0..n |-> f[k]]
           g == CHOOSE g : g = [k \in 0..n |-> IF k = 0 THEN z ELSE AfterRecord(g[k-1], bytes)]
<1>1. 0 \in 0..n /\ n \in 0..n /\ \A k \in 1..n : k \in 0..n /\ k - 1 \in 0..n /\ k # 0
  BY SMT
<1> HIDE DEF z
<1>2. h = [k \in 0..n |-> IF k = 0 THEN z ELSE AfterRecord(h[k-1], bytes)]
  <2>1. ASSUME NEW k \in 0..n PROVE f[k] = IF k = 0 THEN z ELSE AfterRecord(h[k-1], bytes)
    <3>1. CASE k = 0
      BY <3>1 DEF z
    <3>2. CASE k # 0
      <4>1. k \in 1..n /\ k - 1 \in 0..n
        BY <3>2, SMT
      <4>2. h[k-1] = f[k-1]
        BY <4>1
      <4>3. QED BY <3>2, <4>1, <4>2
    <3>3. QED BY <3>1, <3>2
  <2>2. QED BY <2>1
<1>3. g = [k \in 0..n |-> IF k = 0 THEN z ELSE AfterRecord(g[k-1], bytes)]
  <2> HIDE DEF h
  <2>1. QED BY <1>2
<1>4. ParsedFrom(bytes) = g[n].events
  BY DEF ParsedFrom, z, LoopAt
<1> HIDE DEF g
<1> DEFINE N == {k \in 0..n : g[k] = f[k]}
<1>5. 0 \in N
  BY <1>1, <1>3 DEF z
<1>6. ASSUME NEW k \in 1..n, k - 1 \in N PROVE k \in N
  <2>1. g[k-1] = f[k-1]
    BY <1>6
  <2>2. g[k] = AfterRecord(g[k-1], bytes)
    BY <1>1, <1>3
  <2>3. QED BY <1>1, <2>1, <2>2
<1>7. \A k \in 0..n : k \in N
  <2> HIDE DEF N
  <2>1. QED BY <1>5, <1>6, InductionUpTo
<1>8. g[n] = f[n]
  BY <1>1, <1>7
<1>9. QED BY <1>4, <1>8

\* How many records end by cut.
LEMMA WholeRecords ==
  ASSUME NEW w \in Seq(StampedEvents), NEW n \in Nat, Len(w) = n,
         NEW E \in [0..n -> Nat], Runs(E, w), NEW m \in 0..n,
         NEW cut \in kCaptureHeaderSize .. E[m]
  PROVE  \E c \in 0..m : /\ c \in Nat /\ 11 * c <= cut /\ E[c] <= cut
                         /\ c < m => cut < E[c+1]
                         /\ c = m => cut = E[c]
                         /\ \A k \in 1..n : k <= c <=> E[k] <= cut
<1>1. /\ m \in Nat /\ m <= n /\ \A k \in 0..m : k \in 0..n /\ k \in Nat
      /\ \A k \in 0..n : E[k] \in Nat
      /\ E[m] \in Nat /\ cut \in Nat /\ cut <= E[m] /\ E[0] <= cut
  <2>1. m \in Nat /\ m <= n /\ 0 \in 0..n /\ \A k \in 0..m : k \in 0..n /\ k \in Nat
    BY SMT
  <2>2. E[m] \in Nat /\ E[0] = kCaptureHeaderSize
    BY <2>1 DEF Runs
  <2> DEFINE a == E[m]
             h == kCaptureHeaderSize
  <2>3. a \in Nat /\ h \in Nat /\ cut \in h..a
    BY <2>2, HeaderSizeIsNat
  <2> HIDE DEF a, h
  <2>4. cut \in Nat /\ cut <= a /\ h <= cut
    BY <2>3, SMT
  <2>5. QED BY <2>1, <2>2, <2>4 DEF a, h
<1>2. /\ \A k \in 0..n : E[k] >= 11 * k
      /\ \A j, k \in 0..n : j < k => E[j] + 11 <= E[k]
  BY EndsGrow
<1>3. PICK c \in 0..m : E[c] <= cut /\ (c < m => cut < E[c+1])
  <2> SUFFICES ASSUME \A c \in 0..m : ~(E[c] <= cut /\ (c < m => cut < E[c+1]))
               PROVE  FALSE
    OBVIOUS
  <2> DEFINE N == {k \in 0..m : E[k] <= cut}
  <2>1. 0 \in N
    BY <1>1, SMT
  <2>2. ASSUME NEW k \in 1..m, k - 1 \in N PROVE k \in N
    <3>1. k - 1 \in 0..m /\ k \in 0..m /\ k - 1 < m /\ (k - 1) + 1 = k
      BY <1>1, SMT
    <3>2. ~(cut < E[k])
      BY <2>2, <3>1
    <3> DEFINE b == E[k]
    <3>3. b \in Nat
      BY <1>1, <3>1
    <3> HIDE DEF b
    <3>4. b <= cut
      BY <1>1, <3>2, <3>3, SMT DEF b
    <3>5. QED BY <3>1, <3>4 DEF b
  <2>3. \A k \in 0..m : k \in N
    <3> HIDE DEF N
    <3>1. QED BY <1>1, <2>1, <2>2, InductionUpTo
  <2>4. m \in 0..m /\ ~(m < m)
    BY <1>1, SMT
  <2>5. QED BY <2>3, <2>4
<1>4. c \in Nat /\ c <= m /\ c \in 0..n /\ (c < m => c + 1 \in 0..n)
  BY <1>1, SMT
<1> DEFINE x == E[c]
<1>5. x \in Nat /\ x <= cut /\ x >= 11 * c
  BY <1>1, <1>2, <1>3, <1>4
<1>6. 11 * c <= cut
  <2> HIDE DEF x
  <2>1. QED BY <1>1, <1>4, <1>5, SMT
<1>7. c = m => cut = E[c]
  <2> DEFINE a == E[m]
  <2>1. a \in Nat /\ cut <= a /\ (c = m => a <= cut)
    BY <1>1, <1>3
  <2> HIDE DEF a, x
  <2>2. c = m => cut = a
    BY <1>1, <2>1, SMT
  <2>3. QED BY <2>2 DEF a
<1>8. ASSUME NEW k \in 1..n PROVE k <= c <=> E[k] <= cut
  <2> DEFINE a == E[k]
  <2>1. k \in 0..n /\ k \in Nat
    BY SMT
  <2>2. a \in Nat
    BY <1>1, <2>1
  <2>3. CASE k <= c
    <3>1. (k < c => a + 11 <= x) /\ (k = c => a = x)
      BY <1>2, <1>4, <2>1
    <3> HIDE DEF a, x
    <3>2. a <= cut
      BY <1>1, <1>4, <1>5, <2>1, <2>2, <2>3, <3>1, SMT
    <3>3. QED BY <2>3, <3>2 DEF a
  <2>4. CASE ~(k <= c)
    <3>1. CASE c < m
      <4> DEFINE d == c + 1
                 b == E[d]
      <4>1. d \in 0..n /\ (k = d \/ d < k)
        BY <1>4, <2>1, <2>4, <3>1, SMT
      <4>2. b \in Nat /\ cut < b /\ (k = d => a = b) /\ (d < k => b + 11 <= a)
        BY <1>1, <1>2, <1>3, <2>1, <3>1, <4>1
      <4> HIDE DEF b, d, a
      <4>3. ~(a <= cut)
        BY <1>1, <2>2, <4>1, <4>2, SMT
      <4>4. QED BY <2>4, <4>3 DEF a
    <3>2. CASE ~(c < m)
      <4>1. c = m /\ c < k
        BY <1>1, <1>4, <2>1, <2>4, <3>2, SMT
      <4>2. x + 11 <= a /\ cut = x
        BY <1>2, <1>4, <1>7, <2>1, <4>1
      <4> HIDE DEF a, x
      <4>3. ~(a <= cut)
        BY <1>1, <1>5, <2>2, <4>2, SMT
      <4>4. QED BY <2>4, <4>3 DEF a
    <3>3. QED BY <3>1, <3>2
  <2>5. QED BY <2>3, <2>4
<1>9. QED BY <1>3, <1>4, <1>6, <1>7, <1>8

ReadUpTo(w, c) == [k \in 1..c |-> Read(w[k])]

LEMMA ReadUpToGrows ==
  ASSUME NEW w \in Seq(StampedEvents), NEW c \in 1 .. Len(w)
  PROVE  Append(ReadUpTo(w, c - 1), Read(w[c])) = ReadUpTo(w, c)
<1> DEFINE S == {Read(e) : e \in StampedEvents}
           s == ReadUpTo(w, c - 1)
           t == ReadUpTo(w, c)
           e == Read(w[c])
           b == c - 1
<1>1. /\ Len(w) \in Nat /\ \A k \in 1 .. Len(w) : Read(w[k]) \in S
      /\ c \in Nat /\ b \in Nat /\ b + 1 = c /\ c <= Len(w)
  <2>1. Len(w) \in Nat /\ \A k \in 1 .. Len(w) : w[k] \in StampedEvents
    BY LenProperties, ElementOfSeq
  <2>2. c \in Nat /\ b \in Nat /\ b + 1 = c /\ c <= Len(w)
    BY <2>1, SMT
  <2>3. QED BY <2>1, <2>2
<1>2. /\ \A k \in 1..c : k \in 1 .. Len(w)
      /\ \A k \in 1..b : k \in 1..c
      /\ \A k \in 1..c : k \in 1..b \/ k = b + 1
      /\ c \in 1..c
  BY <1>1, SMT
<1>3. e \in S /\ s = [k \in 1..b |-> Read(w[k])] /\ t = [k \in 1..c |-> Read(w[k])]
  BY <1>1 DEF ReadUpTo
<1> HIDE DEF S, s, t, e, b
<1>4. s \in [1..b -> S] /\ t \in [1..c -> S]
  BY <1>1, <1>2, <1>3
<1>5. s \in Seq(S) /\ t \in Seq(S) /\ DOMAIN s = 1..b /\ DOMAIN t = 1..c
  BY <1>1, <1>4, SeqDef
<1>6. Len(s) = b /\ Len(t) = c
  BY <1>1, <1>5, LenProperties, SameLength
<1>7. /\ Append(s, e) \in Seq(S) /\ Len(Append(s, e)) = b + 1
      /\ \A i \in 1..b : Append(s, e)[i] = s[i]
      /\ Append(s, e)[b + 1] = e
  <2>1. /\ Append(s, e) \in Seq(S) /\ Len(Append(s, e)) = Len(s) + 1
        /\ \A i \in 1 .. Len(s) : Append(s, e)[i] = s[i]
        /\ Append(s, e)[Len(s) + 1] = e
    <3>1. s \in Seq(S) /\ e \in S
      BY <1>3, <1>5
    <3>2. QED BY ONLY <3>1, AppendProperties
  <2>2. QED BY <1>6, <2>1
<1>8. \A i \in 1..c : Append(s, e)[i] = t[i]
  <2>1. \A i \in 1..b : s[i] = t[i]
    BY <1>2, <1>3
  <2>2. t[b + 1] = e
    BY <1>1, <1>2, <1>3 DEF e
  <2>3. QED BY <1>2, <1>7, <2>1, <2>2
<1>9. Append(s, e) = t
  BY <1>1, <1>5, <1>6, <1>7, <1>8, SeqEqual
<1>10. QED BY <1>9 DEF s, t, e, b

\* The n events w end at E, and f holds its header and the records of the first m.
HoldsRecords(w, n, E, m, f) ==
  /\ w \in Seq(StampedEvents) /\ n \in Nat /\ Len(w) = n
  /\ E \in [0..n -> Nat] /\ Runs(E, w) /\ m \in 0..n
  /\ f \in Seq(Byte) /\ Len(f) = E[m] /\ \A k \in 1..m : Has(f, E[k-1], RecordOf(w[k]))

\* From any prefix of a file the reader gets the events that are whole in it.
LEMMA ReadsBack ==
  ASSUME NEW w, NEW n, NEW E, NEW m, NEW f, HoldsRecords(w, n, E, m, f),
         NEW cut \in kCaptureHeaderSize .. Len(f)
  PROVE  \E c \in 0..m : /\ ParsedFrom(SubSeq(f, 1, cut)) = ReadUpTo(w, c)
                         /\ \A k \in 1..n : k <= c <=> E[k] <= cut
                         /\ cut = Len(f) => c = m
<1>0. /\ w \in Seq(StampedEvents) /\ n \in Nat /\ Len(w) = n
      /\ E \in [0..n -> Nat] /\ Runs(E, w) /\ m \in 0..n
      /\ f \in Seq(Byte) /\ Len(f) = E[m] /\ \A k \in 1..m : Has(f, E[k-1], RecordOf(w[k]))
  BY DEF HoldsRecords
<1> USE <1>0
<1> DEFINE bytes == SubSeq(f, 1, cut)
           turns == Len(bytes) \div kCaptureEventFixedSize
<1>1. PICK c \in 0..m : /\ c \in Nat /\ 11 * c <= cut /\ E[c] <= cut
                        /\ c < m => cut < E[c+1]
                        /\ c = m => cut = E[c]
                        /\ \A k \in 1..n : k <= c <=> E[k] <= cut
  BY WholeRecords
<1>2. /\ m \in Nat /\ m <= n /\ c <= m /\ c <= n
      /\ \A k \in 0..c : k \in 0..n /\ E[k] \in Nat
      /\ \A k \in 1..c : /\ k - 1 \in 0..n /\ k \in 0..n /\ k \in 1..n /\ k \in 1..m
                         /\ w[k] \in StampedEvents /\ E[k] = E[k-1] + SizeOf(w[k])
                         /\ E[k] <= cut /\ E[k-1] \in Nat /\ E[k] \in Nat
  <2>1. m \in Nat /\ m <= n /\ c <= m /\ c <= n
    BY <1>1, SMT
  <2>2. \A k \in 0..c : k \in 0..n
    BY <1>1, <2>1, SMT
  <2>3. \A k \in 1..c : k - 1 \in 0..n /\ k \in 0..n /\ k \in 1..n /\ k \in 1..m /\ k <= c
    BY <1>1, <2>1, SMT
  <2>4. ASSUME NEW k \in 1..c
        PROVE  w[k] \in StampedEvents /\ E[k] = E[k-1] + SizeOf(w[k]) /\ E[k] <= cut
    <3>1. k \in 1 .. Len(w)
      BY <2>3
    <3>2. w[k] \in StampedEvents
      BY <3>1, ElementOfSeq
    <3>3. QED BY <1>1, <2>3, <3>1, <3>2 DEF Runs
  <2>5. QED BY <2>1, <2>2, <2>3, <2>4
<1>3. /\ cut \in Nat /\ cut <= Len(f) /\ Len(f) \in Nat
      /\ bytes \in Seq(Byte) /\ Len(bytes) = cut
      /\ \A i \in 1..cut : bytes[i] = f[i]
  <2> DEFINE b == Len(f)
             h == kCaptureHeaderSize
  <2>1. b \in Nat /\ h \in Nat /\ cut \in h..b /\ \A i \in 1..b : f[i] \in Byte
    BY LenProperties, HeaderSizeIsNat, ElementOfSeq
  <2> HIDE DEF b, h
  <2>2. /\ cut \in Nat /\ cut <= b /\ 1 \in Int /\ cut \in Int /\ (cut - 1) + 1 = cut
        /\ (IF 1 <= cut THEN (cut - 1) + 1 ELSE 0) = cut
        /\ \A i \in 1..cut : i \in 1..b /\ (1 + i) - 1 = i
    BY <2>1, SMT
  <2>3. \A i \in 1..cut : f[i] \in Byte
    BY <2>1, <2>2
  <2>4. /\ bytes \in Seq(Byte) /\ Len(bytes) = (IF 1 <= cut THEN (cut - 1) + 1 ELSE 0)
        /\ \A i \in 1 .. (cut - 1) + 1 : bytes[i] = f[(1 + i) - 1]
    BY <2>2, <2>3, SubSeqProperties
  <2>5. QED BY <2>1, <2>2, <2>4 DEF b
<1> HIDE DEF bytes
<1>4. turns \in Nat /\ c <= turns /\ c \in 0..turns
  <2>1. turns = cut \div 11
    BY <1>3 DEF kCaptureEventFixedSize
  <2> HIDE DEF turns
  <2>2. QED BY <1>1, <1>3, <2>1, SMT
<1> HIDE DEF turns
<1> DEFINE at(k) == IF k <= c THEN k ELSE c
           turn == [k \in 0..turns |-> LoopAt(E[at(k)], ReadUpTo(w, at(k)))]
<1>5. turn[0] = LoopAt(kCaptureHeaderSize, <<>>)
  <2>1. 0 \in 0..turns /\ 0 <= c
    BY <1>1, <1>4, SMT
  <2>2. at(0) = 0
    BY <2>1
  <2>3. E[0] = kCaptureHeaderSize
    BY DEF Runs
  <2>4. ReadUpTo(w, 0) = <<>>
    <3> DEFINE s == ReadUpTo(w, 0)
    <3>1. \A k \in 1..0 : FALSE
      BY SMT
    <3>2. s = [k \in 1..0 |-> Read(w[k])]
      BY DEF ReadUpTo
    <3> HIDE DEF s
    <3>3. s \in [1..0 -> {0}] /\ DOMAIN s = 1..0
      BY <3>1, <3>2
    <3>4. s \in Seq({0}) /\ 0 \in Nat
      BY <3>3, SeqDef
    <3>5. Len(s) = 0
      BY <3>3, <3>4, LenProperties, SameLength
    <3>6. s = <<>>
      BY <3>4, <3>5, EmptySeq
    <3>7. QED BY <3>6 DEF s
  <2> HIDE DEF at
  <2>5. QED BY <2>1, <2>2, <2>3, <2>4
<1>6. ASSUME NEW k \in 1..turns PROVE turn[k] = AfterRecord(turn[k-1], bytes)
  <2>1. k \in 0..turns /\ k - 1 \in 0..turns /\ k \in Nat
    BY <1>4, SMT
  <2>2. turn[k] = LoopAt(E[at(k)], ReadUpTo(w, at(k))) /\ turn[k-1] = LoopAt(E[at(k-1)], ReadUpTo(w, at(k-1)))
    BY <2>1
  <2> HIDE DEF turn
  <2>3. CASE k <= c
    <3>1. k \in 1..c /\ k - 1 <= c /\ k \in 1 .. Len(w) /\ k \in 1..m
      BY <1>1, <1>2, <2>1, <2>3, SMT
    <3> DEFINE e == w[k]
               a == E[k-1]
               b == E[k]
               s == ReadUpTo(w, k - 1)
    <3>2. /\ e \in StampedEvents /\ a \in Nat /\ b = a + SizeOf(e) /\ b <= cut /\ b \in Nat
          /\ Has(f, a, RecordOf(e))
      BY <1>2, <3>1
    <3>3. Append(s, Read(e)) = ReadUpTo(w, k)
      BY <3>1, ReadUpToGrows
    <3>4. turn[k] = LoopAt(b, ReadUpTo(w, k)) /\ turn[k-1] = LoopAt(a, s)
      BY <2>2, <2>3, <3>1
    <3> HIDE DEF e, a, b, s, at
    <3>5. Has(bytes, a, RecordOf(e))
      <4>1. Len(RecordOf(e)) = SizeOf(e) /\ SizeOf(e) \in Nat
        BY <3>2, RecordLayout, SizeAtLeast
      <4> DEFINE z == SizeOf(e)
      <4>2. z \in Nat /\ b = a + z
        BY <3>2, <4>1
      <4> HIDE DEF z
      <4>3. \A i \in 1..z : a + i \in 1..cut
        BY <1>3, <3>2, <4>2, SMT
      <4>4. QED BY <1>3, <3>2, <4>1, <4>3 DEF Has, z
    <3>6. AfterRecord(LoopAt(a, s), bytes) = LoopAt(a + SizeOf(e), Append(s, Read(e)))
      <4>1. a + SizeOf(e) <= Len(bytes)
        BY <1>3, <3>2
      <4>2. QED BY <1>3, <3>2, <3>5, <4>1, TurnReads
    <3>7. QED BY <3>2, <3>3, <3>4, <3>6
  <2>4. CASE ~(k <= c)
    <3> DEFINE a == E[c]
               s == ReadUpTo(w, c)
    <3>1. at(k) = c /\ at(k-1) = c
      <4>1. k - 1 <= c => k - 1 = c
        BY <1>1, <2>1, <2>4, SMT
      <4>2. QED BY <2>4, <4>1
    <3>2. turn[k] = LoopAt(a, s) /\ turn[k-1] = LoopAt(a, s)
      BY <2>2, <3>1
    <3>3. a \in Nat /\ a <= cut
      <4>1. c \in 0..c
        BY <1>1, SMT
      <4>2. QED BY <1>1, <1>2, <4>1
    <3> HIDE DEF s, at
    <3>4. a \in 0 .. Len(bytes)
      <4> HIDE DEF a
      <4>1. QED BY <1>3, <3>3, SMT
    <3>5. \/ a = Len(bytes)
          \/ \E e \in StampedEvents :
               /\ Len(bytes) < a + SizeOf(e)
               /\ \A i \in 1 .. Len(bytes) - a : bytes[a + i] = RecordOf(e)[i]
      <4>1. CASE c = m
        BY <1>1, <1>3, <4>1
      <4>2. CASE c # m
        <5> DEFINE d == c + 1
                   e == w[d]
        <5>1. c < m /\ d \in 1..m /\ d \in 1 .. Len(w) /\ d - 1 = c /\ d \in 1..n
          BY <1>1, <1>2, <4>2, SMT
        <5>2. e \in StampedEvents
          BY <5>1, ElementOfSeq
        <5>3. Has(f, a, RecordOf(e)) /\ E[d] = a + SizeOf(e) /\ cut < E[d]
          BY <1>1, <5>1 DEF Runs
        <5> HIDE DEF d, e
        <5>4. cut < a + SizeOf(e) /\ SizeOf(e) \in Nat /\ Len(RecordOf(e)) = SizeOf(e)
          BY <5>2, <5>3, SizeAtLeast, RecordLayout
        <5>5. ASSUME NEW i \in 1 .. cut - a PROVE bytes[a + i] = RecordOf(e)[i]
          <6> DEFINE z == SizeOf(e)
          <6>1. z \in Nat /\ cut < a + z
            BY <5>4
          <6> HIDE DEF z, a
          <6>2. a + i \in 1..cut /\ i \in 1..z
            BY <1>3, <3>3, <6>1, SMT
          <6>3. bytes[a + i] = f[a + i]
            BY <1>3, <6>2
          <6>4. QED BY <5>3, <5>4, <6>2, <6>3 DEF Has, z
        <5>6. QED BY <1>3, <5>2, <5>4, <5>5
      <4>3. QED BY <4>1, <4>2
    <3> HIDE DEF a
    <3>6. AfterRecord(LoopAt(a, s), bytes) = LoopAt(a, s)
      BY <1>3, <3>4, <3>5, TurnStays
    <3>7. QED BY <3>2, <3>6
  <2>5. QED BY <2>3, <2>4
<1>7. turn[turns].events = ReadUpTo(w, c)
  <2>1. turns \in 0..turns
    BY <1>4, SMT
  <2>2. at(turns) = c
    <3>1. turns <= c => turns = c
      BY <1>1, <1>4, SMT
    <3>2. QED BY <3>1
  <2> HIDE DEF at
  <2>3. QED BY <2>1, <2>2 DEF LoopAt
<1>8. ParsedFrom(bytes) = ReadUpTo(w, c)
  <2> HIDE DEF turn
  <2>1. Len(bytes) \div kCaptureEventFixedSize = turns
    BY DEF turns
  <2>2. ParsedFrom(bytes) = turn[turns].events
    BY <1>4, <1>5, <1>6, <2>1, LoopRuns
  <2>3. QED BY <1>7, <2>2
<1>9. cut = Len(f) => c = m
  <2>1. CASE c = m
    BY <2>1
  <2>2. CASE c # m
    <3> DEFINE a == E[m]
               d == c + 1
               b == E[d]
    <3>1. c < m /\ d \in 0..n /\ m \in 0..n /\ (d < m \/ d = m)
      BY <1>1, <1>2, <2>2, SMT
    <3>2. a \in Nat /\ b \in Nat /\ cut < b /\ (d = m => b = a) /\ (d < m => b + 11 <= a)
      <4>1. \A j, k \in 0..n : j < k => E[j] + 11 <= E[k]
        BY EndsGrow
      <4>2. QED BY <1>1, <3>1, <4>1
    <3> HIDE DEF a, b, d
    <3>3. cut # a
      BY <1>3, <3>1, <3>2, SMT
    <3>4. QED BY <3>3 DEF a
  <2>3. QED BY <2>1, <2>2
<1>10. QED BY <1>1, <1>8, <1>9 DEF bytes

-----------------------------------------------------------------------------
(* Timestamps *)

\* What holds of the difference, in a field of b, of two readings of a clock of s values.
ClockFacts(s, b, o, a) ==
  LET ts == ((a % s) - (o % s)) % b
      q == a \div s
      p == o \div s
  IN  /\ ts \in 0 .. b - 1 /\ p \in Int /\ q \in Int /\ p <= q
      /\ (ts - (a - o)) % s = 0
      /\ p = q => ts = a - o
      /\ q = p + 1 /\ a - o < s => ts = ((a - o) - s) + b
      /\ b >= s

LEMMA ClockDifference ==
  ASSUME NEW s \in Nat \ {0}, NEW b \in Nat \ {0}, b = s * s,
         NEW o \in Nat, NEW a \in Nat, o <= a
  PROVE  ClockFacts(s, b, o, a)
<1> DEFINE q == a \div s
           p == o \div s
           r == a % s
           t == o % s
           ts == (r - t) % b
           x == s * q
           y == s * p
<1>1. /\ q \in Int /\ r \in 0 .. s - 1 /\ a = x + r
      /\ p \in Int /\ t \in 0 .. s - 1 /\ o = y + t
  BY QuotientRemainder
<1>2. b >= s
  BY TimesAtLeast
<1>3. p <= q
  <2> SUFFICES ASSUME q < p PROVE FALSE
    BY <1>1, SMT
  <2> DEFINE d == p - q
             z == s * d
  <2>1. d \in Nat \ {0} /\ y = x + z
    <3>1. d \in Nat \ {0} /\ p = q + d
      BY <1>1, SMT
    <3> HIDE DEF d, q, p
    <3>2. s * p = s * q + s * d
      BY <1>1, <3>1, SMT
    <3>3. QED BY <3>1, <3>2
  <2>2. z >= s /\ z \in Int /\ x \in Int /\ y \in Int
    <3> HIDE DEF d, q, p
    <3>1. QED BY <1>1, <2>1, TimesAtLeast, SMT
  <2> HIDE DEF x, y, z, r, t
  <2>3. QED BY <1>1, <2>1, <2>2, SMT
<1>4. x \in Int /\ y \in Int
  <2> HIDE DEF q, p
  <2>1. QED BY <1>1, SMT
<1>5. /\ ts \in 0 .. b - 1
      /\ r - t >= 0 => ts = r - t
      /\ ~(r - t >= 0) => ts = (r - t) + b
  <2> HIDE DEF r, t
  <2> DEFINE d == r - t
  <2>1. /\ d \in Int /\ 0 \in Int /\ -1 \in Int /\ b \in Int
        /\ d >= 0 => d \in 0 .. b - 1 /\ d = b * 0 + d
        /\ ~(d >= 0) => d + b \in 0 .. b - 1 /\ d = b * (-1) + (d + b)
    BY <1>1, <1>2, SMT
  <2> HIDE DEF d
  <2>2. d % b \in 0 .. b - 1
    BY <2>1, QuotientRemainder
  <2>3. (d >= 0 => d % b = d) /\ (~(d >= 0) => d % b = d + b)
    BY <2>1, DivisionIsUnique
  <2>4. QED BY <2>2, <2>3 DEF d
<1>6. (ts - (a - o)) % s = 0
  <2> DEFINE j == IF r - t >= 0 THEN 0 ELSE 1
             u == s * j - (q - p)
  <2>1. j \in 0..1 /\ ts = (r - t) + b * j /\ u \in Int
    <3> HIDE DEF ts, r, t, q, p
    <3>1. j \in 0..1 /\ ts = (r - t) + b * j
      BY <1>1, <1>5, SMT
    <3> HIDE DEF j
    <3>2. u \in Int
      BY <1>1, <3>1, SMT
    <3>3. QED BY <3>1, <3>2
  <2>2. s * u = b * j - (x - y)
    <3> HIDE DEF j, q, p
    <3> DEFINE v == s * j
    <3>1. s * v = b * j /\ v \in Int
      BY <2>1, SMT
    <3> HIDE DEF v
    <3>2. s * (v - (q - p)) = s * v - (s * q - s * p)
      BY <1>1, <3>1, SMT
    <3>3. QED BY <3>1, <3>2 DEF v
  <2> DEFINE e == ts - (a - o)
             k == b * j
  <2>3. e \in Int /\ e = (k - (x - y)) + 0 /\ 0 \in 0 .. s - 1
    <3>1. k \in Int
      <4> HIDE DEF j
      <4>1. QED BY <2>1, SMT
    <3>2. ts = (r - t) + k
      BY <2>1
    <3> HIDE DEF k, ts, r, t, x, y
    <3>3. QED BY <1>1, <1>4, <3>1, <3>2, SMT
  <2>4. e = s * u + 0
    BY <2>2, <2>3
  <2> HIDE DEF e, u
  <2>5. e % s = 0
    BY <2>1, <2>3, <2>4, DivisionIsUnique
  <2>6. QED BY <2>5 DEF e
<1>7. p = q => ts = a - o
  <2> SUFFICES ASSUME p = q PROVE ts = a - o
    OBVIOUS
  <2>1. x = y
    OBVIOUS
  <2> HIDE DEF x, y, ts, r, t
  <2>2. QED BY <1>1, <1>4, <1>5, <2>1, SMT
<1>8. q = p + 1 /\ a - o < s => ts = ((a - o) - s) + b
  <2> SUFFICES ASSUME q = p + 1, a - o < s PROVE ts = ((a - o) - s) + b
    OBVIOUS
  <2>1. x = y + s
    <3> HIDE DEF p, q
    <3>1. s * (p + 1) = s * p + s
      BY <1>1, SMT
    <3>2. QED BY <3>1
  <2> HIDE DEF x, y, ts, r, t
  <2>2. QED BY <1>1, <1>4, <1>5, <2>1, SMT
<1>9. QED BY <1>1, <1>2, <1>3, <1>5, <1>6, <1>7, <1>8 DEF ClockFacts

-----------------------------------------------------------------------------
(* Events of a payload *)

LEMMA MinOfTwo ==
  ASSUME NEW a \in Int, NEW b \in Int
  PROVE  Min({a, b}) = IF a <= b THEN a ELSE b
<1> DEFINE m == IF a <= b THEN a ELSE b
           T == {a, b}
<1>1. m \in T /\ m \in Int /\ \A y \in T : y \in Int /\ m <= y
  BY SMT
<1> HIDE DEF m, T
<1>2. Min(T) \in T /\ \A y \in T : Min(T) <= y
  BY <1>1 DEF Min
<1>3. Min(T) <= m /\ m <= Min(T) /\ Min(T) \in Int
  BY <1>1, <1>2
<1>4. Min(T) = m
  BY <1>1, <1>3, SMT
<1>5. QED BY <1>4 DEF m, T

QueuedEvents == [dir : 0..1, at : Nat, data : {d \in Seq(Byte) : Len(d) <= MaxEventPayload}]

\* What enqueue_event_() copies next fits an event, and goes on where it was.
LEMMA ChunkOK ==
  ASSUME NEW data \in Seq(Byte), NEW off \in Nat, off < Len(data)
  PROVE  LET chunk == Chunk(data, off)
         IN  /\ chunk \in Seq(Byte) /\ Len(chunk) \in Nat /\ Len(chunk) <= MaxEventPayload
             /\ off + Len(chunk) <= Len(data)
             /\ SubSeq(data, 1, off) \o chunk = SubSeq(data, 1, off + Len(chunk))
<1> DEFINE L == Len(data)
           d == MaxEventPayload
           b == Min({off + d, L})
           c == Chunk(data, off)
<1>1. L \in Nat /\ d \in Nat \ {0}
  <2>1. Base * Base \in Nat
    BY BaseOK, SMT
  <2>2. d \in Nat \ {0}
    BY <2>1, TxcpAssumption, SMT
  <2>3. QED BY <2>2, LenProperties
<1>2. c = SubSeq(data, off + 1, b)
  BY DEF Chunk
<1> HIDE DEF d, c
<1>3. b = IF off + d <= L THEN off + d ELSE L
  <2> HIDE DEF L
  <2>1. off + d \in Int /\ L \in Int
    BY <1>1, SMT
  <2>2. QED BY <2>1, MinOfTwo
<1> HIDE DEF b
<1>4. /\ off + 1 \in Int /\ b \in Int /\ off + 1 <= b /\ b <= L /\ b - (off + 1) + 1 <= d
      /\ off + (b - (off + 1) + 1) = b /\ b - (off + 1) + 1 \in Nat
      /\ \A j \in (off + 1) .. b : j \in 1..L
  <2> HIDE DEF L
  <2>1. off < L
    BY DEF L
  <2>2. QED BY <1>1, <1>3, <2>1, SMT
<1>5. \A j \in (off + 1) .. b : data[j] \in Byte
  BY <1>4, ElementOfSeq
<1>6. c \in Seq(Byte) /\ Len(c) = b - (off + 1) + 1
  <2>1. /\ c \in Seq(Byte)
        /\ Len(c) = IF off + 1 <= b THEN b - (off + 1) + 1 ELSE 0
    BY <1>2, <1>4, <1>5, SubSeqProperties
  <2>2. QED BY <1>4, <2>1
<1>7. off + Len(c) = b
  BY <1>4, <1>6
<1>8. SubSeq(data, 1, off) \o SubSeq(data, off + 1, b) = SubSeq(data, 1, b)
  <2>1. b \in off .. L /\ off \in 1 - 1 .. L /\ 1 \in 1 .. L + 1
    <3> HIDE DEF L
    <3>1. QED BY <1>1, <1>4, SMT
  <2>2. QED BY <2>1, ConcatAdjacentSubSeq DEF L
<1>9. QED BY <1>2, <1>4, <1>6, <1>7, <1>8 DEF c, d, L


-----------------------------------------------------------------------------
(* The events of the file *)

\* The time stamp of what is recorded at a time, in a file opened at clock value start.
StampOf(at, start) == ((at % Capacity(4)) - start) % Capacity(8)

Stamped(p, start) ==
  [k \in DOMAIN p |-> [dir |-> p[k].dir, ts |-> StampOf(p[k].at, start), data |-> p[k].data]]

LEMMA StampedOK ==
  ASSUME NEW p \in Seq(QueuedEvents), NEW start \in Nat
  PROVE  /\ Stamped(p, start) \in Seq(StampedEvents) /\ Len(Stamped(p, start)) = Len(p)
         /\ \A k \in 1 .. Len(p) :
              Stamped(p, start)[k]
                = [dir |-> p[k].dir, ts |-> StampOf(p[k].at, start), data |-> p[k].data]
<1> DEFINE n == Len(p)
           s == Stamped(p, start)
           e(k) == [dir |-> p[k].dir, ts |-> StampOf(p[k].at, start), data |-> p[k].data]
<1>1. n \in Nat /\ DOMAIN p = 1..n /\ \A k \in 1..n : p[k] \in QueuedEvents
  BY LenProperties, ElementOfSeq
<1>2. ASSUME NEW at \in Nat PROVE StampOf(at, start) \in 0 .. Capacity(8) - 1
  <2> DEFINE c == Capacity(4)
             b == Capacity(8)
  <2>1. c \in Nat \ {0} /\ b \in Nat \ {0}
    BY FieldCapacities
  <2> HIDE DEF b, c
  <2>2. at % c \in 0 .. c - 1
    BY <2>1, QuotientRemainder
  <2>3. (at % c) - start \in Int
    BY <2>1, <2>2, SMT
  <2>4. ((at % c) - start) % b \in 0 .. b - 1
    BY <2>1, <2>3, QuotientRemainder
  <2>5. QED BY <2>4 DEF StampOf, b, c
<1>3. ASSUME NEW k \in 1..n PROVE e(k) \in StampedEvents
  <2>1. /\ p[k].dir \in 0..1 /\ p[k].at \in Nat
        /\ p[k].data \in {d \in Seq(Byte) : Len(d) <= MaxEventPayload}
    BY <1>1 DEF QueuedEvents
  <2>2. StampOf(p[k].at, start) \in 0 .. Capacity(8) - 1
    BY <1>2, <2>1
  <2>3. QED BY <2>1, <2>2 DEF StampedEvents
<1>4. s = [k \in 1..n |-> e(k)]
  BY <1>1 DEF Stamped
<1> HIDE DEF n, s, e
<1>5. s \in [1..n -> StampedEvents] /\ DOMAIN s = 1..n /\ \A k \in 1..n : s[k] = e(k)
  BY <1>3, <1>4
<1>6. s \in Seq(StampedEvents)
  BY <1>1, <1>5, SeqDef
<1>7. Len(s) = n
  BY <1>1, <1>5, <1>6, LenProperties, SameLength
<1>8. QED BY <1>5, <1>6, <1>7 DEF n, s, e

LEMMA StampedOfConcat ==
  ASSUME NEW p \in Seq(QueuedEvents), NEW q \in Seq(QueuedEvents), NEW start \in Nat
  PROVE  Stamped(p \o q, start) = Stamped(p, start) \o Stamped(q, start)
<1> DEFINE S == QueuedEvents
           T == StampedEvents
           u == p \o q
           n == Len(p)
           m == Len(q)
           s == Stamped(p, start)
           t == Stamped(q, start)
           v == Stamped(u, start)
           e(r) == [dir |-> r.dir, ts |-> StampOf(r.at, start), data |-> r.data]
<1>1. /\ u \in Seq(S) /\ Len(u) = n + m
      /\ \A i \in 1..n : u[i] = p[i]
      /\ \A i \in 1..m : u[n + i] = q[i]
  BY ConcatAt
<1>2. n \in Nat /\ m \in Nat
  BY LenProperties
<1>3. /\ s \in Seq(T) /\ Len(s) = n /\ \A k \in 1..n : s[k] = e(p[k])
      /\ t \in Seq(T) /\ Len(t) = m /\ \A k \in 1..m : t[k] = e(q[k])
  BY StampedOK
<1>4. v \in Seq(T) /\ Len(v) = n + m /\ \A k \in 1 .. n + m : v[k] = e(u[k])
  <2> HIDE DEF u, n, m
  <2>1. v \in Seq(T) /\ Len(v) = Len(u) /\ \A k \in 1 .. Len(u) : v[k] = e(u[k])
    BY <1>1, StampedOK
  <2>2. QED BY <1>1, <2>1
<1> DEFINE w == s \o t
<1> HIDE DEF S, T, u, n, m, s, t, v, e
<1>5. /\ w \in Seq(T) /\ Len(w) = n + m
      /\ \A i \in 1..n : w[i] = s[i]
      /\ \A i \in 1..m : w[n + i] = t[i]
  <2>1. /\ s \o t \in Seq(T) /\ Len(s \o t) = Len(s) + Len(t)
        /\ \A i \in 1 .. Len(s) : (s \o t)[i] = s[i]
        /\ \A i \in 1 .. Len(t) : (s \o t)[Len(s) + i] = t[i]
    <3>1. s \in Seq(T) /\ t \in Seq(T)
      BY <1>3
    <3>2. QED BY ONLY <3>1, ConcatAt
  <2>2. QED BY <1>3, <2>1
<1> HIDE DEF w
<1>6. \A k \in 1 .. n + m : k \in 1..n \/ (k - n \in 1..m /\ k = n + (k - n))
  BY <1>2, SMT
<1>7. ASSUME NEW k \in 1 .. n + m PROVE v[k] = w[k]
  <2>1. CASE k \in 1..n
    BY <1>1, <1>3, <1>4, <1>5, <2>1
  <2>2. CASE k - n \in 1..m /\ k = n + (k - n)
    <3> DEFINE j == k - n
    <3>1. j \in 1..m /\ k = n + j
      BY <2>2
    <3> HIDE DEF j
    <3>2. u[k] = q[j] /\ w[k] = t[j] /\ v[k] = e(u[k]) /\ t[j] = e(q[j])
      BY <1>1, <1>3, <1>4, <1>5, <3>1
    <3>3. QED BY <3>2
  <2>3. QED BY <1>6, <2>1, <2>2
<1>8. v = w
  BY <1>4, <1>5, <1>7, SeqEqual
<1>9. QED BY <1>8 DEF v, u, w, s, t

LEMMA RecordsOfConcat ==
  ASSUME NEW w \in Seq(StampedEvents), NEW v \in Seq(StampedEvents)
  PROVE  /\ Records(w) \in Seq(Byte) /\ Records(w \o v) = Records(w) \o Records(v)
<1> DEFINE S == StampedEvents
           T == Seq(Byte)
           u == w \o v
           n == Len(w)
           m == Len(v)
           rw == [k \in DOMAIN w |-> RecordOf(w[k])]
           rv == [k \in DOMAIN v |-> RecordOf(v[k])]
           ru == [k \in DOMAIN u |-> RecordOf(u[k])]
<1>1. /\ u \in Seq(S) /\ Len(u) = n + m
      /\ \A i \in 1..n : u[i] = w[i]
      /\ \A i \in 1..m : u[n + i] = v[i]
  BY ConcatAt
<1>2. n \in Nat /\ m \in Nat
  BY LenProperties
<1>3. /\ rw \in Seq(T) /\ Len(rw) = n /\ \A k \in 1..n : rw[k] = RecordOf(w[k])
      /\ Records(w) = FlattenSeq(rw)
      /\ rv \in Seq(T) /\ Len(rv) = m /\ \A k \in 1..m : rv[k] = RecordOf(v[k])
      /\ Records(v) = FlattenSeq(rv)
  BY RecordsOK
<1>4. /\ ru \in Seq(T) /\ Len(ru) = n + m /\ \A k \in 1 .. n + m : ru[k] = RecordOf(u[k])
      /\ Records(u) = FlattenSeq(ru)
  <2> HIDE DEF u, n, m
  <2>1. /\ ru \in Seq(T) /\ Len(ru) = Len(u) /\ \A k \in 1 .. Len(u) : ru[k] = RecordOf(u[k])
        /\ Records(u) = FlattenSeq(ru)
    BY <1>1, RecordsOK
  <2>2. QED BY <1>1, <2>1
<1> DEFINE r == rw \o rv
<1> HIDE DEF S, u, n, m, rw, rv, ru
<1>5. /\ r \in Seq(T) /\ Len(r) = n + m
      /\ \A i \in 1..n : r[i] = rw[i]
      /\ \A i \in 1..m : r[n + i] = rv[i]
  <2> HIDE DEF T
  <2>1. /\ rw \o rv \in Seq(T) /\ Len(rw \o rv) = Len(rw) + Len(rv)
        /\ \A i \in 1 .. Len(rw) : (rw \o rv)[i] = rw[i]
        /\ \A i \in 1 .. Len(rv) : (rw \o rv)[Len(rw) + i] = rv[i]
    <3>1. rw \in Seq(T) /\ rv \in Seq(T)
      BY <1>3
    <3>2. QED BY ONLY <3>1, ConcatAt
  <2>2. QED BY <1>3, <2>1
<1>6. FlattenSeq(r) = FlattenSeq(rw) \o FlattenSeq(rv) /\ FlattenSeq(rw) \in Seq(Byte)
  BY <1>3, FlattenOfConcat
<1> HIDE DEF r, T
<1>7. \A k \in 1 .. n + m : k \in 1..n \/ (k - n \in 1..m /\ k = n + (k - n))
  BY <1>2, SMT
<1>8. ASSUME NEW k \in 1 .. n + m PROVE ru[k] = r[k]
  <2>1. CASE k \in 1..n
    BY <1>1, <1>3, <1>4, <1>5, <2>1
  <2>2. CASE k - n \in 1..m /\ k = n + (k - n)
    <3> DEFINE j == k - n
    <3>1. j \in 1..m /\ k = n + j
      BY <2>2
    <3> HIDE DEF j
    <3>2. u[k] = v[j] /\ r[k] = rv[j] /\ ru[k] = RecordOf(u[k]) /\ rv[j] = RecordOf(v[j])
      BY <1>1, <1>3, <1>4, <1>5, <3>1
    <3>3. QED BY <3>2
  <2>3. QED BY <1>7, <2>1, <2>2
<1>9. ru = r
  BY <1>4, <1>5, <1>8, SeqEqual
<1>10. QED BY <1>3, <1>4, <1>6, <1>9 DEF r, u

LEMMA FlattenOfNothing == FlattenSeq(<<>>) = <<>>
<1> DEFINE S == Byte
           z == <<>>
<1>1. z \in Seq(Seq(S)) /\ Len(z) = 0
  BY EmptySeq
<1>2. PICK f \in [0 .. Len(z) -> Seq(S)] : Joins(f, z) /\ FlattenSeq(z) = f[Len(z)]
  BY <1>1, FlattenIsJoin
<1>3. QED BY <1>1, <1>2 DEF Joins

LEMMA NothingRecorded ==
  Records(<<>>) = <<>> /\ \A start : Stamped(<<>>, start) = <<>>
<1>1. DOMAIN <<>> = {}
  BY SMT
<1>2. Records(<<>>) = <<>>
  <2> DEFINE r == [k \in DOMAIN <<>> |-> RecordOf(<<>>[k])]
  <2>1. r = <<>>
    BY <1>1, SMT
  <2>2. Records(<<>>) = FlattenSeq(r)
    BY DEF Records, RecordOf
  <2> HIDE DEF r
  <2>3. QED BY <2>1, <2>2, FlattenOfNothing
<1>3. ASSUME NEW start PROVE Stamped(<<>>, start) = <<>>
  BY <1>1, SMT DEF Stamped
<1>4. QED BY <1>2, <1>3


\* The events p were queued one after the other between two times.
Timely(p, from, to) ==
  /\ \A k \in 1 .. Len(p) : from <= p[k].at /\ p[k].at <= to
  /\ \A j, k \in 1 .. Len(p) : j < k => p[j].at <= p[k].at

LEMMA TimelyGrows ==
  ASSUME NEW p \in Seq(QueuedEvents), NEW q \in Seq(QueuedEvents),
         NEW from \in Nat, NEW to \in Nat, from <= to,
         Timely(p, from, to), \A k \in 1 .. Len(q) : q[k].at = to
  PROVE  Timely(p \o q, from, to)
<1> DEFINE u == p \o q
           n == Len(p)
           m == Len(q)
<1>1. /\ u \in Seq(QueuedEvents) /\ Len(u) = n + m
      /\ \A i \in 1..n : u[i] = p[i]
      /\ \A i \in 1..m : u[n + i] = q[i]
  BY ConcatAt
<1>2. n \in Nat /\ m \in Nat
  BY LenProperties
<1>3. /\ \A k \in 1..n : from <= p[k].at /\ p[k].at <= to
      /\ \A j, k \in 1..n : j < k => p[j].at <= p[k].at
      /\ \A k \in 1..m : q[k].at = to
  BY DEF Timely
<1> HIDE DEF u, n, m
<1>4. \A k \in 1 .. n + m : k \in 1..n \/ (k - n \in 1..m /\ k = n + (k - n) /\ k > n)
  BY <1>2, SMT
<1>5. ASSUME NEW k \in 1 .. n + m, k \notin 1..n PROVE u[k].at = to
  <2> DEFINE i == k - n
  <2>1. i \in 1..m /\ k = n + i
    BY <1>4, <1>5
  <2> HIDE DEF i
  <2>2. QED BY <1>1, <1>3, <2>1
<1>6. \A k \in 1 .. n + m : from <= u[k].at /\ u[k].at <= to
  <2> SUFFICES ASSUME NEW k \in 1 .. n + m PROVE from <= u[k].at /\ u[k].at <= to
    OBVIOUS
  <2>1. CASE k \in 1..n
    BY <1>1, <1>3, <2>1
  <2>2. CASE k \notin 1..n
    <3>1. u[k].at = to /\ to <= to
      BY <1>5, <2>2
    <3>2. QED BY <3>1
  <2>3. QED BY <2>1, <2>2
<1>7. \A j, k \in 1 .. n + m : j < k => u[j].at <= u[k].at
  <2> SUFFICES ASSUME NEW j \in 1 .. n + m, NEW k \in 1 .. n + m, j < k
               PROVE  u[j].at <= u[k].at
    OBVIOUS
  <2>1. CASE k \in 1..n
    <3>1. j \in 1..n
      BY <1>2, <2>1, SMT
    <3>2. QED BY <1>1, <1>3, <2>1, <3>1
  <2>2. CASE k \notin 1..n
    <3>1. u[k].at = to
      BY <1>5, <2>2
    <3>2. u[j].at <= to
      BY <1>6
    <3>3. QED BY <3>1, <3>2
  <2>3. QED BY <2>1, <2>2
<1>8. QED BY <1>1, <1>6, <1>7 DEF Timely, u

-----------------------------------------------------------------------------
(* The inductive invariant *)

\* The bytes of the file are its header and the records of some events w, and w with
\* what still waits in the ring is what was queued, stamped.
Written(w, p) ==
  /\ file = SerializeHeader(opened.header) \o Records(w)
  /\ w \o pending = Stamped(p, startUs)

OpenedWell == /\ opened.header \in Headers /\ opened.at \in Nat /\ opened.at <= now
              /\ startUs = opened.at % Capacity(4)

CallOK == /\ call \in [dir : 0..1, data : Seq(Byte), off : Nat]
          /\ call.off <= Len(call.data)
          /\ file = <<>> => call = NoCall

TxcpInv ==
  /\ now \in Nat /\ taken \in Seq(QueuedEvents) /\ pending \in Seq(StampedEvents)
  /\ CallOK
  /\ file = <<>> => taken = <<>> /\ pending = <<>>
  /\ file # <<>> => /\ OpenedWell
                    /\ Timely(taken, opened.at, now)
                    /\ \E w \in Seq(StampedEvents) : Written(w, taken)


LEMMA StartIsNat == ASSUME OpenedWell PROVE startUs \in Nat
<1> DEFINE c == Capacity(4)
           o == opened.at
<1>1. c \in Nat \ {0} /\ o \in Nat /\ startUs = o % c
  BY FieldCapacities DEF OpenedWell
<1> HIDE DEF c, o
<1>2. o % c \in 0 .. c - 1
  BY <1>1, QuotientRemainder
<1>3. QED BY <1>1, <1>2

LEMMA NoCallOK ==
  /\ NoCall \in [dir : 0..1, data : Seq(Byte), off : Nat]
  /\ NoCall.data = <<>> /\ NoCall.off = 0 /\ Len(NoCall.data) = 0
<1>1. <<>> \in Seq(Byte) /\ Len(<<>>) = 0
  BY EmptySeq
<1>2. 0 \in 0..1 /\ 0 \in Nat
  BY SMT
<1>3. QED BY <1>1, <1>2 DEF NoCall

LEMMA InitTxcp == TxcpInit => TxcpInv
<1> SUFFICES ASSUME TxcpInit PROVE TxcpInv
  OBVIOUS
<1>1. /\ now = 0 /\ pending = <<>> /\ call = NoCall /\ file = <<>> /\ taken = <<>>
  BY DEF TxcpInit
<1>2. <<>> \in Seq(QueuedEvents) /\ <<>> \in Seq(StampedEvents)
  BY EmptySeq
<1>3. CallOK
  <2>1. 0 <= 0
    BY SMT
  <2>2. QED BY <1>1, <2>1, NoCallOK DEF CallOK
<1>4. QED BY <1>1, <1>2, <1>3 DEF TxcpInv

\* Steps that neither queue nor write.
LEMMA SameEvents ==
  ASSUME TxcpInv, UNCHANGED <<now, startUs, pending, file, opened, taken>>, CallOK'
  PROVE  TxcpInv'
<1>1. /\ now' = now /\ startUs' = startUs /\ pending' = pending
      /\ file' = file /\ opened' = opened /\ taken' = taken
  OBVIOUS
<1>2. now' \in Nat /\ taken' \in Seq(QueuedEvents) /\ pending' \in Seq(StampedEvents)
  BY <1>1 DEF TxcpInv
<1>3. CASE file = <<>>
  BY <1>1, <1>2, <1>3 DEF TxcpInv
<1>4. CASE file # <<>>
  <2>1. OpenedWell /\ Timely(taken, opened.at, now)
    BY <1>4 DEF TxcpInv
  <2>2. PICK w \in Seq(StampedEvents) : Written(w, taken)
    BY <1>4 DEF TxcpInv
  <2>3. Written(w, taken)'
    BY <1>1, <2>2 DEF Written
  <2>4. OpenedWell' /\ Timely(taken, opened.at, now)'
    BY <1>1, <2>1 DEF OpenedWell, Timely
  <2>5. file' # <<>>
    BY <1>1, <1>4
  <2>6. QED BY <1>2, <2>3, <2>4, <2>5 DEF TxcpInv
<1>5. QED BY <1>3, <1>4

LEMMA TimePassesOK == ASSUME TxcpInv, TimePasses PROVE TxcpInv'
<1>1. PICK d \in Pauses : now' = now + d
  BY DEF TimePasses
<1>2. now \in Nat /\ now' \in Nat /\ now <= now'
  <2>1. d \in Nat /\ now \in Nat
    BY TxcpAssumption DEF TxcpInv
  <2>2. QED BY <1>1, <2>1
<1>3. UNCHANGED <<startUs, pending, call, file, opened, taken>>
  BY DEF TimePasses, fileVars
<1>4. CallOK'
  BY <1>3 DEF TxcpInv, CallOK
<1>5. CASE file = <<>>
  BY <1>2, <1>3, <1>4, <1>5 DEF TxcpInv
<1>6. CASE file # <<>>
  <2>1. OpenedWell /\ Timely(taken, opened.at, now) /\ taken \in Seq(QueuedEvents)
    BY <1>6 DEF TxcpInv
  <2>2. PICK w \in Seq(StampedEvents) : Written(w, taken)
    BY <1>6 DEF TxcpInv
  <2>3. OpenedWell'
    BY <1>2, <1>3, <2>1 DEF OpenedWell
  <2>4. \A k \in 1 .. Len(taken) : taken[k].at \in Nat
    <3>1. \A k \in 1 .. Len(taken) : taken[k] \in QueuedEvents
      BY <2>1, ElementOfSeq
    <3>2. QED BY <3>1 DEF QueuedEvents
  <2>5. opened.at \in Nat
    BY <2>1 DEF OpenedWell
  <2>6. Timely(taken, opened.at, now')
    BY <1>2, <2>1, <2>4, <2>5 DEF Timely
  <2>7. Timely(taken, opened.at, now)'
    <3>1. taken' = taken /\ opened' = opened
      BY <1>3
    <3>2. QED BY <2>6, <3>1 DEF Timely
  <2>8. Written(w, taken)'
    BY <1>3, <2>2 DEF Written
  <2>9. file' # <<>>
    BY <1>3, <1>6
  <2>10. QED BY <1>2, <1>3, <1>4, <2>1, <2>3, <2>7, <2>8, <2>9 DEF TxcpInv
<1>7. QED BY <1>5, <1>6

LEMMA OpenFileOK == ASSUME TxcpInv, OpenFile PROVE TxcpInv'
<1>1. PICK name \in PanelNames, baud \in Bauds, unix \in UnixTimes \cup {0} :
        LET h == [start |-> unix, name |-> name, baud |-> baud]
        IN  file' = SerializeHeader(h) /\ opened' = [at |-> now, header |-> h]
  BY DEF OpenFile
<1> DEFINE h == [start |-> unix, name |-> name, baud |-> baud]
<1>2. file' = SerializeHeader(h) /\ opened' = [at |-> now, header |-> h]
  BY <1>1
<1>3. /\ startUs' = now % Capacity(4) /\ now' = now /\ pending' = pending /\ taken' = taken
      /\ call' = call /\ call = NoCall
      /\ taken = <<>> /\ pending = <<>> /\ now \in Nat
  BY DEF OpenFile, TxcpInv, CallOK, Micros
<1>4. h \in Headers
  <2>1. Capacity(4) \in Nat \ {0}
    BY FieldCapacities
  <2>2. 0 \in 0 .. Capacity(4) - 1
    BY <2>1
  <2>3. /\ name \in Seq(Byte) /\ baud \in 0 .. Capacity(4) - 1
        /\ unix \in 0 .. Capacity(4) - 1
    BY <2>2, TxcpAssumption
  <2>4. QED BY <2>3 DEF Headers
<1> HIDE DEF h
<1>5. opened'.header = h /\ opened'.at = now
  BY <1>2
<1>6. OpenedWell'
  <2>1. now <= now
    BY <1>3
  <2>2. QED BY <1>3, <1>4, <1>5, <2>1 DEF OpenedWell
<1>7. CallOK'
  <2>1. 0 <= 0
    BY SMT
  <2>2. QED BY <1>3, <2>1, NoCallOK DEF CallOK
<1>8. Timely(<<>>, opened'.at, now')
  <2>1. Len(<<>>) = 0 /\ \A k \in 1..0 : FALSE
    BY SMT
  <2>2. QED BY <2>1 DEF Timely
<1>9. Written(<<>>, <<>>)'
  <2>1. SerializeHeader(h) \in Seq(Byte)
    BY <1>4, HeaderLayout
  <2>2. SerializeHeader(h) \o <<>> = SerializeHeader(h)
    BY <2>1, ConcatEmptySeq
  <2>3. file' = SerializeHeader(opened'.header) \o Records(<<>>)
    BY <1>2, <1>5, <2>2, NothingRecorded
  <2>4. <<>> \in Seq(Byte)
    BY EmptySeq
  <2>5. <<>> \o <<>> = <<>>
    BY <2>4, ConcatEmptySeq
  <2>6. <<>> \o pending' = Stamped(<<>>, startUs')
    BY <1>3, <2>5, NothingRecorded
  <2>7. QED BY <2>3, <2>6 DEF Written
<1>10. /\ taken' \in Seq(QueuedEvents) /\ pending' \in Seq(StampedEvents)
       /\ <<>> \in Seq(StampedEvents) /\ now' \in Nat /\ taken' = <<>>
  BY <1>3, EmptySeq
<1>11. \E w \in Seq(StampedEvents) : Written(w, taken)'
  <2>1. Written(<<>>, taken)'
    BY <1>9, <1>10 DEF Written
  <2>2. QED BY <1>10, <2>1
<1>12. Timely(taken, opened.at, now)'
  BY <1>8, <1>10 DEF Timely
<1>13. QED BY <1>3, <1>6, <1>7, <1>10, <1>11, <1>12 DEF TxcpInv

LEMMA RecordActionOK == ASSUME TxcpInv, Record PROVE TxcpInv'
<1>1. PICK dir \in 0..1, data \in Payloads : call' = [dir |-> dir, data |-> data, off |-> 0]
  BY DEF Record
<1>2. file # <<>> /\ UNCHANGED <<now, startUs, pending, file, opened, taken>>
  BY DEF Record, clockVars, fileVars
<1>3. data \in Seq(Byte) /\ 0 <= Len(data)
  <2>1. data \in Seq(Byte)
    BY TxcpAssumption
  <2>2. Len(data) \in Nat
    BY <2>1, LenProperties
  <2>3. QED BY <2>1, <2>2
<1>4. CallOK'
  BY <1>1, <1>2, <1>3 DEF CallOK
<1>5. QED BY <1>2, <1>4, SameEvents

LEMMA ReturnOK ==
  ASSUME TxcpInv, Return
  PROVE  TxcpInv'
<1>1. call' = NoCall /\ UNCHANGED <<now, startUs, pending, file, opened, taken>>
  BY DEF Return, clockVars, fileVars
<1>2. CallOK'
  <2>1. 0 <= 0
    BY SMT
  <2>2. QED BY <1>1, <2>1, NoCallOK DEF CallOK
<1>3. QED BY <1>1, <1>2, SameEvents

LEMMA StampedAssociate ==
  ASSUME NEW a \in Seq(StampedEvents), NEW b \in Seq(StampedEvents),
         NEW c \in Seq(StampedEvents)
  PROVE  (a \o b) \o c = a \o (b \o c)
BY ConcatAssociative

\* The state in which an event is queued: its payload is not at its end, a file is open.
LEMMA MoreToQueue ==
  ASSUME TxcpInv, call.off < Len(call.data)
  PROVE  /\ file # <<>> /\ call.dir \in 0..1 /\ call.data \in Seq(Byte) /\ call.off \in Nat
         /\ call = [dir |-> call.dir, data |-> call.data, off |-> call.off]
<1>1. /\ call \in [dir : 0..1, data : Seq(Byte), off : Nat]
      /\ file = <<>> => call = NoCall
  BY DEF TxcpInv, CallOK
<1>2. call # NoCall
  <2>1. ~(0 < 0)
    BY SMT
  <2>2. QED BY <2>1, NoCallOK
<1>3. QED BY <1>1, <1>2

LEMMA QueueChunkOK == ASSUME TxcpInv, QueueChunk PROVE TxcpInv'
<1> DEFINE chunk == Chunk(call.data, call.off)
           e == [dir |-> call.dir, at |-> now, data |-> chunk]
           f == [dir |-> call.dir, ts |-> TimeStamp, data |-> chunk]
           p == taken
           q == <<e>>
           x == Stamped(q, startUs)
<1>1. /\ pending' = Append(pending, f) /\ taken' = Append(taken, e)
      /\ call' = [call EXCEPT !.off = @ + Len(chunk)]
      /\ call.off < Len(call.data)
      /\ UNCHANGED <<now, startUs, file, opened>>
  BY DEF QueueChunk, clockVars, fileVars
<1>2. /\ file # <<>> /\ call.dir \in 0..1 /\ call.data \in Seq(Byte) /\ call.off \in Nat
      /\ call = [dir |-> call.dir, data |-> call.data, off |-> call.off]
  BY <1>1, MoreToQueue
<1>3. /\ chunk \in Seq(Byte) /\ Len(chunk) \in Nat /\ Len(chunk) <= MaxEventPayload
      /\ call.off + Len(chunk) <= Len(call.data)
  BY <1>1, <1>2, ChunkOK
<1>4. /\ now \in Nat /\ p \in Seq(QueuedEvents) /\ pending \in Seq(StampedEvents)
      /\ OpenedWell /\ Timely(p, opened.at, now) /\ startUs \in Nat
  BY <1>2, StartIsNat DEF TxcpInv
<1>5. PICK w \in Seq(StampedEvents) : Written(w, p)
  BY <1>2 DEF TxcpInv
<1> HIDE DEF chunk
<1>6. CallOK'
  <2>1. call' = [dir |-> call.dir, data |-> call.data, off |-> call.off + Len(chunk)]
    BY <1>1, <1>2
  <2>2. call.off + Len(chunk) \in Nat
    BY <1>2, <1>3
  <2>3. QED BY <1>1, <1>2, <1>3, <2>1, <2>2 DEF CallOK
<1>7. e \in QueuedEvents
  BY <1>2, <1>3, <1>4 DEF QueuedEvents
<1>8. f = [dir |-> e.dir, ts |-> StampOf(e.at, startUs), data |-> e.data]
  BY DEF TimeStamp, StampOf, Micros
<1>9. e.at = now
  OBVIOUS
<1> HIDE DEF e, f
<1>10. q \in Seq(QueuedEvents) /\ Len(q) = 1 /\ q[1] = e
  BY <1>7, SMT
<1> HIDE DEF q
<1>11. \A k \in 1 .. Len(q) : q[k].at = now
  <2>1. \A k \in 1..1 : k = 1
    BY SMT
  <2>2. QED BY <1>9, <1>10, <2>1
<1>12. x \in Seq(StampedEvents) /\ x = <<f>> /\ f \in StampedEvents
  <2>1. /\ x \in Seq(StampedEvents) /\ Len(x) = 1
        /\ \A k \in 1..1 :
             x[k] = [dir |-> q[k].dir, ts |-> StampOf(q[k].at, startUs), data |-> q[k].data]
    BY <1>4, <1>10, StampedOK
  <2>2. 1 \in 1..1
    BY SMT
  <2>3. x[1] = [dir |-> q[1].dir, ts |-> StampOf(q[1].at, startUs), data |-> q[1].data]
    BY <2>1, <2>2
  <2> HIDE DEF x
  <2>4. x[1] = f
    BY <1>8, <1>10, <2>3
  <2>5. f \in StampedEvents
    BY <2>1, <2>2, <2>4, ElementOfSeq
  <2>6. <<f>> \in Seq(StampedEvents) /\ Len(<<f>>) = 1 /\ \A k \in 1..1 : <<f>>[k] = f /\ k = 1
    BY <2>5, SMT
  <2>7. x = <<f>>
    BY <2>1, <2>4, <2>6, SeqEqual
  <2>8. QED BY <2>1, <2>5, <2>7
<1>13. pending' = pending \o x /\ pending' \in Seq(StampedEvents)
  <2>1. Append(pending, f) = pending \o <<f>>
    BY <1>4, <1>12, AppendIsConcat
  <2>2. Append(pending, f) \in Seq(StampedEvents)
    BY <1>4, <1>12, AppendProperties
  <2>3. QED BY <1>1, <1>12, <2>1, <2>2
<1>14. taken' = p \o q /\ taken' \in Seq(QueuedEvents)
  <2>1. Append(taken, e) = taken \o <<e>>
    BY <1>4, <1>7, AppendIsConcat
  <2>2. Append(taken, e) \in Seq(QueuedEvents)
    BY <1>4, <1>7, AppendProperties
  <2>3. QED BY <1>1, <2>1, <2>2 DEF q
<1> HIDE DEF p, x
<1>15. Timely(p \o q, opened.at, now)
  BY <1>4, <1>10, <1>11, TimelyGrows DEF OpenedWell
<1>16. w \o pending' = Stamped(p \o q, startUs)
  <2>1. w \o (pending \o x) = (w \o pending) \o x
    BY <1>4, <1>12, StampedAssociate
  <2>2. w \o pending = Stamped(p, startUs)
    BY <1>5 DEF Written
  <2>3. Stamped(p \o q, startUs) = Stamped(p, startUs) \o x
    BY <1>4, <1>10, StampedOfConcat DEF x
  <2>4. QED BY <1>13, <2>1, <2>2, <2>3
<1>17. Written(w, taken)'
  <2>1. file = SerializeHeader(opened.header) \o Records(w)
    BY <1>5 DEF Written
  <2>2. file' = SerializeHeader(opened'.header) \o Records(w)
    BY <1>1, <2>1
  <2>3. w \o pending' = Stamped(taken', startUs')
    BY <1>1, <1>14, <1>16
  <2>4. QED BY <2>2, <2>3 DEF Written
<1>18. Timely(taken, opened.at, now)'
  <2>1. Timely(taken', opened'.at, now')
    BY <1>1, <1>14, <1>15
  <2>2. QED BY <2>1 DEF Timely
<1>19. OpenedWell'
  BY <1>1, <1>4 DEF OpenedWell
<1>20. file' # <<>> /\ now' \in Nat
  BY <1>1, <1>2, <1>4
<1>21. QED BY <1>6, <1>13, <1>14, <1>17, <1>18, <1>19, <1>20 DEF TxcpInv

LEMMA FlushRingOK == ASSUME TxcpInv, FlushRing PROVE TxcpInv'
<1> DEFINE p == taken
           hdr == SerializeHeader(opened.header)
<1>1. /\ pending # <<>> /\ file' = file \o Records(pending) /\ pending' = <<>>
      /\ call = NoCall /\ UNCHANGED <<now, startUs, call, opened, taken>>
  BY DEF FlushRing, clockVars
<1>2. /\ now \in Nat /\ p \in Seq(QueuedEvents) /\ pending \in Seq(StampedEvents)
      /\ file # <<>> /\ OpenedWell /\ Timely(p, opened.at, now)
  BY <1>1 DEF TxcpInv
<1>3. PICK w \in Seq(StampedEvents) : Written(w, p)
  BY <1>2 DEF TxcpInv
<1> DEFINE v == w \o pending
<1>4. /\ v \in Seq(StampedEvents) /\ v # <<>>
      /\ Records(w) \in Seq(Byte) /\ Records(pending) \in Seq(Byte) /\ Records(v) \in Seq(Byte)
      /\ Records(v) = Records(w) \o Records(pending)
  <2>1. v \in Seq(StampedEvents) /\ v # <<>>
    BY <1>1, <1>2, ConcatProperties, ConcatEqualIffEmpty
  <2> HIDE DEF v
  <2>2. Records(w) \in Seq(Byte) /\ Records(pending) \in Seq(Byte) /\ Records(v) \in Seq(Byte)
    BY <1>2, <2>1, RecordsOfConcat
  <2>3. Records(v) = Records(w) \o Records(pending)
    BY <1>2, RecordsOfConcat DEF v
  <2>4. QED BY <2>1, <2>2, <2>3
<1>5. hdr \in Seq(Byte) /\ hdr # <<>>
  <2>1. hdr \in Seq(Byte) /\ Len(hdr) = kCaptureHeaderSize
    BY <1>2, HeaderLayout DEF OpenedWell
  <2>2. kCaptureHeaderSize # 0
    BY TxcpAssumption DEF kCaptureHeaderSize
  <2>3. Len(<<>>) = 0
    BY EmptySeq
  <2>4. QED BY <2>1, <2>2, <2>3
<1>6. file' = hdr \o Records(v)
  <2>1. file = hdr \o Records(w)
    BY <1>3 DEF Written
  <2>2. (hdr \o Records(w)) \o Records(pending) = hdr \o (Records(w) \o Records(pending))
    BY <1>4, <1>5, BytesAssociate
  <2>3. QED BY <1>1, <1>4, <2>1, <2>2
<1>7. file' # <<>>
  <2> DEFINE r == Records(v)
  <2>1. r \in Seq(Byte) /\ file' = hdr \o r
    BY <1>4, <1>6
  <2> HIDE DEF r, hdr
  <2>2. QED BY <1>5, <2>1, ConcatEqualIffEmpty
<1>8. v \o pending' = Stamped(p, startUs)
  <2>1. v = Stamped(p, startUs)
    BY <1>3 DEF Written
  <2> HIDE DEF v
  <2>2. v \o <<>> = v
    BY <1>4, ConcatEmptySeq
  <2>3. QED BY <1>1, <2>1, <2>2
<1>9. \E y \in Seq(StampedEvents) : Written(y, taken)'
  <2>1. taken' = p /\ file' = SerializeHeader(opened'.header) \o Records(v)
    BY <1>1, <1>6
  <2>2. v \o pending' = Stamped(taken', startUs')
    BY <1>1, <1>8, <2>1
  <2>3. PICK y \in Seq(StampedEvents) : y = v
    BY <1>4
  <2> HIDE DEF v
  <2>4. Written(y, taken)'
    BY <2>1, <2>2, <2>3 DEF Written
  <2>5. QED BY <2>4
<1>10. Timely(taken, opened.at, now)'
  <2>1. Timely(taken', opened'.at, now')
    BY <1>1, <1>2
  <2>2. QED BY <2>1 DEF Timely
<1>11. OpenedWell'
  BY <1>1, <1>2 DEF OpenedWell
<1>12. now' \in Nat /\ taken' \in Seq(QueuedEvents) /\ pending' \in Seq(StampedEvents)
  BY <1>1, <1>2, EmptySeq
<1>13. CallOK'
  <2>1. call' = NoCall /\ 0 <= 0
    BY <1>1, SMT
  <2>2. QED BY <2>1, NoCallOK DEF CallOK
<1>14. QED BY <1>7, <1>9, <1>10, <1>11, <1>12, <1>13 DEF TxcpInv

\* What every state of a session satisfies: the file is its header and whole records, no
\* event queued is lost between the ring and the file, and each is stamped with its time.
THEOREM TxcpInvariant == TxcpSpec => []TxcpInv
<1>1. ASSUME TxcpInv, UNCHANGED txcpVars PROVE TxcpInv'
  <2>1. UNCHANGED <<now, startUs, pending, file, opened, taken>> /\ call' = call
    BY <1>1 DEF txcpVars
  <2>2. CallOK'
    BY <1>1, <2>1 DEF TxcpInv, CallOK
  <2>3. QED BY <1>1, <2>1, <2>2, SameEvents
<1>2. ASSUME TxcpInv, [TxcpNext]_txcpVars PROVE TxcpInv'
  <2>1. CASE TimePasses BY <1>2, <2>1, TimePassesOK
  <2>2. CASE OpenFile BY <1>2, <2>2, OpenFileOK
  <2>3. CASE Record BY <1>2, <2>3, RecordActionOK
  <2>4. CASE QueueChunk BY <1>2, <2>4, QueueChunkOK
  <2>5. CASE PayloadQueued BY <1>2, <2>5, ReturnOK DEF PayloadQueued
  <2>6. CASE RingFull BY <1>2, <2>6, ReturnOK DEF RingFull
  <2>7. CASE FlushRing BY <1>2, <2>7, FlushRingOK
  <2>8. CASE UNCHANGED txcpVars BY <1>2, <2>8, <1>1
  <2>9. QED BY <1>2, <2>1, <2>2, <2>3, <2>4, <2>5, <2>6, <2>7, <2>8 DEF TxcpNext
<1>3. QED BY InitTxcp, <1>2, PTL DEF TxcpSpec

-----------------------------------------------------------------------------
(* What a reader gets *)

\* The file begins with its header, whatever was flushed behind it.
LEMMA FileBegins ==
  ASSUME TxcpInv, file # <<>>
  PROVE  /\ file \in Seq(Byte) /\ Len(file) >= kCaptureHeaderSize
         /\ Has(file, 0, SerializeHeader(opened.header))
<1> DEFINE hdr == SerializeHeader(opened.header)
<1>1. PICK w \in Seq(StampedEvents) : Written(w, taken)
  BY DEF TxcpInv
<1> DEFINE r == Records(w)
<1>2. /\ hdr \in Seq(Byte) /\ Len(hdr) = kCaptureHeaderSize /\ r \in Seq(Byte)
      /\ file = hdr \o r
  <2>1. opened.header \in Headers
    BY DEF TxcpInv, OpenedWell
  <2>2. r \in Seq(Byte)
    BY RecordsOfConcat
  <2>3. hdr \in Seq(Byte) /\ Len(hdr) = kCaptureHeaderSize
    BY <2>1, HeaderLayout
  <2>4. QED BY <1>1, <2>2, <2>3 DEF Written
<1> HIDE DEF hdr, r
<1>3. file \in Seq(Byte) /\ Len(file) = Len(hdr) + Len(r) /\ \A i \in 1 .. Len(hdr) : file[i] = hdr[i]
  BY <1>2, ConcatAt
<1>4. Len(hdr) \in Nat /\ Len(r) \in Nat
  BY <1>2, LenProperties
<1>5. Has(file, 0, hdr)
  <2>1. \A i \in 1 .. Len(hdr) : 0 + i = i
    BY <1>4
  <2>2. QED BY <1>3, <2>1 DEF Has
<1>6. QED BY <1>2, <1>3, <1>4, <1>5 DEF hdr

\* capture.cpp's parse_header gives back from any state of a file what serialize_header
\* was given when on_session_start() opened it: start time, panel name cut to the field, baud
\* rate, in the fixed number of bytes - for every base, field length and configuration.
THEOREM HeaderCorrect == TxcpSpec => []HeaderReadsBack
<1>1. TxcpInv => HeaderReadsBack
  <2> SUFFICES ASSUME TxcpInv, file # <<>>
               PROVE  LET h == opened.header
                      IN  /\ Len(SerializeHeader(h)) = kCaptureHeaderSize
                          /\ ParseHeader(file) = [ok |-> TRUE, start |-> h.start,
                                                  name |-> PanelName(h.name), baud |-> h.baud]
    BY DEF HeaderReadsBack
  <2>1. opened.header \in Headers
    BY DEF TxcpInv, OpenedWell
  <2>2. QED BY <2>1, FileBegins, HeaderLayout, HeaderParses
<1>2. QED BY <1>1, TxcpInvariant, PTL

\* A reader of any prefix gets, of the events taken, those that end within it.
LEMMA FileReads ==
  ASSUME TxcpInv, file # <<>>, NEW cut \in kCaptureHeaderSize .. Len(file)
  PROVE  LET s == Stamped(taken, startUs)
         IN  \E c \in 0 .. Len(taken) :
               /\ ParsedFrom(SubSeq(file, 1, cut)) = ReadUpTo(s, c)
               /\ \A k \in 1 .. Len(taken) : k <= c <=> EndsOf(taken)[k] <= cut
               /\ cut = Len(file) /\ pending = <<>> => c = Len(taken)
<1> DEFINE p == taken
           s == Stamped(p, startUs)
           n == Len(p)
           E == EndsOf(p)
           hdr == SerializeHeader(opened.header)
<1>1. taken = p
  OBVIOUS
<1>2. PICK w \in Seq(StampedEvents) : Written(w, p)
  BY DEF TxcpInv
<1>3. OpenedWell /\ p \in Seq(QueuedEvents) /\ pending \in Seq(StampedEvents) /\ startUs \in Nat
  BY StartIsNat DEF TxcpInv
<1> DEFINE m == Len(w)
<1>4. n \in Nat /\ m \in Nat /\ Len(pending) \in Nat
  BY <1>3, LenProperties
<1>5. s = w \o pending /\ file = hdr \o Records(w)
  BY <1>2 DEF Written
<1>6. hdr \in Seq(Byte) /\ Len(hdr) = kCaptureHeaderSize
  BY <1>3, HeaderLayout DEF OpenedWell
<1> HIDE DEF p, hdr
<1>7. /\ s \in Seq(StampedEvents) /\ Len(s) = n
      /\ \A k \in 1..n : s[k].data = p[k].data
  <2>1. /\ s \in Seq(StampedEvents) /\ Len(s) = n
        /\ \A k \in 1..n :
             s[k] = [dir |-> p[k].dir, ts |-> StampOf(p[k].at, startUs), data |-> p[k].data]
    BY <1>3, StampedOK
  <2> HIDE DEF s, n
  <2>2. QED BY <2>1
<1>8. n = m + Len(pending) /\ \A k \in 1..m : s[k] = w[k]
  <2>1. /\ Len(w \o pending) = Len(w) + Len(pending)
        /\ \A k \in 1 .. Len(w) : (w \o pending)[k] = w[k]
    BY <1>3, ConcatAt
  <2>2. QED BY <1>5, <1>7, <2>1
<1> HIDE DEF s
<1>9. E \in [0..n -> Nat] /\ Runs(E, p)
  <2>1. \A k \in 1..n : Len(p[k].data) \in Nat
    <3>1. \A k \in 1..n : p[k] \in QueuedEvents
      BY <1>3, ElementOfSeq
    <3>2. \A k \in 1..n : p[k].data \in Seq(Byte)
      BY <3>1 DEF QueuedEvents
    <3>3. QED BY <3>2, LenProperties
  <2> HIDE DEF n
  <2>2. QED BY <1>4, <2>1, EndsOfRuns DEF n
<1> DEFINE F == [k \in 0..m |-> E[k]]
<1> HIDE DEF n, m, E
<1>10. Runs(E, s)
  <2>1. Len(p) = n /\ E[0] = kCaptureHeaderSize /\ \A k \in 1..n : E[k] = E[k-1] + SizeOf(p[k])
    BY <1>9 DEF Runs, n
  <2>2. \A k \in 1..n : SizeOf(s[k]) = SizeOf(p[k])
    BY <1>7 DEF SizeOf
  <2>3. QED BY <1>7, <2>1, <2>2 DEF Runs
<1>11. /\ m \in 0..n /\ 0 \in 0..m /\ \A k \in 1..m : k \in 0..m /\ k - 1 \in 0..m /\ k \in 1..n
       /\ m \in 0..m /\ \A k \in 0..m : k \in 0..n
  BY <1>4, <1>8, SMT
<1>12. F \in [0..m -> Nat] /\ \A k \in 0..m : F[k] = E[k]
  BY <1>9, <1>11
<1> HIDE DEF F
<1>13. Runs(F, w) /\ Len(w) = m
  <2>1. E[0] = kCaptureHeaderSize /\ \A k \in 1..n : E[k] = E[k-1] + SizeOf(s[k])
    BY <1>7, <1>10 DEF Runs
  <2>2. F[0] = kCaptureHeaderSize
    BY <1>11, <1>12, <2>1
  <2>3. ASSUME NEW k \in 1..m PROVE F[k] = F[k-1] + SizeOf(w[k])
    <3>1. F[k] = E[k] /\ F[k-1] = E[k-1] /\ s[k] = w[k]
      BY <1>8, <1>11, <1>12
    <3>2. E[k] = E[k-1] + SizeOf(s[k])
      BY <1>11, <2>1
    <3>3. QED BY <3>1, <3>2
  <2>4. QED BY <2>2, <2>3 DEF Runs, m
<1>14. /\ file \in Seq(Byte) /\ Len(file) = F[m]
       /\ \A k \in 1..m : Has(file, F[k-1], RecordOf(w[k]))
  BY <1>4, <1>5, <1>6, <1>12, <1>13, RecordsLayout
<1>15. Len(file) = E[m] /\ \A k \in 1..m : Has(file, E[k-1], RecordOf(s[k]))
  BY <1>8, <1>11, <1>12, <1>14
<1>16. \E c \in 0..m : /\ ParsedFrom(SubSeq(file, 1, cut)) = ReadUpTo(s, c)
                       /\ \A k \in 1..n : k <= c <=> E[k] <= cut
                       /\ cut = Len(file) => c = m
  <2>1. HoldsRecords(s, n, E, m, file)
    BY <1>4, <1>7, <1>9, <1>10, <1>11, <1>14, <1>15 DEF HoldsRecords
  <2>2. \E c \in 0..m : /\ ParsedFrom(SubSeq(file, 1, cut)) = ReadUpTo(s, c)
                        /\ \A k \in 1..n : k <= c <=> E[k] <= cut
                        /\ cut = Len(file) => c = m
    BY <2>1, ReadsBack
  <2>3. QED BY <2>2
<1>17. \A c \in 0..m : c \in 0..n
  BY <1>11
<1>18. pending = <<>> => m = n
  <2>1. Len(<<>>) = 0
    BY EmptySeq
  <2>2. QED BY <1>4, <1>8, <2>1
<1>19. \E c \in 0..n : /\ ParsedFrom(SubSeq(file, 1, cut)) = ReadUpTo(s, c)
                       /\ \A k \in 1..n : k <= c <=> E[k] <= cut
                       /\ cut = Len(file) /\ pending = <<>> => c = n
  BY <1>16, <1>17, <1>18
<1>20. QED BY <1>1, <1>19 DEF s, n, E

LEMMA EmptyFileIsShort == file = <<>> => Len(file) = 0 /\ kCaptureHeaderSize > 0
<1>1. Len(<<>>) = 0
  BY EmptySeq
<1>2. kCaptureHeaderSize > 0
  BY TxcpAssumption DEF kCaptureHeaderSize
<1>3. QED BY <1>1, <1>2

\* The reader's loop over parse_event ("records parsed linearly") gets from every prefix of
\* a file, at every moment of a session, exactly the events that end within it, with the
\* direction and the bytes that were queued: what enqueue_event_() and flush_ring_() wrote
\* cannot be misread, and a break in the middle of a record costs only that record.
THEOREM PrefixCorrect == TxcpSpec => []PrefixParses
<1>1. TxcpInv => PrefixParses
  <2> SUFFICES ASSUME TxcpInv, NEW cut \in kCaptureHeaderSize .. Len(file)
               PROVE  LET events == ParsedFrom(SubSeq(file, 1, cut))
                      IN  /\ DOMAIN events = {k \in DOMAIN taken : EndsOf(taken)[k] <= cut}
                          /\ \A k \in DOMAIN events : /\ events[k].dir = taken[k].dir
                                                      /\ events[k].data = taken[k].data
    BY DEF PrefixParses
  <2> DEFINE p == taken
             s == Stamped(p, startUs)
             n == Len(p)
             events == ParsedFrom(SubSeq(file, 1, cut))
  <2>1. file # <<>>
    <3>1. kCaptureHeaderSize <= cut /\ cut <= Len(file) /\ cut \in Int
      BY HeaderSizeIsNat
    <3>2. file = <<>> => cut <= 0
      BY <3>1, EmptyFileIsShort
    <3>3. ~(kCaptureHeaderSize <= 0) /\ kCaptureHeaderSize \in Int
      BY TxcpAssumption DEF kCaptureHeaderSize
    <3>4. QED BY <3>1, <3>2, <3>3
  <2>2. PICK c \in 0..n : /\ events = ReadUpTo(s, c)
                          /\ \A k \in 1..n : k <= c <=> EndsOf(p)[k] <= cut
    BY <2>1, FileReads
  <2>3. p \in Seq(QueuedEvents) /\ startUs \in Nat
    BY <2>1, StartIsNat DEF TxcpInv
  <2> HIDE DEF p, events
  <2>4. /\ n \in Nat /\ DOMAIN p = 1..n
        /\ \A k \in 1..n : s[k].dir = p[k].dir /\ s[k].data = p[k].data
    <3>1. n \in Nat /\ DOMAIN p = 1..n
      BY <2>3, LenProperties
    <3>2. \A k \in 1..n :
            s[k] = [dir |-> p[k].dir, ts |-> StampOf(p[k].at, startUs), data |-> p[k].data]
      BY <2>3, StampedOK
    <3> HIDE DEF s, n
    <3>3. ASSUME NEW k \in 1..n PROVE s[k].dir = p[k].dir /\ s[k].data = p[k].data
      <4>1. s[k] = [dir |-> p[k].dir, ts |-> StampOf(p[k].at, startUs), data |-> p[k].data]
        BY <3>2
      <4>2. QED BY <4>1
    <3>4. QED BY <3>1, <3>3
  <2> HIDE DEF n, s
  <2>5. DOMAIN events = 1..c /\ \A k \in 1..c : events[k] = Read(s[k])
    BY <2>2 DEF ReadUpTo
  <2>6. \A k : k \in 1..c <=> k \in 1..n /\ k <= c
    BY <2>4
  <2>7. DOMAIN events = {k \in DOMAIN p : EndsOf(p)[k] <= cut}
    BY <2>2, <2>4, <2>5, <2>6
  <2>8. ASSUME NEW k \in DOMAIN events
        PROVE  events[k].dir = p[k].dir /\ events[k].data = p[k].data
    <3>1. k \in 1..n /\ events[k] = Read(s[k])
      BY <2>5, <2>6
    <3>2. QED BY <2>4, <3>1 DEF Read
  <2>9. QED BY <2>7, <2>8 DEF p, events
<1>2. QED BY <1>1, TxcpInvariant, PTL

\* Two readings of the clock after the file was opened, less than a turn of it ago.
LEMMA ClockOrder ==
  ASSUME NEW s \in Nat \ {0}, NEW b \in Nat \ {0}, b = s * s,
         NEW o \in Nat, NEW a \in Nat, NEW c \in Nat, o <= a, a <= c, c - o < s
  PROVE  ((a % s) - (o % s)) % b <= ((c % s) - (o % s)) % b
<1> DEFINE p == o \div s
           q == a \div s
           r == c \div s
           ta == ((a % s) - (o % s)) % b
           tc == ((c % s) - (o % s)) % b
<1>1. /\ ta \in 0 .. b - 1 /\ p \in Int /\ q \in Int /\ p <= q
      /\ p = q => ta = a - o
      /\ q = p + 1 /\ a - o < s => ta = ((a - o) - s) + b
      /\ b >= s
  <2>1. ClockFacts(s, b, o, a)
    BY ClockDifference
  <2>2. QED BY <2>1 DEF ClockFacts
<1>2. /\ tc \in 0 .. b - 1 /\ r \in Int
      /\ p = r => tc = c - o
      /\ r = p + 1 /\ c - o < s => tc = ((c - o) - s) + b
  <2>1. o <= c
    BY SMT
  <2>2. ClockFacts(s, b, o, c)
    BY <2>1, ClockDifference
  <2>3. QED BY <2>2 DEF ClockFacts
<1>3. q <= r
  <2>1. ClockFacts(s, b, a, c)
    BY ClockDifference
  <2>2. QED BY <2>1 DEF ClockFacts
<1>4. r <= p + 1
  <2> DEFINE d == o + s
             t == o % s
  <2>1. d \in Nat /\ c <= d
    BY SMT
  <2>2. t \in 0 .. s - 1 /\ o = s * p + t
    BY QuotientRemainder
  <2>3. d = s * (p + 1) + t /\ p + 1 \in Int /\ d \in Int
    <3> HIDE DEF p, t
    <3>1. s * (p + 1) = s * p + s
      BY <1>1, SMT
    <3>2. s * p \in Int
      BY <1>1, SMT
    <3> DEFINE x == s * p
    <3>3. x \in Int /\ o = x + t /\ s * (p + 1) = x + s
      BY <2>2, <3>1, <3>2
    <3> HIDE DEF x
    <3>4. QED BY <1>1, <2>2, <3>3, SMT
  <2> HIDE DEF d, t, p
  <2>4. d \div s = p + 1
    BY <2>2, <2>3, DivisionIsUnique
  <2>5. r <= d \div s
    <3>1. ClockFacts(s, b, c, d)
      BY <2>1, ClockDifference
    <3>2. QED BY <3>1 DEF ClockFacts, r
  <2>6. QED BY <2>4, <2>5
<1> HIDE DEF p, q, r, ta, tc
<1>5. ta <= tc
  BY <1>1, <1>2, <1>3, <1>4, SMT
<1>6. QED BY <1>5 DEF ta, tc

\* What the stamps of a file are computed from.
LEMMA StampsAre ==
  ASSUME TxcpInv
  PROVE  \E c \in Nat :
           /\ DOMAIN Stamps = 1..c
           /\ \A k \in 1..c :
                /\ Stamps[k] = [ts |-> StampOf(taken[k].at, opened.at % Capacity(4)),
                                at |-> taken[k].at, elapsed |-> taken[k].at - opened.at]
                /\ taken[k].at \in Nat /\ opened.at \in Nat /\ opened.at <= taken[k].at
           /\ \A j, k \in 1..c : j < k => taken[j].at <= taken[k].at
<1> DEFINE p == taken
           events == ParsedFrom(file)
<1>1. Stamps = [k \in DOMAIN events |-> [ts |-> events[k].ts, at |-> p[k].at,
                                        elapsed |-> p[k].at - opened.at]]
  BY DEF Stamps
<1>2. CASE file = <<>>
  <2>1. events = <<>>
    <3> DEFINE z == LoopAt(kCaptureHeaderSize, <<>>)
               f == [k \in 0..0 |-> z]
    <3>1. Len(<<>>) \div kCaptureEventFixedSize = 0
      <4>1. Len(<<>>) = 0
        BY EmptySeq
      <4>2. QED BY <4>1, SMT DEF kCaptureEventFixedSize
    <3>2. f[0] = z /\ \A k \in 1..0 : FALSE
      BY SMT
    <3> HIDE DEF f
    <3>3. ParsedFrom(<<>>) = f[0].events
      BY <3>1, <3>2, LoopRuns
    <3>4. QED BY <1>2, <3>2, <3>3 DEF LoopAt
  <2>2. DOMAIN events = 1..0 /\ \A k \in 1..0 : FALSE
    BY <2>1, SMT
  <2> HIDE DEF events, p
  <2>3. DOMAIN Stamps = 1..0
    BY <1>1, <2>2
  <2>4. QED BY <2>2, <2>3
<1>3. CASE file # <<>>
  <2> DEFINE s == Stamped(p, startUs)
             n == Len(p)
  <2>1. file \in Seq(Byte) /\ Len(file) \in kCaptureHeaderSize .. Len(file)
    <3>1. file \in Seq(Byte) /\ Len(file) >= kCaptureHeaderSize
      BY <1>3, FileBegins
    <3>2. Len(file) \in Nat
      BY <3>1, LenProperties
    <3>3. QED BY <3>1, <3>2, HeaderSizeIsNat
  <2>2. SubSeq(file, 1, Len(file)) = file
    BY <2>1, SubSeqFull
  <2>3. PICK c \in 0..n : ParsedFrom(SubSeq(file, 1, Len(file))) = ReadUpTo(s, c)
    BY <1>3, <2>1, FileReads
  <2>4. p = taken
    OBVIOUS
  <2>5. /\ p \in Seq(QueuedEvents) /\ startUs \in Nat /\ opened.at \in Nat
        /\ startUs = opened.at % Capacity(4)
        /\ Timely(p, opened.at, now)
    BY <1>3, <2>4, StartIsNat DEF TxcpInv, OpenedWell
  <2>6. events = ReadUpTo(s, c)
    BY <2>2, <2>3
  <2> HIDE DEF p, events
  <2>7. n \in Nat /\ \A k \in 1..n : p[k] \in QueuedEvents
    BY <2>5, LenProperties, ElementOfSeq
  <2>8. \A k \in 1..n :
          s[k] = [dir |-> p[k].dir, ts |-> StampOf(p[k].at, startUs), data |-> p[k].data]
    BY <2>5, StampedOK
  <2> HIDE DEF s
  <2>9. /\ \A k \in 1..n : opened.at <= p[k].at
        /\ \A j, k \in 1..n : j < k => p[j].at <= p[k].at
    BY <2>5 DEF Timely
  <2> HIDE DEF n
  <2>10. c \in Nat /\ \A k \in 1..c : k \in 1..n
    BY <2>7, SMT
  <2>11. DOMAIN events = 1..c /\ \A k \in 1..c : events[k] = Read(s[k])
    BY <2>6 DEF ReadUpTo
  <2>12. ASSUME NEW k \in 1..c
         PROVE  /\ Stamps[k] = [ts |-> StampOf(p[k].at, opened.at % Capacity(4)),
                                at |-> p[k].at, elapsed |-> p[k].at - opened.at]
                /\ p[k].at \in Nat /\ opened.at <= p[k].at
    <3>1. k \in 1..n
      BY <2>10
    <3>2. s[k] = [dir |-> p[k].dir, ts |-> StampOf(p[k].at, startUs), data |-> p[k].data]
      BY <2>8, <3>1
    <3>3. s[k].ts = StampOf(p[k].at, startUs)
      BY <3>2
    <3>4. events[k].ts = StampOf(p[k].at, opened.at % Capacity(4))
      BY <2>5, <2>11, <3>3 DEF Read
    <3>5. Stamps[k] = [ts |-> events[k].ts, at |-> p[k].at, elapsed |-> p[k].at - opened.at]
      BY <1>1, <2>11
    <3>6. p[k].at \in Nat
      BY <2>7, <3>1 DEF QueuedEvents
    <3>7. QED BY <2>9, <3>1, <3>4, <3>5, <3>6
  <2>13. \A j, k \in 1..c : j < k => p[j].at <= p[k].at
    BY <2>9, <2>10
  <2>14. DOMAIN Stamps = 1..c
    BY <1>1, <2>11
  <2>15. QED BY <2>5, <2>10, <2>12, <2>13, <2>14 DEF p
<1>4. QED BY <1>2, <1>3

LEMMA ClockCapacities ==
  /\ Capacity(4) \in Nat \ {0} /\ Capacity(8) \in Nat \ {0}
  /\ Capacity(8) = Capacity(4) * Capacity(4)
BY FieldCapacities

\* enqueue_event_()'s time stamp, a 64-bit difference of two readings of the 32-bit micros(),
\* as a reader of the file gets it: it is congruent to the true elapsed time modulo 2^32
\* always, and equal to it when micros() did not wrap since on_session_start().
THEOREM LowBytesCorrect == TxcpSpec => []LowBytesElapsed
<1>1. TxcpInv => LowBytesElapsed
  <2> SUFFICES ASSUME TxcpInv, NEW x \in Range(Stamps)
               PROVE  /\ (x.ts - x.elapsed) % Capacity(4) = 0
                      /\ x.at \div Capacity(4) = opened.at \div Capacity(4) => x.ts = x.elapsed
    BY DEF LowBytesElapsed
  <2> DEFINE s == Capacity(4)
             b == Capacity(8)
             o == opened.at
  <2>1. PICK k \in DOMAIN Stamps : x = Stamps[k]
    BY DEF Range
  <2> DEFINE a == taken[k].at
  <2>2. /\ x = [ts |-> StampOf(a, o % s), at |-> a, elapsed |-> a - o]
        /\ a \in Nat /\ o \in Nat /\ o <= a
    BY <2>1, StampsAre
  <2>3. x.ts = ((a % s) - (o % s)) % b /\ x.at = a /\ x.elapsed = a - o
    BY <2>2 DEF StampOf
  <2>4. s \in Nat \ {0} /\ b \in Nat \ {0} /\ b = s * s
    BY ClockCapacities
  <2> HIDE DEF s, b, o, a
  <2>5. ClockFacts(s, b, o, a)
    BY <2>2, <2>4, ClockDifference
  <2>6. /\ (x.ts - x.elapsed) % s = 0
        /\ o \div s = a \div s => x.ts = x.elapsed
    BY <2>3, <2>5 DEF ClockFacts
  <2>7. (x.ts - x.elapsed) % s = 0 /\ (x.at \div s = o \div s => x.ts = x.elapsed)
    BY <2>3, <2>6
  <2>8. QED BY <2>7 DEF s, o
<1>2. QED BY <1>1, TxcpInvariant, PTL

\* 02-01-SUMMARY.md's "per-file timestamps stay monotonic" for a session shorter than one
\* turn of micros(): no event is stamped earlier than one before it, although the wrap makes
\* the later stamps negative differences in 64 bits.
THEOREM MonotonicCorrect == TxcpSpec => []ShortSessionMonotonic
<1>1. TxcpInv => ShortSessionMonotonic
  <2> SUFFICES ASSUME TxcpInv, NEW j \in DOMAIN Stamps, NEW k \in DOMAIN Stamps,
                      j < k, Stamps[k].elapsed < Capacity(4)
               PROVE  Stamps[j].ts <= Stamps[k].ts
    BY DEF ShortSessionMonotonic
  <2> DEFINE s == Capacity(4)
             b == Capacity(8)
             o == opened.at
             a == taken[j].at
             c == taken[k].at
             St(x) == Stamps[x]
  <2>1. /\ St(j) = [ts |-> StampOf(a, o % s), at |-> a, elapsed |-> a - o]
        /\ St(k) = [ts |-> StampOf(c, o % s), at |-> c, elapsed |-> c - o]
        /\ a \in Nat /\ c \in Nat /\ o \in Nat /\ o <= a /\ a <= c
    BY StampsAre
  <2>2. /\ St(j).ts = ((a % s) - (o % s)) % b
        /\ St(k).ts = ((c % s) - (o % s)) % b /\ St(k).elapsed = c - o
    BY <2>1 DEF StampOf
  <2>3. s \in Nat \ {0} /\ b \in Nat \ {0} /\ b = s * s
    BY ClockCapacities
  <2>4. St(k).elapsed < s
    OBVIOUS
  <2> HIDE DEF s, b, o, a, c, St
  <2>5. c - o < s
    BY <2>2, <2>4
  <2>6. ((a % s) - (o % s)) % b <= ((c % s) - (o % s)) % b
    BY <2>1, <2>3, <2>5, ClockOrder
  <2>7. St(j).ts <= St(k).ts
    BY <2>2, <2>6
  <2>8. QED BY <2>7 DEF St
<1>2. QED BY <1>1, TxcpInvariant, PTL

-----------------------------------------------------------------------------
(* What was lost is counted *)

\* The bytes of each event of s.
DataOf(s) == [k \in DOMAIN s |-> s[k].data]

LEMMA DataOfOK ==
  ASSUME NEW R, \A r \in R : r.data \in Seq(Byte), NEW s \in Seq(R)
  PROVE  /\ DataOf(s) \in Seq(Seq(Byte)) /\ Len(DataOf(s)) = Len(s)
         /\ \A k \in 1 .. Len(s) : DataOf(s)[k] = s[k].data
         /\ Content(s) = FlattenSeq(DataOf(s))
<1> DEFINE n == Len(s)
           T == Seq(Byte)
           d == DataOf(s)
<1>1. n \in Nat /\ DOMAIN s = 1..n /\ \A k \in 1..n : s[k] \in R
  BY LenProperties, ElementOfSeq
<1>2. Content(s) = FlattenSeq(d)
  BY DEF Content, DataOf
<1>3. d = [k \in 1..n |-> s[k].data]
  BY <1>1 DEF DataOf
<1> HIDE DEF n, T, d
<1>4. \A k \in 1..n : s[k].data \in T
  BY <1>1 DEF T
<1>5. d \in [1..n -> T] /\ DOMAIN d = 1..n /\ \A k \in 1..n : d[k] = s[k].data
  BY <1>3, <1>4
<1>6. d \in Seq(T)
  BY <1>1, <1>5, SeqDef
<1>7. Len(d) = n
  BY <1>1, <1>5, <1>6, LenProperties, SameLength
<1>8. QED BY <1>2, <1>5, <1>6, <1>7 DEF n, T, d

LEMMA QueuedCarryBytes == \A r \in QueuedEvents : r.data \in Seq(Byte)
BY DEF QueuedEvents

\* One more event carries its bytes behind those of the others.
LEMMA ContentOfAppend ==
  ASSUME NEW s \in Seq(QueuedEvents), NEW e \in QueuedEvents
  PROVE  Content(Append(s, e)) = Content(s) \o e.data /\ Content(s) \in Seq(Byte)
<1> DEFINE T == Seq(Byte)
           u == Append(s, e)
           n == Len(s)
           ds == DataOf(s)
           du == DataOf(u)
           d == Append(ds, e.data)
<1>1. /\ u \in Seq(QueuedEvents) /\ Len(u) = n + 1 /\ u[n + 1] = e
      /\ \A i \in 1..n : u[i] = s[i]
  BY AppendProperties
<1>2. n \in Nat
  BY LenProperties
<1>3. /\ ds \in Seq(T) /\ Len(ds) = n /\ \A k \in 1..n : ds[k] = s[k].data
      /\ Content(s) = FlattenSeq(ds)
  BY QueuedCarryBytes, DataOfOK
<1>4. /\ du \in Seq(T) /\ Len(du) = n + 1 /\ \A k \in 1 .. n + 1 : du[k] = u[k].data
      /\ Content(u) = FlattenSeq(du)
  <2> HIDE DEF u, n
  <2>1. /\ du \in Seq(T) /\ Len(du) = Len(u) /\ \A k \in 1 .. Len(u) : du[k] = u[k].data
        /\ Content(u) = FlattenSeq(du)
    BY <1>1, QueuedCarryBytes, DataOfOK
  <2>2. QED BY <1>1, <2>1
<1>5. e.data \in T
  BY QueuedCarryBytes
<1>6. FlattenSeq(d) = FlattenSeq(ds) \o e.data /\ FlattenSeq(ds) \in Seq(Byte)
  <2>1. FlattenSeq(d) = FlattenSeq(ds) \o e.data
    BY <1>3, <1>5, FlattenOfAppend
  <2>2. FlattenSeq(ds) \in Seq(Byte)
    BY <1>3, FlattenOfConcat
  <2>3. QED BY <2>1, <2>2
<1> HIDE DEF u, n, ds, du, T
<1>7. /\ d \in Seq(T) /\ Len(d) = n + 1 /\ d[n + 1] = e.data
      /\ \A i \in 1..n : d[i] = ds[i]
  BY <1>3, <1>5, AppendProperties
<1> HIDE DEF d
<1>8. ASSUME NEW k \in 1 .. n + 1 PROVE du[k] = d[k]
  <2>1. CASE k \in 1..n
    <3>1. du[k] = u[k].data /\ u[k] = s[k] /\ d[k] = ds[k] /\ ds[k] = s[k].data
      BY <1>1, <1>3, <1>4, <1>7, <2>1
    <3>2. QED BY <3>1
  <2>2. CASE k = n + 1
    <3>1. du[k] = u[k].data /\ u[k] = e /\ d[k] = e.data
      BY <1>1, <1>4, <1>7, <2>2
    <3>2. QED BY <3>1
  <2>3. k \in 1..n \/ k = n + 1
    BY <1>2, SMT
  <2>4. QED BY <2>1, <2>2, <2>3
<1>9. du = d
  BY <1>4, <1>7, <1>8, SeqEqual
<1>10. QED BY <1>3, <1>4, <1>6, <1>9 DEF u

Answers == {g \in [data : Seq(Byte), kept : Nat] : g.kept <= Len(g.data)}

KeptOf(s) == [k \in DOMAIN s |-> SubSeq(s[k].data, 1, s[k].kept)]
ShortIn(s) == {k \in DOMAIN s : s[k].kept < Len(s[k].data)}

LEMMA PrefixOK ==
  ASSUME NEW data \in Seq(Byte), NEW n \in Nat, n <= Len(data)
  PROVE  SubSeq(data, 1, n) \in Seq(Byte)
<1>1. Len(data) \in Nat
  BY LenProperties
<1>2. \A i \in 1..n : i \in 1 .. Len(data)
  BY <1>1, SMT
<1>3. \A i \in 1..n : data[i] \in Byte
  BY <1>2, ElementOfSeq
<1>4. 1 \in Int /\ n \in Int
  BY SMT
<1>5. QED BY <1>3, <1>4, SubSeqProperties

LEMMA KeptOfOK ==
  ASSUME NEW s \in Seq(Answers)
  PROVE  /\ KeptOf(s) \in Seq(Seq(Byte)) /\ Len(KeptOf(s)) = Len(s)
         /\ \A k \in 1 .. Len(s) : KeptOf(s)[k] = SubSeq(s[k].data, 1, s[k].kept)
<1> DEFINE n == Len(s)
           T == Seq(Byte)
           d == KeptOf(s)
           pre(k) == SubSeq(s[k].data, 1, s[k].kept)
<1>1. n \in Nat /\ DOMAIN s = 1..n /\ \A k \in 1..n : s[k] \in Answers
  BY LenProperties, ElementOfSeq
<1>2. \A k \in 1..n : pre(k) \in T
  <2> SUFFICES ASSUME NEW k \in 1..n PROVE pre(k) \in T
    OBVIOUS
  <2>1. s[k].data \in Seq(Byte) /\ s[k].kept \in Nat /\ s[k].kept <= Len(s[k].data)
    BY <1>1 DEF Answers
  <2>2. QED BY <2>1, PrefixOK
<1>3. d = [k \in 1..n |-> pre(k)]
  BY <1>1 DEF KeptOf
<1> HIDE DEF n, T, d, pre
<1>4. d \in [1..n -> T] /\ DOMAIN d = 1..n /\ \A k \in 1..n : d[k] = pre(k)
  BY <1>2, <1>3
<1>5. d \in Seq(T)
  BY <1>1, <1>4, SeqDef
<1>6. Len(d) = n
  BY <1>1, <1>4, <1>5, LenProperties, SameLength
<1>7. QED BY <1>4, <1>5, <1>6 DEF n, T, d, pre

\* A further answer: what it kept comes behind the rest, and it is cut short or not.
LEMMA OneMoreAnswer ==
  ASSUME NEW s \in Seq(Answers), NEW g \in Answers
  PROVE  /\ FlattenSeq(KeptOf(Append(s, g))) = FlattenSeq(KeptOf(s)) \o SubSeq(g.data, 1, g.kept)
         /\ FlattenSeq(KeptOf(s)) \in Seq(Byte)
         /\ Cardinality(ShortIn(Append(s, g)))
              = Cardinality(ShortIn(s)) + IF g.kept < Len(g.data) THEN 1 ELSE 0
<1> DEFINE T == Seq(Byte)
           u == Append(s, g)
           n == Len(s)
           ks == KeptOf(s)
           ku == KeptOf(u)
           pre == SubSeq(g.data, 1, g.kept)
           d == Append(ks, pre)
<1>1. /\ u \in Seq(Answers) /\ Len(u) = n + 1 /\ u[n + 1] = g
      /\ \A i \in 1..n : u[i] = s[i]
  BY AppendProperties
<1>2. n \in Nat /\ DOMAIN s = 1..n
  BY LenProperties
<1>3. DOMAIN u = 1 .. n + 1
  <2> HIDE DEF u, n
  <2>1. QED BY <1>1, LenProperties
<1>4. /\ ks \in Seq(T) /\ Len(ks) = n
      /\ \A k \in 1..n : ks[k] = SubSeq(s[k].data, 1, s[k].kept)
  BY KeptOfOK
<1>5. /\ ku \in Seq(T) /\ Len(ku) = n + 1
      /\ \A k \in 1 .. n + 1 : ku[k] = SubSeq(u[k].data, 1, u[k].kept)
  <2> HIDE DEF u, n
  <2>1. /\ ku \in Seq(T) /\ Len(ku) = Len(u)
        /\ \A k \in 1 .. Len(u) : ku[k] = SubSeq(u[k].data, 1, u[k].kept)
    BY <1>1, KeptOfOK
  <2>2. QED BY <1>1, <2>1
<1>6. pre \in T
  <2>1. g.data \in Seq(Byte) /\ g.kept \in Nat /\ g.kept <= Len(g.data)
    BY DEF Answers
  <2>2. QED BY <2>1, PrefixOK
<1>7. FlattenSeq(d) = FlattenSeq(ks) \o pre /\ FlattenSeq(ks) \in Seq(Byte)
  <2> HIDE DEF ks, pre
  <2>1. FlattenSeq(d) = FlattenSeq(ks) \o pre
    BY <1>4, <1>6, FlattenOfAppend
  <2>2. FlattenSeq(ks) \in Seq(Byte)
    BY <1>4, FlattenOfConcat
  <2>3. QED BY <2>1, <2>2
<1>8. n + 1 \notin 1..n /\ \A k \in 1 .. n + 1 : k \in 1..n \/ k = n + 1
  BY <1>2, SMT
<1>9. (\A k \in 1..n : k \in 1 .. n + 1) /\ n + 1 \in 1 .. n + 1
  BY <1>2, SMT
<1>10. Cardinality(ShortIn(u)) = Cardinality(ShortIn(s)) + IF g.kept < Len(g.data) THEN 1 ELSE 0
  <2> DEFINE S == ShortIn(s)
  <2>1. S \subseteq 1..n
    BY <1>2 DEF ShortIn
  <2>2. IsFiniteSet(S) /\ Cardinality(S) \in Nat
    <3>1. IsFiniteSet(1..n)
      BY <1>2, FS_Interval
    <3>2. IsFiniteSet(S)
      BY <2>1, <3>1, FS_Subset
    <3>3. QED BY <3>2, FS_CardinalityType
  <2>3. ShortIn(u) = {k \in 1 .. n + 1 : u[k].kept < Len(u[k].data)}
    BY <1>3 DEF ShortIn
  <2>4. S = {k \in 1..n : s[k].kept < Len(s[k].data)}
    BY <1>2 DEF ShortIn
  <2> DEFINE x == n + 1
  <2> HIDE DEF u, n, S, x
  <2>5. x \notin 1..n /\ (\A k \in 1..x : k \in 1..n \/ k = x) /\ (\A k \in 1..n : k \in 1..x)
        /\ x \in 1..x
    BY <1>8, <1>9 DEF x
  <2>6. u[x] = g /\ (\A i \in 1..n : u[i] = s[i])
    BY <1>1 DEF x
  <2>7. ShortIn(u) = {k \in 1..x : u[k].kept < Len(u[k].data)}
    BY <2>3 DEF x
  <2>8. CASE g.kept < Len(g.data)
    <3>1. ShortIn(u) = S \cup {x} /\ x \notin S
      BY <2>4, <2>5, <2>6, <2>7, <2>8
    <3>2. Cardinality(S \cup {x}) = Cardinality(S) + 1
      BY <2>2, <3>1, FS_AddElement
    <3>3. QED BY <2>8, <3>1, <3>2 DEF S
  <2>9. CASE ~(g.kept < Len(g.data))
    <3>1. ShortIn(u) = S
      BY <2>4, <2>5, <2>6, <2>7, <2>9
    <3>2. QED BY <2>2, <2>9, <3>1 DEF S
  <2>10. QED BY <2>8, <2>9
<1> HIDE DEF T, u, n, ks, ku
<1>11. pre = SubSeq(g.data, 1, g.kept)
  OBVIOUS
<1> HIDE DEF pre
<1>12. /\ d \in Seq(T) /\ Len(d) = n + 1 /\ d[n + 1] = pre
       /\ \A i \in 1..n : d[i] = ks[i]
  BY <1>4, <1>6, AppendProperties
<1> HIDE DEF d
<1>13. ASSUME NEW k \in 1 .. n + 1 PROVE ku[k] = d[k]
  <2>1. CASE k \in 1..n
    <3>1. /\ ku[k] = SubSeq(u[k].data, 1, u[k].kept) /\ u[k] = s[k] /\ d[k] = ks[k]
          /\ ks[k] = SubSeq(s[k].data, 1, s[k].kept)
      BY <1>1, <1>4, <1>5, <1>12, <2>1
    <3>2. QED BY <3>1
  <2>2. CASE k = n + 1
    <3>1. ku[k] = SubSeq(u[k].data, 1, u[k].kept) /\ u[k] = g /\ d[k] = pre
      BY <1>1, <1>5, <1>12, <2>2
    <3>2. QED BY <1>11, <3>1
  <2>3. QED BY <1>8, <2>1, <2>2
<1>14. ku = d
  BY <1>5, <1>12, <1>13, SeqEqual
<1>15. QED BY <1>7, <1>10, <1>11, <1>14 DEF u, ks, ku

\* So far in the payload at hand.
SoFar == SubSeq(call.data, 1, call.off)

LossInv ==
  /\ given \in Seq(Answers) /\ drops = Cardinality(ShortIn(given))
  /\ Content(taken) = FlattenSeq(KeptOf(given)) \o SoFar

LEMMA NothingSoFar ==
  /\ \A data : SubSeq(data, 1, 0) = <<>>
  /\ call = NoCall => SoFar = <<>>
<1>1. 0 < 1 /\ 0 \in Int /\ 1 \in Int
  BY SMT
<1>2. \A data : SubSeq(data, 1, 0) = <<>>
  BY <1>1, SubSeqEmpty
<1>3. QED BY <1>2, NoCallOK DEF SoFar

LEMMA InitLoss == TxcpInit => LossInv
<1> SUFFICES ASSUME TxcpInit PROVE LossInv
  OBVIOUS
<1>1. drops = 0 /\ call = NoCall /\ taken = <<>> /\ given = <<>>
  BY DEF TxcpInit
<1>2. DOMAIN <<>> = {}
  BY SMT
<1>3. ShortIn(<<>>) = {}
  BY <1>2 DEF ShortIn
<1>4. KeptOf(<<>>) = <<>>
  BY <1>2, SMT DEF KeptOf
<1>5. Content(<<>>) = <<>>
  <2> DEFINE r == [k \in DOMAIN <<>> |-> <<>>[k].data]
  <2>1. r = <<>>
    BY <1>2, SMT
  <2>2. Content(<<>>) = FlattenSeq(r)
    BY DEF Content
  <2> HIDE DEF r
  <2>3. QED BY <2>1, <2>2, FlattenOfNothing
<1>6. <<>> \in Seq(Answers) /\ <<>> \in Seq(Byte)
  BY EmptySeq
<1>7. <<>> \o <<>> = <<>>
  BY <1>6, ConcatEmptySeq
<1>8. Cardinality({}) = 0
  BY FS_EmptySet
<1>9. QED BY <1>1, <1>3, <1>4, <1>5, <1>6, <1>7, <1>8, NothingSoFar, FlattenOfNothing DEF LossInv

LEMMA QueueChunkLoss == ASSUME TxcpInv, LossInv, QueueChunk PROVE LossInv'
<1> DEFINE chunk == Chunk(call.data, call.off)
           e == [dir |-> call.dir, at |-> now, data |-> chunk]
           k == FlattenSeq(KeptOf(given))
<1>1. /\ taken' = Append(taken, e)
      /\ call' = [call EXCEPT !.off = @ + Len(chunk)]
      /\ call.off < Len(call.data)
      /\ UNCHANGED <<drops, given>>
  BY DEF QueueChunk
<1>2. /\ call.dir \in 0..1 /\ call.data \in Seq(Byte) /\ call.off \in Nat
      /\ call = [dir |-> call.dir, data |-> call.data, off |-> call.off]
  BY <1>1, MoreToQueue
<1>3. /\ chunk \in Seq(Byte) /\ Len(chunk) \in Nat /\ Len(chunk) <= MaxEventPayload
      /\ SubSeq(call.data, 1, call.off) \o chunk
           = SubSeq(call.data, 1, call.off + Len(chunk))
  BY <1>1, <1>2, ChunkOK
<1> HIDE DEF chunk
<1>4. SoFar \o chunk = SoFar'
  <2>1. call' = [dir |-> call.dir, data |-> call.data, off |-> call.off + Len(chunk)]
    BY <1>1, <1>2
  <2>2. QED BY <1>3, <2>1 DEF SoFar
<1>5. now \in Nat /\ taken \in Seq(QueuedEvents)
  BY DEF TxcpInv
<1>6. e \in QueuedEvents /\ e.data = chunk
  BY <1>2, <1>3, <1>5 DEF QueuedEvents
<1> HIDE DEF e
<1>7. Content(Append(taken, e)) = Content(taken) \o chunk
  BY <1>5, <1>6, ContentOfAppend
<1>8. given \in Seq(Answers) /\ drops = Cardinality(ShortIn(given)) /\ Content(taken) = k \o SoFar
  BY DEF LossInv
<1>9. k \in Seq(Byte)
  <2>1. KeptOf(given) \in Seq(Seq(Byte))
    BY <1>8, KeptOfOK
  <2>2. QED BY <2>1, FlattenOfConcat
<1>10. SoFar \in Seq(Byte)
  <2>1. call.off <= Len(call.data)
    BY DEF TxcpInv, CallOK
  <2>2. QED BY <1>2, <2>1, PrefixOK DEF SoFar
<1> HIDE DEF k
<1>11. (k \o SoFar) \o chunk = k \o (SoFar \o chunk)
  BY <1>3, <1>9, <1>10, BytesAssociate
<1>12. Content(taken') = k \o SoFar'
  BY <1>1, <1>4, <1>7, <1>8, <1>11
<1>13. given' = given /\ drops' = drops
  BY <1>1
<1>14. QED BY <1>8, <1>12, <1>13 DEF LossInv, k

\* What record() did not keep whole is one drop more.
LEMMA ReturnLoss ==
  ASSUME TxcpInv, LossInv, Return,
         drops' = drops + IF call.off < Len(call.data) THEN 1 ELSE 0
  PROVE  LossInv'
<1> DEFINE g == [data |-> call.data, kept |-> call.off]
           k == FlattenSeq(KeptOf(given))
<1>1. given' = Append(given, g) /\ call' = NoCall /\ taken' = taken
  BY DEF Return
<1>2. given \in Seq(Answers) /\ drops = Cardinality(ShortIn(given)) /\ Content(taken) = k \o SoFar
  BY DEF LossInv
<1>3. call.data \in Seq(Byte) /\ call.off \in Nat /\ call.off <= Len(call.data)
  BY DEF TxcpInv, CallOK
<1>4. g \in Answers /\ g.data = call.data /\ g.kept = call.off
  BY <1>3 DEF Answers
<1> HIDE DEF g
<1>5. /\ FlattenSeq(KeptOf(Append(given, g))) = k \o SubSeq(g.data, 1, g.kept)
      /\ k \in Seq(Byte)
      /\ Cardinality(ShortIn(Append(given, g)))
           = Cardinality(ShortIn(given)) + IF g.kept < Len(g.data) THEN 1 ELSE 0
  BY <1>2, <1>4, OneMoreAnswer
<1>6. Append(given, g) \in Seq(Answers)
  BY <1>2, <1>4, AppendProperties
<1> DEFINE l == FlattenSeq(KeptOf(given'))
<1>7. l = k \o SoFar
  BY <1>1, <1>4, <1>5 DEF SoFar
<1>8. l \in Seq(Byte)
  <2>1. KeptOf(given') \in Seq(Seq(Byte))
    BY <1>1, <1>6, KeptOfOK
  <2>2. QED BY <2>1, FlattenOfConcat
<1> HIDE DEF k, l
<1>9. l \o <<>> = l
  BY <1>8, ConcatEmptySeq
<1>10. SoFar' = <<>>
  <2>1. SoFar' = SubSeq(NoCall.data, 1, NoCall.off)
    BY <1>1 DEF SoFar
  <2>2. QED BY <2>1, NoCallOK, NothingSoFar
<1>11. Content(taken') = l \o SoFar'
  BY <1>1, <1>2, <1>7, <1>9, <1>10
<1>12. drops' = Cardinality(ShortIn(given'))
  BY <1>1, <1>2, <1>4, <1>5
<1>13. given' \in Seq(Answers)
  BY <1>1, <1>6
<1>14. QED BY <1>11, <1>12, <1>13 DEF LossInv, l

LEMMA LossInvariant == TxcpSpec => []LossInv
<1>1. ASSUME LossInv, taken' = taken, given' = given, drops' = drops, SoFar' = SoFar
      PROVE  LossInv'
  BY <1>1 DEF LossInv
<1>2. ASSUME TxcpInv, LossInv, [TxcpNext]_txcpVars PROVE LossInv'
  <2>1. CASE QueueChunk BY <1>2, <2>1, QueueChunkLoss
  <2>2. CASE PayloadQueued
    <3>1. Return /\ drops' = drops /\ call.off = Len(call.data) /\ call.off \in Nat
      BY <1>2, <2>2 DEF PayloadQueued, TxcpInv, CallOK
    <3>2. ~(call.off < Len(call.data))
      BY <3>1
    <3>3. drops \in Nat
      <4>1. drops = Cardinality(ShortIn(given)) /\ given \in Seq(Answers)
        BY <1>2 DEF LossInv
      <4>2. Len(given) \in Nat /\ ShortIn(given) \subseteq 1 .. Len(given)
        BY <4>1, LenProperties DEF ShortIn
      <4>3. IsFiniteSet(1 .. Len(given))
        BY <4>2, FS_Interval
      <4>4. IsFiniteSet(ShortIn(given))
        BY <4>2, <4>3, FS_Subset
      <4>5. QED BY <4>1, <4>4, FS_CardinalityType
    <3>4. drops' = drops + IF call.off < Len(call.data) THEN 1 ELSE 0
      BY <3>1, <3>2, <3>3
    <3>5. QED BY <1>2, <3>1, <3>4, ReturnLoss
  <2>3. CASE RingFull
    <3>1. Return /\ drops' = drops + 1 /\ call.off < Len(call.data)
      BY <2>3 DEF RingFull
    <3>2. drops' = drops + IF call.off < Len(call.data) THEN 1 ELSE 0
      BY <3>1
    <3>3. QED BY <1>2, <3>1, <3>2, ReturnLoss
  <2>4. CASE Record
    <3>1. PICK dir \in 0..1, data \in Payloads : call' = [dir |-> dir, data |-> data, off |-> 0]
      BY <2>4 DEF Record
    <3>2. call = NoCall /\ UNCHANGED <<taken, given, drops>>
      BY <2>4 DEF Record
    <3>3. SoFar' = SubSeq(data, 1, 0)
      BY <3>1 DEF SoFar
    <3>4. SoFar' = SoFar
      BY <3>2, <3>3, NothingSoFar
    <3>5. QED BY <1>1, <1>2, <3>2, <3>4
  <2>5. CASE TimePasses \/ OpenFile \/ FlushRing \/ UNCHANGED txcpVars
    <3>1. UNCHANGED <<taken, given, drops, call>>
      BY <2>5 DEF TimePasses, OpenFile, FlushRing, txcpVars
    <3>2. SoFar' = SoFar
      BY <3>1 DEF SoFar
    <3>3. QED BY <1>1, <1>2, <3>1, <3>2
  <2>6. QED BY <1>2, <2>1, <2>2, <2>3, <2>4, <2>5 DEF TxcpNext
<1>3. QED BY InitLoss, <1>2, TxcpInvariant, PTL DEF TxcpSpec

\* From record() to a reader of the file nothing is lost but what did not fit the ring, and
\* nothing doubled or reordered: once the ring is flushed, the events of the file carry
\* exactly the bytes of every payload that record() was given, up to where the ring was full,
\* and drops_ counts the payloads that are cut there - for every ring, and for payloads
\* however long and however many.
THEOREM LossesCountedCorrect == TxcpSpec => []LossesCounted
<1>1. TxcpInv /\ LossInv => LossesCounted
  <2> SUFFICES ASSUME TxcpInv, LossInv, file # <<>>, pending = <<>>, call = NoCall
               PROVE  /\ Content(ParsedFrom(file)) = FlattenSeq(Kept)
                      /\ drops = Cardinality(CutShort)
    BY DEF LossesCounted
  <2> DEFINE p == taken
             s == Stamped(p, startUs)
             n == Len(p)
             events == ParsedFrom(file)
  <2>1. file \in Seq(Byte) /\ Len(file) \in kCaptureHeaderSize .. Len(file)
    <3>1. file \in Seq(Byte) /\ Len(file) >= kCaptureHeaderSize
      BY FileBegins
    <3>2. Len(file) \in Nat
      BY <3>1, LenProperties
    <3>3. QED BY <3>1, <3>2, HeaderSizeIsNat
  <2>2. SubSeq(file, 1, Len(file)) = file
    BY <2>1, SubSeqFull
  <2>3. PICK c \in 0..n : /\ ParsedFrom(SubSeq(file, 1, Len(file))) = ReadUpTo(s, c)
                          /\ Len(file) = Len(file) /\ pending = <<>> => c = n
    BY <2>1, FileReads
  <2>4. p \in Seq(QueuedEvents) /\ startUs \in Nat
    BY StartIsNat DEF TxcpInv
  <2>5. events = ReadUpTo(s, n)
    BY <2>2, <2>3
  <2> HIDE DEF events
  <2>6. n \in Nat /\ DOMAIN p = 1..n
    BY <2>4, LenProperties
  <2>7. \A k \in 1..n :
          s[k] = [dir |-> p[k].dir, ts |-> StampOf(p[k].at, startUs), data |-> p[k].data]
    BY <2>4, StampedOK
  <2> HIDE DEF s, n
  <2>8. DOMAIN events = 1..n /\ \A k \in 1..n : events[k] = Read(s[k])
    BY <2>5 DEF ReadUpTo
  <2>9. ASSUME NEW k \in 1..n PROVE events[k].data = p[k].data
    <3>1. s[k] = [dir |-> p[k].dir, ts |-> StampOf(p[k].at, startUs), data |-> p[k].data]
      BY <2>7
    <3>2. s[k].data = p[k].data
      BY <3>1
    <3>3. QED BY <2>8, <3>2 DEF Read
  <2>10. [k \in DOMAIN events |-> events[k].data] = [k \in DOMAIN p |-> p[k].data]
    BY <2>6, <2>8, <2>9
  <2>11. Content(events) = Content(taken)
    BY <2>10 DEF Content
  <2>12. Content(taken) = FlattenSeq(KeptOf(given)) \o <<>>
    BY NothingSoFar DEF LossInv
  <2>13. FlattenSeq(KeptOf(given)) \o <<>> = FlattenSeq(KeptOf(given))
    <3>1. KeptOf(given) \in Seq(Seq(Byte))
      BY KeptOfOK DEF LossInv
    <3>2. FlattenSeq(KeptOf(given)) \in Seq(Byte)
      BY <3>1, FlattenOfConcat
    <3>3. QED BY <3>2, ConcatEmptySeq
  <2>14. Kept = KeptOf(given) /\ CutShort = ShortIn(given)
    BY DEF Kept, CutShort, KeptOf, ShortIn
  <2>15. drops = Cardinality(ShortIn(given))
    BY DEF LossInv
  <2>16. QED BY <2>11, <2>12, <2>13, <2>14, <2>15 DEF events
<1>2. QED BY <1>1, TxcpInvariant, LossInvariant, PTL

=============================================================================
