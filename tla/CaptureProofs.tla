--------------------------- MODULE CaptureProofs ---------------------------
(***************************************************************************)
(* For every mode, budget, ring, slot, symbol and banner size and for any   *)
(* payloads, the capture accounts for every byte it holds, keeps exactly the *)
(* newest files, and has each session's recording complete or a drop to show *)
(* for it.                                                                  *)
(*                                                                         *)
(* On the induction and the recursive functions of Recursion rest the sums   *)
(* of sizes, the eviction loop, the flush loop, and what a sequence of       *)
(* events says.                                                             *)
(***************************************************************************)
EXTENDS Capture, Recursion, TLAPS, SequenceTheorems

-----------------------------------------------------------------------------
(* Sums *)

\* The sums of a sequence's beginnings.
Partial(s) == CHOOSE g : g = [k \in 0 .. Len(s) |-> IF k = 0 THEN 0 ELSE g[k-1] + s[k]]

LEMMA PartialSums ==
  ASSUME NEW s \in Seq(Nat)
  PROVE  /\ SumOf(s) = Partial(s)[Len(s)]
         /\ Partial(s)[0] = 0
         /\ \A k \in 1 .. Len(s) : Partial(s)[k] = Partial(s)[k-1] + s[k]
         /\ \A k \in 0 .. Len(s) : Partial(s)[k] \in Nat
<1> DEFINE step == [a \in Nat |-> [b \in Nat |-> a + b]]
<1>1. /\ step \in [Nat -> [Nat -> Nat]]
      /\ \A a, b \in Nat : step[a][b] = a + b
  BY SMT
<1> HIDE DEF step
<1>2. PICK f \in [0 .. Len(s) -> Nat] :
        f[0] = 0 /\ \A k \in 1 .. Len(s) : f[k] = step[f[k-1]][s[k]]
  <2> DEFINE T == Nat
             z == 0
  <2>1. step \in [T -> [T -> T]] /\ z \in T /\ s \in Seq(T)
    BY <1>1
  <2> HIDE DEF T, z
  <2>2. \E f \in [0 .. Len(s) -> T] :
          IsRun(f, step, z, s)
    BY <2>1, RunExists
  <2>3. QED BY <2>2 DEF T, z, IsRun
<1>3. Len(s) \in Nat /\ \A k \in 1 .. Len(s) : s[k] \in Nat
  BY LenProperties, ElementOfSeq
<1>4. f = [k \in 0 .. Len(s) |-> IF k = 0 THEN 0 ELSE f[k-1] + s[k]]
  <2>1. ASSUME NEW k \in 0 .. Len(s)
        PROVE  f[k] = IF k = 0 THEN 0 ELSE f[k-1] + s[k]
    <3>1. CASE k = 0
      BY <1>2, <3>1
    <3>2. CASE k # 0
      <4>1. k \in 1 .. Len(s) /\ k - 1 \in 0 .. Len(s)
        BY <1>3, <3>2, SMT
      <4>2. f[k-1] \in Nat /\ s[k] \in Nat
        BY <1>2, <1>3, <4>1
      <4>3. f[k] = step[f[k-1]][s[k]]
        BY <1>2, <4>1
      <4>4. QED BY <1>1, <3>2, <4>2, <4>3
    <3>3. QED BY <3>1, <3>2
  <2>2. QED BY <1>2, <2>1
<1> DEFINE g == Partial(s)
<1>5. g = [k \in 0 .. Len(s) |-> IF k = 0 THEN 0 ELSE g[k-1] + s[k]]
  BY <1>4 DEF Partial
<1>6. SumOf(s) = g[Len(s)]
  BY DEF SumOf, Partial
<1> HIDE DEF g
<1>7. g[0] = 0 /\ \A k \in 1 .. Len(s) : g[k] = g[k-1] + s[k]
  <2>1. 0 \in 0 .. Len(s) /\ \A k \in 1 .. Len(s) : k \in 0 .. Len(s) /\ k # 0
    BY <1>3, SMT
  <2>2. QED BY <1>5, <2>1
<1>8. \A k \in 0 .. Len(s) : g[k] \in Nat
  <2> DEFINE N == {k \in 0 .. Len(s) : g[k] \in Nat}
  <2>1. 0 \in N
    BY <1>3, <1>7, SMT
  <2>2. ASSUME NEW k \in 1 .. Len(s), k - 1 \in N PROVE k \in N
    <3>1. g[k-1] \in Nat /\ s[k] \in Nat /\ g[k] = g[k-1] + s[k] /\ k \in 0 .. Len(s)
      BY <1>3, <1>7, <2>2, SMT
    <3>2. g[k] \in Nat
      BY <3>1, SMT
    <3>3. QED BY <3>1, <3>2
  <2>3. \A k \in 0 .. Len(s) : k \in N
    <3> HIDE DEF N
    <3>1. QED BY <1>3, <2>1, <2>2, InductionUpTo
  <2>4. QED BY <2>3
<1>9. QED BY <1>6, <1>7, <1>8 DEF g

LEMMA SumIsNat == ASSUME NEW s \in Seq(Nat) PROVE SumOf(s) \in Nat
BY PartialSums, LenProperties, SMT

LEMMA SumOfEmpty == SumOf(<<>>) = 0
<1>1. <<>> \in Seq(Nat) /\ Len(<<>>) = 0
  BY EmptySeq
<1>2. QED BY <1>1, PartialSums

LEMMA SumOfAppend ==
  ASSUME NEW s \in Seq(Nat), NEW x \in Nat
  PROVE  SumOf(Append(s, x)) = SumOf(s) + x
<1> DEFINE t == Append(s, x)
           g == Partial(s)
           h == Partial(t)
<1>1. /\ t \in Seq(Nat) /\ Len(t) = Len(s) + 1 /\ Len(s) \in Nat
      /\ \A k \in 1 .. Len(s) : t[k] = s[k]
      /\ t[Len(s) + 1] = x
  BY AppendProperties, LenProperties
<1> HIDE DEF t
<1>2. /\ SumOf(s) = g[Len(s)] /\ g[0] = 0
      /\ \A k \in 1 .. Len(s) : g[k] = g[k-1] + s[k]
  BY PartialSums
<1>3. /\ SumOf(t) = h[Len(t)] /\ h[0] = 0
      /\ \A k \in 1 .. Len(t) : h[k] = h[k-1] + t[k]
  BY <1>1, PartialSums
<1> HIDE DEF g, h
<1> DEFINE N == {k \in 0 .. Len(s) : h[k] = g[k]}
<1>4. 0 \in N
  BY <1>1, <1>2, <1>3, SMT
<1>5. ASSUME NEW k \in 1 .. Len(s), k - 1 \in N PROVE k \in N
  <2>1. k \in 1 .. Len(t) /\ k \in 0 .. Len(s)
    BY <1>1, SMT
  <2>2. QED BY <1>1, <1>2, <1>3, <1>5, <2>1
<1>6. \A k \in 0 .. Len(s) : k \in N
  <2> HIDE DEF N
  <2>1. QED BY <1>1, <1>4, <1>5, InductionUpTo
<1>7. h[Len(s)] = g[Len(s)]
  BY <1>1, <1>6, SMT
<1>8. h[Len(s) + 1] = h[(Len(s) + 1) - 1] + t[Len(s) + 1] /\ (Len(s) + 1) - 1 = Len(s)
  <2>1. Len(s) + 1 \in 1 .. Len(t)
    BY <1>1, SMT
  <2>2. QED BY <1>1, <1>3, <2>1, SMT
<1>9. QED BY <1>1, <1>2, <1>3, <1>7, <1>8 DEF t

\* One number grows.
LEMMA SumWithMore ==
  ASSUME NEW s \in Seq(Nat), NEW t \in Seq(Nat), Len(t) = Len(s),
         NEW i \in 1 .. Len(s), NEW d \in Nat, t[i] = s[i] + d,
         \A k \in 1 .. Len(s) : k # i => t[k] = s[k]
  PROVE  SumOf(t) = SumOf(s) + d
<1> DEFINE g == Partial(s)
           h == Partial(t)
<1>1. /\ Len(s) \in Nat /\ \A k \in 1 .. Len(s) : s[k] \in Nat
      /\ i \in Nat /\ 1 <= i /\ i <= Len(s)
  <2>1. Len(s) \in Nat /\ \A k \in 1 .. Len(s) : s[k] \in Nat
    BY LenProperties, ElementOfSeq
  <2>2. i \in Nat /\ 1 <= i /\ i <= Len(s)
    BY <2>1, SMT
  <2>3. QED BY <2>1, <2>2
<1>2. /\ SumOf(s) = g[Len(s)] /\ g[0] = 0
      /\ \A k \in 1 .. Len(s) : g[k] = g[k-1] + s[k]
      /\ \A k \in 0 .. Len(s) : g[k] \in Nat
  BY PartialSums
<1>3. /\ SumOf(t) = h[Len(s)] /\ h[0] = 0
      /\ \A k \in 1 .. Len(s) : h[k] = h[k-1] + t[k]
  BY PartialSums
<1> HIDE DEF g, h
<1> DEFINE N == {k \in 0 .. Len(s) : h[k] = g[k] + (IF k < i THEN 0 ELSE d)}
<1>4. 0 \in N
  BY <1>1, <1>2, <1>3, SMT
<1>5. ASSUME NEW k \in 1 .. Len(s), k - 1 \in N PROVE k \in N
  <2>1. /\ h[k] = h[k-1] + t[k] /\ g[k] = g[k-1] + s[k]
        /\ h[k-1] = g[k-1] + (IF k - 1 < i THEN 0 ELSE d)
        /\ g[k-1] \in Nat /\ g[k] \in Nat /\ s[k] \in Nat /\ k \in 0 .. Len(s)
        /\ t[k] = IF k = i THEN s[k] + d ELSE s[k]
    <3>1. k \in 0 .. Len(s) /\ k - 1 \in 0 .. Len(s)
      BY <1>1, SMT
    <3>2. QED BY <1>1, <1>2, <1>3, <1>5, <3>1
  <2>2. k \in Nat /\ (k - 1 < i <=> k <= i)
    BY <1>1, SMT
  <2> DEFINE a == h[k-1]
             b == g[k-1]
             c == s[k]
  <2>3. /\ a = b + (IF k <= i THEN 0 ELSE d) /\ b \in Nat /\ c \in Nat
        /\ h[k] = a + (IF k = i THEN c + d ELSE c) /\ g[k] = b + c
    BY <2>1, <2>2
  <2> HIDE DEF a, b, c
  <2>4. a + (IF k = i THEN c + d ELSE c) = (b + c) + (IF k < i THEN 0 ELSE d)
    BY <1>1, <2>2, <2>3, SMTT(30)
  <2>5. QED BY <2>1, <2>3, <2>4
<1>6. \A k \in 0 .. Len(s) : k \in N
  <2> HIDE DEF N
  <2>1. QED BY <1>1, <1>4, <1>5, InductionUpTo
<1>7. Len(s) \in 0 .. Len(s) /\ ~(Len(s) < i)
  BY <1>1, SMT
<1>8. QED BY <1>2, <1>3, <1>6, <1>7

\* The first number goes.
LEMMA SumWithoutFirst ==
  ASSUME NEW s \in Seq(Nat), NEW t \in Seq(Nat), Len(s) = Len(t) + 1,
         \A k \in 1 .. Len(t) : t[k] = s[k+1]
  PROVE  SumOf(s) = SumOf(t) + s[1]
<1> DEFINE g == Partial(s)
           h == Partial(t)
<1>1. /\ Len(t) \in Nat /\ \A k \in 1 .. Len(t) : t[k] \in Nat
      /\ s[1] \in Nat
  <2>1. 1 \in 1 .. Len(s) /\ Len(t) \in Nat
    BY LenProperties, SMT
  <2>2. QED BY <2>1, ElementOfSeq
<1>2. /\ SumOf(s) = g[Len(s)] /\ g[0] = 0
      /\ \A k \in 1 .. Len(s) : g[k] = g[k-1] + s[k]
  BY PartialSums
<1>3. /\ SumOf(t) = h[Len(t)] /\ h[0] = 0
      /\ \A k \in 1 .. Len(t) : h[k] = h[k-1] + t[k]
      /\ \A k \in 0 .. Len(t) : h[k] \in Nat
  BY PartialSums
<1> HIDE DEF g, h
<1> DEFINE N == {k \in 0 .. Len(t) : g[k+1] = h[k] + s[1]}
<1>4. 0 \in N
  <2>1. 1 \in 1 .. Len(s) /\ 0 \in 0 .. Len(t) /\ 0 + 1 = 1 /\ 1 - 1 = 0
    BY <1>1, SMT
  <2>2. g[1] = 0 + s[1]
    BY <1>2, <2>1
  <2>3. QED BY <1>3, <2>1, <2>2
<1>5. ASSUME NEW k \in 1 .. Len(t), k - 1 \in N PROVE k \in N
  <2>1. /\ k + 1 \in 1 .. Len(s) /\ (k + 1) - 1 = k /\ k - 1 + 1 = k
        /\ k \in 0 .. Len(t) /\ k - 1 \in 0 .. Len(t)
    BY <1>1, SMT
  <2>2. /\ g[k+1] = g[k] + s[k+1] /\ h[k] = h[k-1] + t[k] /\ t[k] = s[k+1]
        /\ g[k] = h[k-1] + s[1] /\ h[k-1] \in Nat /\ t[k] \in Nat
    BY <1>1, <1>2, <1>3, <1>5, <2>1
  <2>3. g[k+1] = h[k] + s[1]
    <3> DEFINE a == h[k-1]
               b == t[k]
               c == s[1]
    <3>1. a \in Nat /\ b \in Nat /\ c \in Nat /\ h[k] = a + b /\ g[k+1] = (a + c) + b
      BY <1>1, <2>2
    <3> HIDE DEF a, b, c
    <3>2. (a + c) + b = (a + b) + c
      BY <3>1, SMT
    <3>3. QED BY <3>1, <3>2 DEF c
  <2>4. QED BY <2>1, <2>3
<1>6. \A k \in 0 .. Len(t) : k \in N
  <2> HIDE DEF N
  <2>1. QED BY <1>1, <1>4, <1>5, InductionUpTo
<1>7. Len(t) \in 0 .. Len(t)
  BY <1>1, SMT
<1>8. QED BY <1>2, <1>3, <1>6, <1>7

-----------------------------------------------------------------------------
(* Sizes *)

Events == [dir : 0..1, data : Seq(Symbols) \ {<<>>}]
Rows == [at : Nat, bytes : Nat]
Binaries == [seq : Nat, text : {FALSE}, body : Seq(Events)]
Sidecars == [seq : Nat, text : {TRUE}, body : Seq(Rows)]
Files == Binaries \cup Sidecars

LEMMA CaptureConstantsOK ==
  /\ MaxTotalBytes \in Nat \ {0} /\ RingEvents \in Nat \ {0} /\ MaxEventPayload \in Nat \ {0}
  /\ SymbolBytes \in Nat \ {0} /\ BannerBytes \in Nat
  /\ Payloads \subseteq Seq(Symbols) \ {<<>>}
BY CaptureAssumption

LEMMA EventBytesIsNat == ASSUME NEW e \in Events PROVE EventBytes(e) \in Nat
<1>1. e.data \in Seq(Symbols)
  BY DEF Events
<1>2. Len(e.data) \in Nat
  BY <1>1, LenProperties
<1>3. QED BY <1>2, CaptureConstantsOK, SMT DEF EventBytes, kCaptureEventFixedSize

LEMMA HexdumpBytesIsNat == ASSUME NEW n \in Nat PROVE HexdumpBytes(n) \in Nat
<1>1. CeilDiv(n, 16) \in Nat
  BY SMT DEF CeilDiv
<1>2. QED BY <1>1, SMT DEF HexdumpBytes

\* What each event of a .bin and each row of a .txt adds to it.
EventSizes(body) == [i \in DOMAIN body |-> EventBytes(body[i])]
RowSizes(body) == [i \in DOMAIN body |-> HexdumpBytes(body[i].bytes)]

LEMMA EventSizesOK ==
  ASSUME NEW b \in Seq(Events)
  PROVE  /\ EventSizes(b) \in Seq(Nat)
         /\ \A e \in Events : EventSizes(Append(b, e)) = Append(EventSizes(b), EventBytes(e))
<1>1. ASSUME NEW c \in Seq(Events)
      PROVE  /\ EventSizes(c) \in Seq(Nat) /\ Len(EventSizes(c)) = Len(c)
             /\ \A i \in 1 .. Len(c) : EventSizes(c)[i] = EventBytes(c[i])
  <2>1. Len(c) \in Nat /\ DOMAIN c = 1 .. Len(c) /\ \A i \in 1 .. Len(c) : c[i] \in Events
    BY LenProperties, ElementOfSeq
  <2>2. EventSizes(c) = [i \in 1 .. Len(c) |-> EventBytes(c[i])]
    BY <2>1 DEF EventSizes
  <2>3. \A i \in 1 .. Len(c) : EventBytes(c[i]) \in Nat
    BY <2>1, EventBytesIsNat
  <2> HIDE DEF EventSizes
  <2>4. EventSizes(c) \in Seq(Nat)
    BY <2>1, <2>2, <2>3, IsASeq
  <2>5. QED BY <2>1, <2>2, <2>4, LenProperties
<1>2. ASSUME NEW e \in Events PROVE EventSizes(Append(b, e)) = Append(EventSizes(b), EventBytes(e))
  <2> DEFINE c == Append(b, e)
             x == EventSizes(b)
             y == EventSizes(c)
             z == Append(x, EventBytes(e))
  <2>1. /\ c \in Seq(Events) /\ Len(c) = Len(b) + 1 /\ Len(b) \in Nat
        /\ \A i \in 1 .. Len(b) : c[i] = b[i]
        /\ c[Len(b) + 1] = e
    BY AppendProperties, LenProperties
  <2> HIDE DEF c
  <2>2. /\ x \in Seq(Nat) /\ Len(x) = Len(b)
        /\ \A i \in 1 .. Len(b) : x[i] = EventBytes(b[i])
    BY <1>1
  <2>3. /\ y \in Seq(Nat) /\ Len(y) = Len(b) + 1
        /\ \A i \in 1 .. Len(b) + 1 : y[i] = EventBytes(c[i])
    BY <1>1, <2>1
  <2> HIDE DEF x, y
  <2>4. /\ z \in Seq(Nat) /\ Len(z) = Len(b) + 1
        /\ \A i \in 1 .. Len(b) : z[i] = x[i]
        /\ z[Len(b) + 1] = EventBytes(e)
    BY <2>2, EventBytesIsNat, AppendProperties
  <2> HIDE DEF z
  <2>5. ASSUME NEW i \in 1 .. Len(b) + 1 PROVE y[i] = z[i]
    <3>1. i \in 1 .. Len(b) \/ i = Len(b) + 1
      BY <2>1, SMT
    <3>2. QED BY <2>1, <2>2, <2>3, <2>4, <3>1
  <2>6. y = z
    BY <2>3, <2>4, <2>5, SeqEqual
  <2>7. QED BY <2>6 DEF c, x, y, z
<1>3. QED BY <1>1, <1>2

LEMMA RowSizesOK ==
  ASSUME NEW b \in Seq(Rows)
  PROVE  /\ RowSizes(b) \in Seq(Nat)
         /\ \A r \in Rows : RowSizes(Append(b, r)) = Append(RowSizes(b), HexdumpBytes(r.bytes))
<1>1. ASSUME NEW c \in Seq(Rows)
      PROVE  /\ RowSizes(c) \in Seq(Nat) /\ Len(RowSizes(c)) = Len(c)
             /\ \A i \in 1 .. Len(c) : RowSizes(c)[i] = HexdumpBytes(c[i].bytes)
  <2>1. Len(c) \in Nat /\ DOMAIN c = 1 .. Len(c) /\ \A i \in 1 .. Len(c) : c[i] \in Rows
    BY LenProperties, ElementOfSeq
  <2>2. RowSizes(c) = [i \in 1 .. Len(c) |-> HexdumpBytes(c[i].bytes)]
    BY <2>1 DEF RowSizes
  <2>3. \A i \in 1 .. Len(c) : HexdumpBytes(c[i].bytes) \in Nat
    BY <2>1, HexdumpBytesIsNat DEF Rows
  <2> HIDE DEF RowSizes
  <2>4. RowSizes(c) \in Seq(Nat)
    BY <2>1, <2>2, <2>3, IsASeq
  <2>5. QED BY <2>1, <2>2, <2>4, LenProperties
<1>2. ASSUME NEW r \in Rows PROVE RowSizes(Append(b, r)) = Append(RowSizes(b), HexdumpBytes(r.bytes))
  <2> DEFINE c == Append(b, r)
             x == RowSizes(b)
             y == RowSizes(c)
             z == Append(x, HexdumpBytes(r.bytes))
  <2>1. /\ c \in Seq(Rows) /\ Len(c) = Len(b) + 1 /\ Len(b) \in Nat
        /\ \A i \in 1 .. Len(b) : c[i] = b[i]
        /\ c[Len(b) + 1] = r
    BY AppendProperties, LenProperties
  <2> HIDE DEF c
  <2>2. /\ x \in Seq(Nat) /\ Len(x) = Len(b)
        /\ \A i \in 1 .. Len(b) : x[i] = HexdumpBytes(b[i].bytes)
    BY <1>1
  <2>3. /\ y \in Seq(Nat) /\ Len(y) = Len(b) + 1
        /\ \A i \in 1 .. Len(b) + 1 : y[i] = HexdumpBytes(c[i].bytes)
    BY <1>1, <2>1
  <2> HIDE DEF x, y
  <2>4. /\ z \in Seq(Nat) /\ Len(z) = Len(b) + 1
        /\ \A i \in 1 .. Len(b) : z[i] = x[i]
        /\ z[Len(b) + 1] = HexdumpBytes(r.bytes)
    <3>1. HexdumpBytes(r.bytes) \in Nat
      BY HexdumpBytesIsNat DEF Rows
    <3>2. QED BY <2>2, <3>1, AppendProperties
  <2> HIDE DEF z
  <2>5. ASSUME NEW i \in 1 .. Len(b) + 1 PROVE y[i] = z[i]
    <3>1. i \in 1 .. Len(b) \/ i = Len(b) + 1
      BY <2>1, SMT
    <3>2. QED BY <2>1, <2>2, <2>3, <2>4, <3>1
  <2>6. y = z
    BY <2>3, <2>4, <2>5, SeqEqual
  <2>7. QED BY <2>6 DEF c, x, y, z
<1>3. QED BY <1>1, <1>2

LEMMA FileBytesByKind ==
  ASSUME NEW f \in Files
  PROVE  /\ f \in Binaries => /\ f.body \in Seq(Events) /\ ~f.text
                              /\ FileBytes(f) = kCaptureHeaderSize + SumOf(EventSizes(f.body))
         /\ f \in Sidecars => /\ f.body \in Seq(Rows) /\ f.text
                              /\ FileBytes(f) = BannerBytes + SumOf(RowSizes(f.body))
         /\ FileBytes(f) \in Nat
<1>1. CASE f \in Binaries
  <2>1. f.body \in Seq(Events) /\ f.text = FALSE
    BY <1>1 DEF Binaries
  <2>2. FileBytes(f) = kCaptureHeaderSize + SumOf(EventSizes(f.body))
    BY <2>1 DEF FileBytes, EventSizes
  <2>3. SumOf(EventSizes(f.body)) \in Nat
    BY <2>1, EventSizesOK, SumIsNat
  <2>4. f \notin Sidecars
    BY <2>1 DEF Sidecars
  <2>5. QED BY <2>1, <2>2, <2>3, <2>4, SMT DEF kCaptureHeaderSize
<1>2. CASE f \in Sidecars
  <2>1. f.body \in Seq(Rows) /\ f.text = TRUE
    BY <1>2 DEF Sidecars
  <2>2. FileBytes(f) = BannerBytes + SumOf(RowSizes(f.body))
    BY <2>1 DEF FileBytes, RowSizes
  <2>3. SumOf(RowSizes(f.body)) \in Nat
    BY <2>1, RowSizesOK, SumIsNat
  <2>4. f \notin Binaries
    BY <2>1 DEF Binaries
  <2>5. QED BY <2>1, <2>2, <2>3, <2>4, CaptureConstantsOK, SMT
<1>3. QED BY <1>1, <1>2 DEF Files

\* Appending an event to a .bin, or a row to a .txt, adds its size to the file's.
LEMMA FileBytesGrow ==
  /\ \A f \in Binaries, e \in Events :
       /\ [f EXCEPT !.body = Append(@, e)] \in Binaries
       /\ FileBytes([f EXCEPT !.body = Append(@, e)]) = FileBytes(f) + EventBytes(e)
  /\ \A f \in Sidecars, r \in Rows :
       /\ [f EXCEPT !.body = Append(@, r)] \in Sidecars
       /\ FileBytes([f EXCEPT !.body = Append(@, r)]) = FileBytes(f) + HexdumpBytes(r.bytes)
<1>1. ASSUME NEW f \in Binaries, NEW e \in Events
      PROVE  /\ [f EXCEPT !.body = Append(@, e)] \in Binaries
             /\ FileBytes([f EXCEPT !.body = Append(@, e)]) = FileBytes(f) + EventBytes(e)
  <2> DEFINE g == [f EXCEPT !.body = Append(@, e)]
  <2>1. f.body \in Seq(Events) /\ Append(f.body, e) \in Seq(Events)
    BY AppendProperties DEF Binaries
  <2>2. g \in Binaries /\ g.body = Append(f.body, e)
    BY <2>1 DEF Binaries
  <2> HIDE DEF g
  <2>3. /\ FileBytes(f) = kCaptureHeaderSize + SumOf(EventSizes(f.body))
        /\ FileBytes(g) = kCaptureHeaderSize + SumOf(EventSizes(g.body))
    BY <2>2, FileBytesByKind DEF Files
  <2>4. SumOf(EventSizes(g.body)) = SumOf(EventSizes(f.body)) + EventBytes(e)
    BY <2>1, <2>2, EventSizesOK, EventBytesIsNat, SumOfAppend
  <2>5. SumOf(EventSizes(f.body)) \in Nat /\ EventBytes(e) \in Nat
    BY <2>1, EventSizesOK, EventBytesIsNat, SumIsNat
  <2>6. FileBytes(g) = FileBytes(f) + EventBytes(e)
    BY <2>3, <2>4, <2>5, SMT DEF kCaptureHeaderSize
  <2>7. QED BY <2>2, <2>6 DEF g
<1>2. ASSUME NEW f \in Sidecars, NEW r \in Rows
      PROVE  /\ [f EXCEPT !.body = Append(@, r)] \in Sidecars
             /\ FileBytes([f EXCEPT !.body = Append(@, r)]) = FileBytes(f) + HexdumpBytes(r.bytes)
  <2> DEFINE g == [f EXCEPT !.body = Append(@, r)]
  <2>1. f.body \in Seq(Rows) /\ Append(f.body, r) \in Seq(Rows) /\ r.bytes \in Nat
    BY AppendProperties DEF Sidecars, Rows
  <2>2. g \in Sidecars /\ g.body = Append(f.body, r)
    BY <2>1 DEF Sidecars
  <2> HIDE DEF g
  <2>3. /\ FileBytes(f) = BannerBytes + SumOf(RowSizes(f.body))
        /\ FileBytes(g) = BannerBytes + SumOf(RowSizes(g.body))
    BY <2>2, FileBytesByKind DEF Files
  <2>4. HexdumpBytes(r.bytes) \in Nat
    BY <2>1, HexdumpBytesIsNat
  <2>5. SumOf(RowSizes(g.body)) = SumOf(RowSizes(f.body)) + HexdumpBytes(r.bytes)
    BY <2>1, <2>2, <2>4, RowSizesOK, SumOfAppend
  <2>6. SumOf(RowSizes(f.body)) \in Nat
    BY <2>1, RowSizesOK, SumIsNat
  <2>7. FileBytes(g) = FileBytes(f) + HexdumpBytes(r.bytes)
    BY <2>3, <2>4, <2>5, <2>6, CaptureConstantsOK, SMT
  <2>8. QED BY <2>2, <2>7 DEF g
<1>3. QED BY <1>1, <1>2

Sizes(files) == [i \in DOMAIN files |-> FileBytes(files[i])]

LEMMA SizesOK ==
  ASSUME NEW fs \in Seq(Files)
  PROVE  /\ Sizes(fs) \in Seq(Nat) /\ Len(Sizes(fs)) = Len(fs) /\ Len(fs) \in Nat
         /\ DOMAIN fs = 1 .. Len(fs) /\ \A i \in 1 .. Len(fs) : fs[i] \in Files
         /\ \A i \in 1 .. Len(fs) : Sizes(fs)[i] = FileBytes(fs[i]) /\ FileBytes(fs[i]) \in Nat
         /\ StoredBytes(fs) = SumOf(Sizes(fs)) /\ StoredBytes(fs) \in Nat
<1>1. Len(fs) \in Nat /\ DOMAIN fs = 1 .. Len(fs) /\ \A i \in 1 .. Len(fs) : fs[i] \in Files
  BY LenProperties, ElementOfSeq
<1>2. Sizes(fs) = [i \in 1 .. Len(fs) |-> FileBytes(fs[i])]
  BY <1>1 DEF Sizes
<1>3. \A i \in 1 .. Len(fs) : FileBytes(fs[i]) \in Nat
  BY <1>1, FileBytesByKind
<1>4. StoredBytes(fs) = SumOf(Sizes(fs))
  BY DEF StoredBytes, Sizes
<1> HIDE DEF Sizes
<1>5. Sizes(fs) \in Seq(Nat)
  BY <1>1, <1>2, <1>3, IsASeq
<1>6. QED BY <1>1, <1>2, <1>3, <1>4, <1>5, LenProperties, SumIsNat

\* A file replaced by one that is d bytes longer.
LEMMA StoredBytesGrow ==
  ASSUME NEW fs \in Seq(Files), NEW i \in 1 .. Len(fs), NEW f \in Files, NEW d \in Nat,
         FileBytes(f) = FileBytes(fs[i]) + d
  PROVE  LET gs == [fs EXCEPT ![i] = f]
         IN  /\ gs \in Seq(Files) /\ Len(gs) = Len(fs)
             /\ \A j \in 1 .. Len(fs) : gs[j] = IF j = i THEN f ELSE fs[j]
             /\ StoredBytes(gs) = StoredBytes(fs) + d
<1> DEFINE gs == [fs EXCEPT ![i] = f]
<1>1. /\ gs \in Seq(Files) /\ Len(gs) = Len(fs)
      /\ \A j \in 1 .. Len(fs) : gs[j] = IF j = i THEN f ELSE fs[j]
  BY ExceptSeq, SizesOK
<1> HIDE DEF gs
<1> DEFINE s == Sizes(fs)
           t == Sizes(gs)
<1>2. /\ s \in Seq(Nat) /\ Len(s) = Len(fs) /\ StoredBytes(fs) = SumOf(s)
      /\ \A j \in 1 .. Len(fs) : s[j] = FileBytes(fs[j])
  BY SizesOK
<1>3. /\ t \in Seq(Nat) /\ Len(t) = Len(fs) /\ StoredBytes(gs) = SumOf(t)
      /\ \A j \in 1 .. Len(fs) : t[j] = FileBytes(gs[j])
  BY <1>1, SizesOK
<1> HIDE DEF s, t
<1>4. t[i] = s[i] + d /\ \A j \in 1 .. Len(s) : j # i => t[j] = s[j]
  BY <1>1, <1>2, <1>3
<1>5. SumOf(t) = SumOf(s) + d
  BY <1>2, <1>3, <1>4, SumWithMore
<1>6. QED BY <1>1, <1>2, <1>3, <1>5 DEF gs

\* The oldest file is removed.
LEMMA StoredBytesShrink ==
  ASSUME NEW fs \in Seq(Files), fs # <<>>
  PROVE  LET gs == RemoveAt(fs, 1)
         IN  /\ gs \in Seq(Files) /\ Len(gs) = Len(fs) - 1
             /\ \A j \in 1 .. Len(gs) : gs[j] = fs[j+1]
             /\ StoredBytes(fs) - FileBytes(fs[1]) = StoredBytes(gs)
<1> DEFINE gs == RemoveAt(fs, 1)
<1>1. /\ gs \in Seq(Files) /\ Len(gs) = Len(fs) - 1 /\ Len(fs) \in Nat /\ Len(gs) \in Nat
      /\ \A j \in 1 .. Len(gs) : gs[j] = fs[j+1]
  <2>1. Len(fs) \in Nat /\ Len(fs) # 0
    BY EmptySeq, LenProperties
  <2>2. /\ Tail(fs) \in Seq(Files) /\ Len(Tail(fs)) = Len(fs) - 1
        /\ \A j \in 1 .. Len(Tail(fs)) : Tail(fs)[j] = fs[j+1]
    BY HeadTailProperties
  <2>3. gs = SubSeq(fs, 1, 0) \o SubSeq(fs, 2, Len(fs))
    BY SMT DEF RemoveAt
  <2>4. SubSeq(fs, 1, 0) = <<>> /\ SubSeq(fs, 2, Len(fs)) = Tail(fs)
    BY <2>1, SubSeqEmpty, TailIsSubSeq, SMT
  <2>5. gs = Tail(fs)
    BY <2>2, <2>3, <2>4, ConcatEmptySeq
  <2>6. Len(fs) - 1 \in Nat
    BY <2>1, SMT
  <2> HIDE DEF gs
  <2>7. QED BY <2>1, <2>2, <2>5, <2>6
<1> HIDE DEF gs
<1> DEFINE s == Sizes(fs)
           t == Sizes(gs)
<1>2. /\ s \in Seq(Nat) /\ Len(s) = Len(fs) /\ StoredBytes(fs) = SumOf(s)
      /\ \A j \in 1 .. Len(fs) : s[j] = FileBytes(fs[j])
  BY SizesOK
<1>3. /\ t \in Seq(Nat) /\ Len(t) = Len(gs) /\ StoredBytes(gs) = SumOf(t)
      /\ \A j \in 1 .. Len(gs) : t[j] = FileBytes(gs[j])
      /\ StoredBytes(gs) \in Nat
  BY <1>1, SizesOK
<1> HIDE DEF s, t
<1>4. /\ Len(s) = Len(t) + 1 /\ 1 \in 1 .. Len(fs)
      /\ \A j \in 1 .. Len(t) : j + 1 \in 1 .. Len(fs)
  BY <1>1, <1>2, <1>3, SMT
<1>5. \A j \in 1 .. Len(t) : t[j] = s[j+1]
  BY <1>1, <1>2, <1>3, <1>4
<1>6. SumOf(s) = SumOf(t) + s[1]
  BY <1>2, <1>3, <1>4, <1>5, SumWithoutFirst
<1>7. s[1] = FileBytes(fs[1]) /\ FileBytes(fs[1]) \in Nat
  BY <1>2, <1>4, SizesOK
<1>8. StoredBytes(fs) - FileBytes(fs[1]) = StoredBytes(gs)
  BY <1>2, <1>3, <1>6, <1>7, SMT
<1>9. QED BY <1>1, <1>8 DEF gs

\* A file joins at the end.
LEMMA StoredBytesJoin ==
  ASSUME NEW fs \in Seq(Files), NEW f \in Files
  PROVE  StoredBytes(Append(fs, f)) = StoredBytes(fs) + FileBytes(f)
<1> DEFINE gs == Append(fs, f)
           s == Sizes(fs)
           t == Sizes(gs)
           u == Append(s, FileBytes(f))
<1>1. /\ gs \in Seq(Files) /\ Len(gs) = Len(fs) + 1
      /\ \A j \in 1 .. Len(fs) : gs[j] = fs[j]
      /\ gs[Len(fs) + 1] = f
  BY AppendProperties
<1> HIDE DEF gs
<1>2. /\ s \in Seq(Nat) /\ Len(s) = Len(fs) /\ StoredBytes(fs) = SumOf(s) /\ Len(fs) \in Nat
      /\ \A j \in 1 .. Len(fs) : s[j] = FileBytes(fs[j])
  BY SizesOK
<1>3. /\ t \in Seq(Nat) /\ Len(t) = Len(fs) + 1 /\ StoredBytes(gs) = SumOf(t)
      /\ \A j \in 1 .. Len(fs) + 1 : t[j] = FileBytes(gs[j])
  BY <1>1, SizesOK
<1> HIDE DEF s, t
<1>4. FileBytes(f) \in Nat
  BY FileBytesByKind
<1>5. /\ u \in Seq(Nat) /\ Len(u) = Len(fs) + 1
      /\ \A j \in 1 .. Len(fs) : u[j] = s[j]
      /\ u[Len(fs) + 1] = FileBytes(f)
  BY <1>2, <1>4, AppendProperties
<1> HIDE DEF u
<1>6. ASSUME NEW j \in 1 .. Len(fs) + 1 PROVE t[j] = u[j]
  <2>1. j \in 1 .. Len(fs) \/ j = Len(fs) + 1
    BY <1>2, SMT
  <2>2. QED BY <1>1, <1>2, <1>3, <1>5, <2>1
<1>7. t = u
  BY <1>3, <1>5, <1>6, SeqEqual
<1>8. SumOf(t) = SumOf(s) + FileBytes(f)
  BY <1>2, <1>4, <1>7, SumOfAppend DEF u
<1>9. QED BY <1>2, <1>3, <1>8 DEF gs

-----------------------------------------------------------------------------
(* The store *)

Stores == [files : Seq(Files), bin : Nat, txt : Nat, total : Nat, drops : Nat]

\* Of the `top` pairs ever opened the store holds the last files, and the last two are
\* live or none is.
Shaped(st, top, live) ==
  LET n == Len(st.files)
  IN  /\ n <= 2 * top
      /\ \A i \in 1..n : /\ st.files[i].seq = CeilDiv(2 * top - n + i, 2)
                         /\ st.files[i].text <=> (2 * top - n + i) % 2 = 0
      /\ live => n >= 2 /\ st.bin = n - 1 /\ st.txt = n
      /\ ~live => st.bin = 0 /\ st.txt = 0

\* The rows of a .txt walk its .bin.
EndOfRow(rows, k) == IF k = 0 THEN kCaptureHeaderSize ELSE rows[k].at + rows[k].bytes

Walks(rows, bin) ==
  /\ \A k \in DOMAIN rows : rows[k].at = EndOfRow(rows, k - 1)
  /\ EndOfRow(rows, Len(rows)) = FileBytes(bin)

Covered(files) == \A i \in 2 .. Len(files) : files[i].text => Walks(files[i].body, files[i-1])

Sound(st, top, live) ==
  /\ st \in Stores
  /\ st.total = StoredBytes(st.files)
  /\ Shaped(st, top, live)
  /\ Covered(st.files)

LEMMA StoreTypes ==
  ASSUME NEW st \in Stores
  PROVE  /\ st.files \in Seq(Files) /\ Len(st.files) \in Nat
         /\ DOMAIN st.files = 1 .. Len(st.files)
         /\ \A i \in 1 .. Len(st.files) : st.files[i] \in Files
         /\ st.bin \in Nat /\ st.txt \in Nat /\ st.total \in Nat /\ st.drops \in Nat
<1>1. st.files \in Seq(Files) /\ st.bin \in Nat /\ st.txt \in Nat /\ st.total \in Nat /\ st.drops \in Nat
  BY DEF Stores
<1>2. QED BY <1>1, SizesOK

\* One turn of enforce_budget_ while a capture is open: with more than the live pair in
\* the store the oldest file goes, and everything moves down by one.
LEMMA EvictOldestWhileOpen ==
  ASSUME NEW top \in Nat, NEW st, Sound(st, top, TRUE)
  PROVE  /\ Len(st.files) = 2 => EvictOldest(st) = st
         /\ Len(st.files) # 2 =>
              LET to == EvictOldest(st)
              IN  /\ Sound(to, top, TRUE)
                  /\ Len(to.files) = Len(st.files) - 1
                  /\ \A i \in 1 .. Len(to.files) : to.files[i] = st.files[i+1]
                  /\ to.drops = st.drops
<1> DEFINE n == Len(st.files)
           closed == DOMAIN st.files \ {st.bin, st.txt}
<1>1. /\ st \in Stores /\ st.total = StoredBytes(st.files) /\ Covered(st.files)
      /\ st.files \in Seq(Files) /\ n \in Nat /\ DOMAIN st.files = 1..n
      /\ st.bin \in Nat /\ st.txt \in Nat /\ st.total \in Nat /\ st.drops \in Nat
  BY StoreTypes DEF Sound
<1>2. /\ n <= 2 * top
      /\ \A i \in 1..n : /\ st.files[i].seq = CeilDiv(2 * top - n + i, 2)
                         /\ st.files[i].text <=> (2 * top - n + i) % 2 = 0
      /\ n >= 2 /\ st.bin = n - 1 /\ st.txt = n
  BY DEF Sound, Shaped
<1>3. CASE n = 2
  <2>1. closed = {}
    BY <1>1, <1>2, <1>3, SMT
  <2>2. QED BY <1>3, <2>1 DEF EvictOldest
<1>4. CASE n # 2
  <2>0. n \in Nat /\ n >= 2 /\ n <= 2 * top /\ n # 2
    BY <1>1, <1>2, <1>4
  <2>1. closed # {} /\ Min(closed) = 1
    <3>1. 1 \in closed /\ \A y \in closed : y \in Int /\ 1 <= y
      <4>1. closed = (1..n) \ {n - 1, n}
        BY <1>1, <1>2
      <4> HIDE DEF n
      <4>2. /\ 1 \in (1..n) \ {n - 1, n}
            /\ \A y \in (1..n) \ {n - 1, n} : y \in Int /\ 1 <= y
        BY <2>0, SMT
      <4> HIDE DEF closed
      <4>3. QED BY <4>1, <4>2
    <3>2. \E m \in closed : \A y \in closed : m <= y
      BY <3>1
    <3> HIDE DEF closed
    <3>3. Min(closed) \in closed /\ \A y \in closed : Min(closed) <= y
      BY <3>2 DEF Min
    <3>4. Min(closed) <= 1 /\ 1 <= Min(closed) /\ Min(closed) \in Int
      BY <3>1, <3>3
    <3>5. Min(closed) = 1
      BY <3>4, SMT
    <3>6. QED BY <3>1, <3>5
  <2> DEFINE gs == RemoveAt(st.files, 1)
             to == EvictOldest(st)
  <2>2. /\ gs \in Seq(Files) /\ Len(gs) = n - 1
        /\ \A j \in 1 .. n - 1 : gs[j] = st.files[j+1]
        /\ st.total - FileBytes(st.files[1]) = StoredBytes(gs) /\ StoredBytes(gs) \in Nat
    <3>1. st.files # <<>>
      BY <1>1, <1>2, EmptySeq, SMT
    <3>2. /\ gs \in Seq(Files) /\ Len(gs) = n - 1
          /\ \A j \in 1 .. Len(gs) : gs[j] = st.files[j+1]
          /\ st.total - FileBytes(st.files[1]) = StoredBytes(gs)
      BY <1>1, <3>1, StoredBytesShrink
    <3> HIDE DEF gs
    <3>3. QED BY <3>2, SizesOK
  <2>3. to = [st EXCEPT !.files = gs,
                        !.total = @ - FileBytes(st.files[1]),
                        !.bin = IF @ > 1 THEN @ - 1 ELSE @,
                        !.txt = IF @ > 1 THEN @ - 1 ELSE @]
    BY <2>1 DEF EvictOldest
  <2> HIDE DEF gs, to
  <2>4. /\ to.files = gs /\ to.total = StoredBytes(gs) /\ to.drops = st.drops
        /\ to.bin = n - 2 /\ to.txt = n - 1
    <3>1. /\ to.files = gs /\ to.total = st.total - FileBytes(st.files[1]) /\ to.drops = st.drops
          /\ to.bin = (IF st.bin > 1 THEN st.bin - 1 ELSE st.bin)
          /\ to.txt = (IF st.txt > 1 THEN st.txt - 1 ELSE st.txt)
      BY <1>1, <2>3 DEF Stores
    <3>2. n - 1 > 1 /\ n > 1 /\ (n - 1) - 1 = n - 2
      <4> HIDE DEF n
      <4>1. QED BY <2>0, SMT
    <3>3. to.bin = n - 2 /\ to.txt = n - 1
      BY <1>2, <3>1, <3>2
    <3>4. QED BY <2>2, <3>1, <3>3
  <2>5. to \in Stores
    <3>1. n - 2 \in Nat /\ n - 1 \in Nat
      BY <1>1, <1>2, SMT
    <3>2. to = [files |-> to.files, bin |-> to.bin, txt |-> to.txt, total |-> to.total,
                drops |-> to.drops]
      BY <1>1, <2>3 DEF Stores
    <3>3. QED BY <1>1, <2>2, <2>4, <3>1, <3>2 DEF Stores
  <2>6. Shaped(to, top, TRUE)
    <3>1. /\ n - 1 <= 2 * top /\ n - 1 >= 2 /\ to.bin = (n - 1) - 1 /\ to.txt = n - 1
      <4>1. n - 1 <= 2 * top /\ n - 1 >= 2 /\ n - 2 = (n - 1) - 1
        <5> HIDE DEF n
        <5>1. QED BY <2>0, SMT
      <4>2. QED BY <2>4, <4>1
    <3>2. ASSUME NEW i \in 1 .. n - 1
          PROVE  /\ gs[i].seq = CeilDiv(2 * top - (n - 1) + i, 2)
                 /\ gs[i].text <=> (2 * top - (n - 1) + i) % 2 = 0
      <4>1. i + 1 \in 1..n /\ 2 * top - n + (i + 1) = 2 * top - (n - 1) + i
        <5> HIDE DEF n
        <5>1. QED BY <2>0, SMT
      <4>2. QED BY <1>2, <2>2, <4>1
    <3>3. QED BY <2>2, <2>4, <3>1, <3>2 DEF Shaped
  <2>7. Covered(gs)
    <3> SUFFICES ASSUME NEW i \in 2 .. n - 1, gs[i].text PROVE Walks(gs[i].body, gs[i-1])
      BY <2>2 DEF Covered
    <3>1. /\ i \in 1 .. n - 1 /\ i - 1 \in 1 .. n - 1 /\ i + 1 \in 2..n
          /\ (i - 1) + 1 = (i + 1) - 1
      BY <1>1, SMT
    <3>2. gs[i] = st.files[i+1] /\ gs[i-1] = st.files[(i+1) - 1]
      BY <2>2, <3>1
    <3>3. QED BY <1>1, <3>1, <3>2 DEF Covered
  <2>8. QED BY <1>4, <2>2, <2>4, <2>5, <2>6, <2>7 DEF to, Sound
<1>5. QED BY <1>3, <1>4

\* One turn of enforce_budget_'s loop, and all of them.
Turn(st) == IF st.total > MaxTotalBytes THEN EvictOldest(st) ELSE st

LEMMA EnforceBudgetRun ==
  ASSUME NEW S, NEW st \in S, st.files \in Seq(Files), \A s \in S : Turn(s) \in S
  PROVE  \E f : /\ f[0] = st /\ EnforceBudget(st) = f[Len(st.files)]
                /\ \A k \in 0 .. Len(st.files) : f[k] \in S
                /\ \A k \in 1 .. Len(st.files) : f[k] = Turn(f[k-1])
<1> DEFINE n == Len(st.files)
           step == [s \in S |-> [e \in Files |-> Turn(s)]]
           IsFold(g) == g = [k \in 0..n |-> IF k = 0 THEN st ELSE Turn(g[k-1])]
           g == CHOOSE g : IsFold(g)
<1>1. n \in Nat /\ \A k \in 1..n : st.files[k] \in Files
  BY SizesOK
<1>2. step \in [S -> [Files -> S]] /\ \A s \in S, e \in Files : step[s][e] = Turn(s)
  OBVIOUS
<1> HIDE DEF step
<1>3. PICK f \in [0..n -> S] : IsRun(f, step, st, st.files)
  BY <1>2, RunExists
<1>4. f[0] = st /\ \A k \in 1..n : f[k] = Turn(f[k-1])
  <2>1. ASSUME NEW k \in 1..n PROVE f[k] = Turn(f[k-1])
    <3>1. k - 1 \in 0..n
      BY <1>1, SMT
    <3>2. f[k-1] \in S /\ st.files[k] \in Files /\ f[k] = step[f[k-1]][st.files[k]]
      BY <1>1, <1>3, <3>1 DEF IsRun
    <3>3. QED BY <1>2, <3>2
  <2>2. QED BY <1>3, <2>1 DEF IsRun
<1>5. IsFold(f)
  <2> HIDE DEF n
  <2>1. \A k \in 0..n : k = 0 \/ k \in 1..n
    BY <1>1, SMT
  <2>2. \A k \in 0..n : f[k] = IF k = 0 THEN st ELSE Turn(f[k-1])
    BY <1>1, <1>4, <2>1, SMT
  <2>3. QED BY <1>3, <2>2
<1>6. IsFold(g)
  <2> HIDE DEF IsFold
  <2>1. QED BY <1>5
<1>7. EnforceBudget(st) = g[n]
  BY DEF EnforceBudget, Turn
<1> HIDE DEF g
<1>8. g[0] = st /\ \A k \in 1..n : g[k] = Turn(g[k-1])
  <2> HIDE DEF n
  <2>1. 0 \in 0..n /\ \A k \in 1..n : k \in 0..n /\ k # 0
    BY <1>1, SMT
  <2>2. QED BY <1>6, <2>1
<1>9. \A k \in 0..n : g[k] \in S
  <2> DEFINE N == {k \in 0..n : g[k] \in S}
  <2> HIDE DEF n
  <2>1. 0 \in N
    BY <1>1, <1>8, SMT
  <2>2. ASSUME NEW k \in 1..n, k - 1 \in N PROVE k \in N
    <3>1. k \in 0..n
      BY <1>1, SMT
    <3>2. g[k-1] \in S /\ g[k] = Turn(g[k-1])
      BY <1>8, <2>2
    <3>3. QED BY <3>1, <3>2
  <2>3. \A k \in 0..n : k \in N
    <3> HIDE DEF N
    <3>1. QED BY <1>1, <2>1, <2>2, InductionUpTo
  <2>4. QED BY <2>3
<1>10. QED BY <1>7, <1>8, <1>9

\* enforce_budget_ while a capture is open: it removes files from the front alone, and
\* stops only within the budget or with the live pair left.
LEMMA EnforceBudgetWhileOpen ==
  ASSUME NEW top \in Nat, NEW st, Sound(st, top, TRUE)
  PROVE  LET to == EnforceBudget(st)
         IN  /\ Sound(to, top, TRUE)
             /\ to.total > MaxTotalBytes => Len(to.files) = 2
             /\ to.drops = st.drops
             /\ Len(to.files) <= Len(st.files)
             /\ \A i \in 1 .. Len(to.files) :
                  to.files[i] = st.files[Len(st.files) - Len(to.files) + i]
<1> DEFINE n == Len(st.files)
           S == {s \in Stores : /\ Sound(s, top, TRUE)
                                /\ s.drops = st.drops
                                /\ Len(s.files) <= n
                                /\ \A i \in 1 .. Len(s.files) :
                                     s.files[i] = st.files[n - Len(s.files) + i]}
<1>1. st \in Stores /\ st.files \in Seq(Files) /\ n \in Nat
  BY StoreTypes DEF Sound
<1>2. st \in S
  <2>1. n <= n /\ \A i \in 1..n : n - n + i = i
    <3> HIDE DEF n
    <3>1. QED BY <1>1, SMT
  <2>2. QED BY <1>1, <2>1
<1>3. ASSUME NEW s \in S PROVE /\ Turn(s) \in S
                               /\ \/ s.total <= MaxTotalBytes /\ Turn(s) = s
                                  \/ Len(s.files) = 2 /\ Turn(s) = s
                                  \/ /\ ~(s.total <= MaxTotalBytes) /\ Len(s.files) # 2
                                     /\ Len(Turn(s).files) = Len(s.files) - 1
  <2>1. /\ s \in Stores /\ Sound(s, top, TRUE) /\ Len(s.files) \in Nat /\ s.total \in Nat
        /\ s.drops = st.drops /\ Len(s.files) <= n
        /\ \A i \in 1 .. Len(s.files) : s.files[i] = st.files[n - Len(s.files) + i]
    BY StoreTypes
  <2>2. CASE ~(s.total > MaxTotalBytes)
    <3>1. s.total <= MaxTotalBytes
      BY <2>1, <2>2, CaptureConstantsOK, SMT
    <3>2. QED BY <2>2, <3>1 DEF Turn
  <2>3. CASE s.total > MaxTotalBytes /\ Len(s.files) = 2
    BY <2>1, <2>3, EvictOldestWhileOpen DEF Turn
  <2>4. CASE s.total > MaxTotalBytes /\ Len(s.files) # 2
    <3> DEFINE to == Turn(s)
               m == Len(s.files)
    <3>1. /\ Sound(to, top, TRUE) /\ Len(to.files) = m - 1
          /\ \A i \in 1 .. Len(to.files) : to.files[i] = s.files[i+1]
          /\ to.drops = s.drops
      BY <2>1, <2>4, EvictOldestWhileOpen DEF Turn
    <3> HIDE DEF to
    <3>2. to \in Stores /\ Len(to.files) \in Nat
      BY <3>1, StoreTypes DEF Sound
    <3>3. m \in Nat /\ m <= n
      BY <2>1
    <3>4. m - 1 <= n /\ \A i \in 1 .. m - 1 : i + 1 \in 1..m /\ n - m + (i + 1) = n - (m - 1) + i
      <4> HIDE DEF m, n
      <4>1. QED BY <1>1, <3>3, SMT
    <3>5. ASSUME NEW i \in 1 .. Len(to.files)
          PROVE  to.files[i] = st.files[n - Len(to.files) + i]
      BY <2>1, <3>1, <3>4
    <3>6. to \in S
      BY <2>1, <3>1, <3>2, <3>4, <3>5
    <3>7. ~(s.total <= MaxTotalBytes)
      BY <2>1, <2>4, CaptureConstantsOK, SMT
    <3>8. QED BY <2>4, <3>1, <3>6, <3>7 DEF to
  <2>5. QED BY <2>2, <2>3, <2>4
<1> HIDE DEF S
<1>4. PICK f : /\ f[0] = st /\ EnforceBudget(st) = f[n]
               /\ \A k \in 0..n : f[k] \in S
               /\ \A k \in 1..n : f[k] = Turn(f[k-1])
  BY <1>1, <1>2, <1>3, EnforceBudgetRun
<1> DEFINE Done(s) == s.total <= MaxTotalBytes \/ Len(s.files) = 2
           N == {k \in 0..n : Done(f[k]) \/ Len(f[k].files) = n - k}
<1>5. 0 \in N
  <2>1. 0 \in 0..n /\ n = n - 0
    <3> HIDE DEF n
    <3>1. QED BY <1>1, SMT
  <2>2. QED BY <1>4, <2>1
<1>6. ASSUME NEW k \in 1..n, k - 1 \in N PROVE k \in N
  <2>1. k \in 0..n /\ k - 1 \in 0..n /\ n - (k - 1) - 1 = n - k
    <3> HIDE DEF n
    <3>1. QED BY <1>1, SMT
  <2>2. f[k] = Turn(f[k-1]) /\ f[k-1] \in S
    BY <1>4, <2>1
  <2>3. \/ Done(f[k-1]) /\ Turn(f[k-1]) = f[k-1]
        \/ ~Done(f[k-1]) /\ Len(Turn(f[k-1]).files) = Len(f[k-1].files) - 1
    BY <1>3, <2>2
  <2>4. Done(f[k-1]) \/ Len(f[k-1].files) = n - (k - 1)
    BY <1>6
  <2>5. CASE Done(f[k-1]) /\ Turn(f[k-1]) = f[k-1]
    BY <2>1, <2>2, <2>5
  <2>6. CASE Len(Turn(f[k-1]).files) = Len(f[k-1].files) - 1 /\ Len(f[k-1].files) = n - (k - 1)
    BY <2>1, <2>2, <2>6
  <2>7. QED BY <2>3, <2>4, <2>5, <2>6
<1>7. n \in N
  <2>1. \A k \in 0..n : k \in N
    <3> HIDE DEF N, n
    <3>1. QED BY <1>1, <1>5, <1>6, InductionUpTo
  <2>2. n \in 0..n
    BY <1>1, SMT
  <2>3. QED BY <2>1, <2>2
<1> DEFINE to == EnforceBudget(st)
<1>8. to \in S /\ to = f[n]
  <2>1. n \in 0..n
    BY <1>1, SMT
  <2>2. QED BY <1>4, <2>1
<1>9. Done(to)
  <2>1. Sound(to, top, TRUE) /\ Len(to.files) \in Nat
    BY <1>8, StoreTypes DEF S
  <2>2. Len(to.files) >= 2
    BY <2>1 DEF Sound, Shaped
  <2>3. Done(to) \/ Len(to.files) = n - n
    BY <1>7, <1>8
  <2>4. n - n = 0
    BY <1>1, SMT
  <2>5. QED BY <2>1, <2>2, <2>3, <2>4, SMT
<1>10. to.total \in Nat
  BY <1>8, StoreTypes DEF S
<1>11. to.total > MaxTotalBytes => Len(to.files) = 2
  BY <1>9, <1>10, CaptureConstantsOK, SMT
<1>12. QED BY <1>8, <1>11 DEF S

\* Two files join at the end.
LEMMA StoredBytesPair ==
  ASSUME NEW fs \in Seq(Files), NEW b \in Files, NEW t \in Files
  PROVE  LET gs == fs \o <<b, t>>
         IN  /\ gs \in Seq(Files) /\ Len(gs) = Len(fs) + 2
             /\ \A i \in 1 .. Len(fs) : gs[i] = fs[i]
             /\ gs[Len(fs) + 1] = b /\ gs[Len(fs) + 2] = t
             /\ StoredBytes(gs) = StoredBytes(fs) + FileBytes(b) + FileBytes(t)
<1> DEFINE gs == fs \o <<b, t>>
           one == Append(fs, b)
           two == Append(one, t)
           n == Len(fs)
<1>1. n \in Nat
  BY LenProperties
<1>2. /\ one \in Seq(Files) /\ Len(one) = n + 1
      /\ \A i \in 1..n : one[i] = fs[i]
      /\ one[n + 1] = b
      /\ StoredBytes(one) = StoredBytes(fs) + FileBytes(b)
  BY AppendProperties, StoredBytesJoin
<1> HIDE DEF one
<1>3. /\ two \in Seq(Files) /\ Len(two) = (n + 1) + 1
      /\ \A i \in 1 .. n + 1 : two[i] = one[i]
      /\ two[(n + 1) + 1] = t
      /\ StoredBytes(two) = StoredBytes(one) + FileBytes(t)
  BY <1>2, AppendProperties, StoredBytesJoin
<1> HIDE DEF two
<1>4. <<b, t>> \in Seq(Files) /\ Len(<<b, t>>) = 2 /\ <<b, t>>[1] = b /\ <<b, t>>[2] = t
  OBVIOUS
<1>5. /\ gs \in Seq(Files) /\ Len(gs) = n + 2
      /\ \A i \in 1 .. n + 2 : gs[i] = IF i <= n THEN fs[i] ELSE <<b, t>>[i - n]
  BY <1>4, ConcatProperties
<1> HIDE DEF gs
<1>6. /\ \A i \in 1..n : gs[i] = fs[i]
      /\ gs[n + 1] = b /\ gs[n + 2] = t
  <2>1. /\ n + 1 \in 1 .. n + 2 /\ n + 2 \in 1 .. n + 2 /\ ~(n + 1 <= n) /\ ~(n + 2 <= n)
        /\ (n + 1) - n = 1 /\ (n + 2) - n = 2
        /\ \A i \in 1..n : i \in 1 .. n + 2 /\ i <= n
    <3> HIDE DEF n
    <3>1. QED BY <1>1, SMT
  <2>2. QED BY <1>4, <1>5, <2>1
<1>7. two = gs
  <2>1. (n + 1) + 1 = n + 2 /\ \A i \in 1 .. n + 2 : i \in 1..n \/ i = n + 1 \/ i = n + 2
    <3> HIDE DEF n
    <3>1. QED BY <1>1, SMT
  <2>2. n + 1 \in 1 .. n + 1 /\ \A i \in 1..n : i \in 1 .. n + 1
    <3> HIDE DEF n
    <3>1. QED BY <1>1, SMT
  <2>3. \A i \in 1 .. n + 2 : two[i] = gs[i]
    BY <1>2, <1>3, <1>6, <2>1, <2>2
  <2>4. QED BY <1>3, <1>5, <2>1, <2>3, SeqEqual
<1>8. StoredBytes(gs) = StoredBytes(fs) + FileBytes(b) + FileBytes(t)
  BY <1>2, <1>3, <1>7
<1>9. QED BY <1>5, <1>6, <1>8 DEF gs

\* A new capture: a header alone and a banner alone, empty to the store's accounts.
NewBin(seq) == [seq |-> seq, text |-> FALSE, body |-> <<>>]
NewTxt(seq) == [seq |-> seq, text |-> TRUE, body |-> <<>>]

LEMMA NewPair ==
  ASSUME NEW seq \in Nat
  PROVE  /\ NewBin(seq) \in Binaries /\ FileBytes(NewBin(seq)) = kCaptureHeaderSize
         /\ NewTxt(seq) \in Sidecars /\ FileBytes(NewTxt(seq)) = BannerBytes
         /\ Walks(NewTxt(seq).body, NewBin(seq))
<1>1. <<>> \in Seq(Events) /\ <<>> \in Seq(Rows) /\ Len(<<>>) = 0 /\ DOMAIN <<>> = {}
  <2>1. <<>> \in Seq(Events) /\ <<>> \in Seq(Rows) /\ Len(<<>>) = 0
    BY EmptySeq
  <2>2. DOMAIN <<>> = {}
    BY SMT
  <2>3. QED BY <2>1, <2>2
<1>2. NewBin(seq) \in Binaries /\ NewTxt(seq) \in Sidecars
  BY <1>1 DEF NewBin, NewTxt, Binaries, Sidecars
<1>3. EventSizes(<<>>) = <<>> /\ RowSizes(<<>>) = <<>>
  <2>1. Len(EventSizes(<<>>)) = 0 /\ Len(RowSizes(<<>>)) = 0
    BY SMT DEF EventSizes, RowSizes
  <2>2. EventSizes(<<>>) \in Seq(Nat) /\ RowSizes(<<>>) \in Seq(Nat)
    BY <1>1, EventSizesOK, RowSizesOK
  <2>3. QED BY <2>1, <2>2, EmptySeq
<1>4. NewBin(seq).body = <<>> /\ NewTxt(seq).body = <<>>
  BY DEF NewBin, NewTxt
<1>5. FileBytes(NewBin(seq)) = kCaptureHeaderSize /\ FileBytes(NewTxt(seq)) = BannerBytes
  <2>1. /\ FileBytes(NewBin(seq)) = kCaptureHeaderSize + 0
        /\ FileBytes(NewTxt(seq)) = BannerBytes + 0
    BY <1>2, <1>3, <1>4, FileBytesByKind, SumOfEmpty DEF Files
  <2>2. QED BY <2>1, CaptureConstantsOK, SMT DEF kCaptureHeaderSize
<1>6. Walks(NewTxt(seq).body, NewBin(seq))
  BY <1>1, <1>4, <1>5 DEF Walks, EndOfRow
<1>7. QED BY <1>2, <1>5, <1>6

\* open_new_capture_ on a store where nothing is live.
LEMMA OpenNewCaptureOK ==
  ASSUME NEW top \in Nat, NEW st, Sound(st, top, FALSE)
  PROVE  LET to == OpenNewCapture(st, top + 1)
             n == Len(st.files)
             m == Len(to.files)
         IN  /\ Sound(to, top + 1, TRUE)
             /\ to.total > MaxTotalBytes => m = 2
             /\ to.drops = st.drops
             /\ to.files[m-1].body = <<>>
             /\ m <= n + 2 /\ \A i \in 1 .. m - 2 : to.files[i] = st.files[n + 2 - m + i]
<1> DEFINE n == Len(st.files)
           b == NewBin(top + 1)
           t == NewTxt(top + 1)
           gs == st.files \o <<b, t>>
           opened == [st EXCEPT !.files = gs, !.bin = n + 1, !.txt = n + 2,
                                !.total = @ + kCaptureHeaderSize + BannerBytes]
           to == EnforceBudget(opened)
           m == Len(to.files)
<1>1. /\ st \in Stores /\ st.total = StoredBytes(st.files) /\ Covered(st.files)
      /\ st.files \in Seq(Files) /\ n \in Nat /\ st.total \in Nat /\ st.drops \in Nat
  BY StoreTypes DEF Sound
<1>2. /\ n <= 2 * top
      /\ \A i \in 1..n : /\ st.files[i].seq = CeilDiv(2 * top - n + i, 2)
                         /\ st.files[i].text <=> (2 * top - n + i) % 2 = 0
      /\ st.bin = 0 /\ st.txt = 0
  BY DEF Sound, Shaped
<1>3. to = OpenNewCapture(st, top + 1)
  BY <1>2 DEF OpenNewCapture, CloseCurrent, NewBin, NewTxt
<1>4. /\ b \in Files /\ t \in Files /\ FileBytes(b) = kCaptureHeaderSize /\ FileBytes(t) = BannerBytes
      /\ Walks(t.body, b) /\ b.seq = top + 1 /\ t.seq = top + 1
      /\ b.text = FALSE /\ t.text = TRUE /\ b.body = <<>>
  <2>1. top + 1 \in Nat
    BY SMT
  <2>2. QED BY <2>1, NewPair DEF Files, NewBin, NewTxt
<1> HIDE DEF b, t
<1>5. /\ gs \in Seq(Files) /\ Len(gs) = n + 2
      /\ \A i \in 1..n : gs[i] = st.files[i]
      /\ gs[n + 1] = b /\ gs[n + 2] = t
      /\ StoredBytes(gs) = StoredBytes(st.files) + kCaptureHeaderSize + BannerBytes
      /\ StoredBytes(gs) \in Nat
  <2>1. gs \in Seq(Files)
    BY <1>1, <1>4, StoredBytesPair
  <2>2. /\ Len(gs) = n + 2 /\ \A i \in 1..n : gs[i] = st.files[i]
        /\ gs[n + 1] = b /\ gs[n + 2] = t
        /\ StoredBytes(gs) = StoredBytes(st.files) + FileBytes(b) + FileBytes(t)
    BY <1>1, <1>4, StoredBytesPair
  <2> HIDE DEF gs
  <2>3. StoredBytes(gs) \in Nat
    BY <2>1, SizesOK
  <2>4. QED BY <1>4, <2>1, <2>2, <2>3
<1> HIDE DEF gs
<1>6. /\ opened \in Stores /\ opened.files = gs /\ opened.bin = n + 1 /\ opened.txt = n + 2
      /\ opened.total = StoredBytes(gs) /\ opened.drops = st.drops
  <2>1. n + 1 \in Nat /\ n + 2 \in Nat
    BY <1>1
  <2> DEFINE sum == st.total + kCaptureHeaderSize + BannerBytes
  <2>2. opened = [st EXCEPT !.files = gs, !.bin = n + 1, !.txt = n + 2, !.total = sum]
    OBVIOUS
  <2>3. sum = StoredBytes(gs)
    BY <1>1, <1>5
  <2> HIDE DEF opened, sum
  <2>4. opened = [files |-> gs, bin |-> n + 1, txt |-> n + 2, total |-> sum,
                  drops |-> st.drops]
    BY <1>1, <2>2 DEF Stores
  <2>5. QED BY <1>1, <1>5, <2>1, <2>3, <2>4 DEF Stores
<1>7. Shaped(opened, top + 1, TRUE)
  <2> HIDE DEF opened, n
  <2>1. /\ n + 2 <= 2 * (top + 1) /\ n + 2 >= 2 /\ n + 1 = (n + 2) - 1
        /\ \A i \in 1 .. n + 2 : i \in 1..n \/ i = n + 1 \/ i = n + 2
        /\ \A i \in 1..n : 2 * (top + 1) - (n + 2) + i = 2 * top - n + i
        /\ 2 * (top + 1) - (n + 2) + (n + 1) = 2 * top + 1
        /\ 2 * (top + 1) - (n + 2) + (n + 2) = 2 * top + 2
    BY <1>1, <1>2, SMT
  <2>2. /\ CeilDiv(2 * top + 1, 2) = top + 1 /\ CeilDiv(2 * top + 2, 2) = top + 1
        /\ (2 * top + 1) % 2 # 0 /\ (2 * top + 2) % 2 = 0
    BY SMT DEF CeilDiv
  <2>3. ASSUME NEW i \in 1 .. n + 2
        PROVE  /\ gs[i].seq = CeilDiv(2 * (top + 1) - (n + 2) + i, 2)
               /\ gs[i].text <=> (2 * (top + 1) - (n + 2) + i) % 2 = 0
    <3>1. CASE i \in 1..n
      <4>1. 2 * (top + 1) - (n + 2) + i = 2 * top - n + i /\ gs[i] = st.files[i]
        BY <1>5, <2>1, <3>1 DEF n
      <4>2. QED BY <1>2, <3>1, <4>1 DEF n
    <3>2. CASE i = n + 1
      BY <1>4, <1>5, <2>1, <2>2, <3>2 DEF n
    <3>3. CASE i = n + 2
      BY <1>4, <1>5, <2>1, <2>2, <3>3 DEF n
    <3>4. QED BY <2>1, <3>1, <3>2, <3>3
  <2>4. Len(opened.files) = n + 2
    BY <1>5, <1>6 DEF n
  <2>5. QED BY <1>6, <2>1, <2>3, <2>4 DEF Shaped, n
<1>8. Covered(opened.files)
  <2> SUFFICES ASSUME NEW i \in 2 .. n + 2, gs[i].text PROVE Walks(gs[i].body, gs[i-1])
    BY <1>5, <1>6 DEF Covered
  <2>1. i \in 2..n \/ i = n + 1 \/ i = n + 2
    BY <1>1, SMT
  <2>2. CASE i \in 2..n
    <3>1. i \in 1..n /\ i - 1 \in 1..n
      BY <1>1, <2>2, SMT
    <3>2. QED BY <1>1, <1>5, <2>2, <3>1 DEF Covered
  <2>3. CASE i = n + 1
    BY <1>4, <1>5, <2>3
  <2>4. CASE i = n + 2
    <3>1. (n + 2) - 1 = n + 1
      BY <1>1, SMT
    <3>2. QED BY <1>4, <1>5, <2>4, <3>1
  <2>5. QED BY <2>1, <2>2, <2>3, <2>4
<1> HIDE DEF opened
<1>9. Sound(opened, top + 1, TRUE) /\ top + 1 \in Nat
  <2>1. top + 1 \in Nat
    BY SMT
  <2>2. QED BY <1>6, <1>7, <1>8, <2>1 DEF Sound
<1>10. /\ Sound(to, top + 1, TRUE)
       /\ to.total > MaxTotalBytes => m = 2
       /\ to.drops = st.drops
       /\ m <= n + 2
       /\ \A i \in 1..m : to.files[i] = gs[(n + 2) - m + i]
  <2>1. /\ Sound(to, top + 1, TRUE)
        /\ to.total > MaxTotalBytes => m = 2
        /\ to.drops = opened.drops
        /\ m <= Len(opened.files)
        /\ \A i \in 1..m : to.files[i] = opened.files[Len(opened.files) - m + i]
    BY <1>9, EnforceBudgetWhileOpen
  <2>2. opened.files = gs /\ opened.drops = st.drops /\ Len(gs) = n + 2
    BY <1>5, <1>6
  <2> HIDE DEF to
  <2>3. QED BY <2>1, <2>2
<1>11. m \in Nat /\ m >= 2
  <2>1. to \in Stores
    BY <1>10 DEF Sound
  <2>2. m \in Nat
    BY <2>1, StoreTypes
  <2>3. m >= 2
    BY <1>10 DEF Sound, Shaped
  <2>4. QED BY <2>2, <2>3
<1> HIDE DEF to
<1>12. to.files[m-1].body = <<>>
  <2>1. m - 1 \in 1..m /\ (n + 2) - m + (m - 1) = n + 1
    <3> HIDE DEF m, n
    <3>1. QED BY <1>1, <1>11, SMT
  <2>2. QED BY <1>4, <1>5, <1>10, <2>1
<1>13. \A i \in 1 .. m - 2 : to.files[i] = st.files[n + 2 - m + i]
  <2> SUFFICES ASSUME NEW i \in 1 .. m - 2 PROVE to.files[i] = st.files[n + 2 - m + i]
    OBVIOUS
  <2>1. i \in 1..m /\ (n + 2) - m + i \in 1..n /\ n + 2 - m + i = (n + 2) - m + i
    <3>1. m <= n + 2
      BY <1>10
    <3> HIDE DEF m, n
    <3>2. QED BY <1>1, <1>11, <3>1, SMT
  <2>2. QED BY <1>5, <1>10, <2>1
<1>14. QED BY <1>3, <1>10, <1>12, <1>13

\* append_to_ on a file that exists.
Grown(f, chunk) == [f EXCEPT !.body = Append(@, chunk)]

LEMMA AppendToOK ==
  ASSUME NEW st \in Stores, st.total = StoredBytes(st.files),
         NEW i \in 1 .. Len(st.files), NEW chunk, NEW d \in Nat,
         Grown(st.files[i], chunk) \in Files,
         FileBytes(Grown(st.files[i], chunk)) = FileBytes(st.files[i]) + d
  PROVE  LET to == AppendTo(st, i, chunk, d)
         IN  /\ to \in Stores /\ to.total = StoredBytes(to.files)
             /\ Len(to.files) = Len(st.files)
             /\ \A j \in 1 .. Len(st.files) :
                  to.files[j] = IF j = i THEN Grown(st.files[i], chunk) ELSE st.files[j]
             /\ to.bin = st.bin /\ to.txt = st.txt /\ to.drops = st.drops
<1> DEFINE f == Grown(st.files[i], chunk)
           gs == [st.files EXCEPT ![i] = f]
           sum == st.total + d
           to == AppendTo(st, i, chunk, d)
<1>1. /\ st.files \in Seq(Files) /\ i \in DOMAIN st.files /\ st.total \in Nat
      /\ st.bin \in Nat /\ st.txt \in Nat /\ st.drops \in Nat
  BY StoreTypes
<1>2. to = [st EXCEPT !.files = gs, !.total = sum]
  BY <1>1 DEF AppendTo, Grown
<1> HIDE DEF f
<1>3. /\ gs \in Seq(Files) /\ Len(gs) = Len(st.files)
      /\ \A j \in 1 .. Len(st.files) : gs[j] = IF j = i THEN f ELSE st.files[j]
      /\ StoredBytes(gs) = StoredBytes(st.files) + d
  BY <1>1, StoredBytesGrow DEF f
<1>4. sum = StoredBytes(gs) /\ sum \in Nat
  BY <1>1, <1>3, SMT
<1> HIDE DEF gs, sum, to
<1>5. to = [files |-> gs, bin |-> st.bin, txt |-> st.txt, total |-> sum, drops |-> st.drops]
  BY <1>2 DEF Stores
<1>6. to \in Stores
  BY <1>1, <1>3, <1>4, <1>5 DEF Stores
<1>7. QED BY <1>3, <1>4, <1>5, <1>6 DEF f, to

\* The rows walk on when an event and its row are written.
LEMMA WalksOn ==
  ASSUME NEW rows \in Seq(Rows), NEW bin, NEW more, NEW d \in Nat,
         Walks(rows, bin), FileBytes(bin) \in Nat, FileBytes(more) = FileBytes(bin) + d
  PROVE  LET row == [at |-> FileBytes(bin), bytes |-> d]
         IN  row \in Rows /\ Walks(Append(rows, row), more)
<1> DEFINE row == [at |-> FileBytes(bin), bytes |-> d]
           out == Append(rows, row)
           n == Len(rows)
<1>1. row \in Rows
  BY DEF Rows
<1>2. row.at = FileBytes(bin) /\ row.bytes = d
  OBVIOUS
<1> HIDE DEF row
<1>3. /\ out \in Seq(Rows) /\ Len(out) = n + 1 /\ n \in Nat
      /\ \A k \in 1..n : out[k] = rows[k]
      /\ out[n+1] = row
      /\ DOMAIN out = 1 .. n + 1 /\ DOMAIN rows = 1..n
  BY <1>1, AppendProperties, LenProperties
<1> HIDE DEF out
<1>4. (n + 1) - 1 = n /\ n + 1 # 0 /\ \A k \in 1 .. n + 1 : (k \in 1..n /\ (k - 1 = 0 \/ k - 1 \in 1..n)) \/ k = n + 1
  <2> HIDE DEF n
  <2>1. QED BY <1>3, SMT
<1>5. \A k \in 1..n : rows[k].at = EndOfRow(rows, k - 1)
  BY <1>3 DEF Walks
<1>6. EndOfRow(rows, n) = FileBytes(bin)
  BY DEF Walks
<1>7. n = 0 \/ n \in 1..n
  BY <1>3, SMT
<1>8. EndOfRow(out, n) = EndOfRow(rows, n)
  BY <1>3, <1>7 DEF EndOfRow
<1>9. \A k \in 1..n : EndOfRow(out, k - 1) = EndOfRow(rows, k - 1)
  BY <1>3, <1>4 DEF EndOfRow
<1>10. ASSUME NEW k \in 1 .. n + 1 PROVE out[k].at = EndOfRow(out, k - 1)
  <2>1. CASE k \in 1..n
    BY <1>3, <1>5, <1>9, <2>1
  <2>2. CASE k = n + 1
    BY <1>2, <1>3, <1>4, <1>6, <1>8, <2>2
  <2>3. QED BY <1>4, <2>1, <2>2
<1>11. EndOfRow(out, n + 1) = FileBytes(more)
  BY <1>2, <1>3, <1>4 DEF EndOfRow
<1>12. Walks(out, more)
  BY <1>3, <1>10, <1>11 DEF Walks
<1>13. QED BY <1>1, <1>12 DEF out, row

\* An event appended to the live .bin and its row to the live .txt.
WriteBoth(st, e) ==
  WriteHexdump(AppendTo(st, st.bin, e, EventBytes(e)), FileBytes(st.files[st.bin]), EventBytes(e))

LEMMA WriteBothOK ==
  ASSUME NEW top \in Nat, NEW st, Sound(st, top, TRUE), NEW e \in Events
  PROVE  LET to == WriteBoth(st, e)
             n == Len(st.files)
         IN  /\ Sound(to, top, TRUE)
             /\ to.drops = st.drops /\ Len(to.files) = n
             /\ \A i \in 1 .. n - 2 : to.files[i] = st.files[i]
             /\ to.files[n-1] = Grown(st.files[n-1], e)
             /\ \E row : to.files[n] = Grown(st.files[n], row)
<1> DEFINE n == Len(st.files)
           b == st.files[n-1]
           t == st.files[n]
           d == EventBytes(e)
           row == [at |-> FileBytes(b), bytes |-> d]
           mid == AppendTo(st, n - 1, e, d)
           to == WriteBoth(st, e)
<1>1. /\ st \in Stores /\ st.total = StoredBytes(st.files) /\ Covered(st.files)
      /\ st.files \in Seq(Files) /\ n \in Nat /\ \A i \in 1..n : st.files[i] \in Files
  BY StoreTypes DEF Sound
<1>2. /\ n <= 2 * top
      /\ \A i \in 1..n : /\ st.files[i].seq = CeilDiv(2 * top - n + i, 2)
                         /\ st.files[i].text <=> (2 * top - n + i) % 2 = 0
      /\ n >= 2 /\ st.bin = n - 1 /\ st.txt = n
  BY DEF Sound, Shaped
<1>3. /\ n - 1 \in 1..n /\ n \in 1..n /\ n - 1 # n /\ n \in 2..n /\ n # 0
      /\ 2 * top - n + (n - 1) = 2 * top - 1 /\ 2 * top - n + n = 2 * top
      /\ (2 * top) % 2 = 0 /\ (2 * top - 1) % 2 # 0
      /\ \A i \in 1 .. n - 2 : i \in 1..n /\ i # n - 1 /\ i # n
  <2>1. n \in Nat /\ n >= 2
    BY <1>1, <1>2
  <2> HIDE DEF n
  <2>2. QED BY <2>1, SMT
<1>4. b \in Binaries /\ t \in Sidecars /\ d \in Nat /\ FileBytes(b) \in Nat
  <2>1. b \in Files /\ t \in Files /\ ~b.text /\ t.text
    BY <1>1, <1>2, <1>3
  <2> HIDE DEF b, t
  <2>2. b \in Binaries /\ t \in Sidecars /\ FileBytes(b) \in Nat
    BY <2>1, FileBytesByKind DEF Files
  <2>3. QED BY <2>2, EventBytesIsNat
<1> HIDE DEF d
<1>5. /\ Grown(b, e) \in Binaries /\ FileBytes(Grown(b, e)) = FileBytes(b) + d
  BY <1>4, FileBytesGrow DEF Grown, d
<1>6. Walks(t.body, b) /\ t.body \in Seq(Rows)
  <2>1. t.text /\ t.body \in Seq(Rows)
    BY <1>4, FileBytesByKind DEF Files
  <2>2. QED BY <1>1, <1>3, <2>1 DEF Covered
<1>7. row \in Rows /\ Walks(Append(t.body, row), Grown(b, e)) /\ row.bytes = d
  <2> HIDE DEF b, t
  <2>1. QED BY <1>4, <1>5, <1>6, WalksOn
<1>8. Grown(t, row) \in Sidecars /\ FileBytes(Grown(t, row)) = FileBytes(t) + HexdumpBytes(d)
  <2> HIDE DEF row, b, t
  <2>1. QED BY <1>4, <1>7, FileBytesGrow DEF Grown
<1>9. HexdumpBytes(d) \in Nat
  BY <1>4, HexdumpBytesIsNat
<1>10. /\ mid \in Stores /\ mid.total = StoredBytes(mid.files)
       /\ Len(mid.files) = n
       /\ \A j \in 1..n : mid.files[j] = IF j = n - 1 THEN Grown(b, e) ELSE st.files[j]
       /\ mid.bin = st.bin /\ mid.txt = st.txt /\ mid.drops = st.drops
  <2>1. Grown(st.files[n-1], e) \in Files
    BY <1>5 DEF Files
  <2> DEFINE i == n - 1
  <2>2. i \in 1 .. Len(st.files) /\ Grown(st.files[i], e) \in Files
        /\ FileBytes(Grown(st.files[i], e)) = FileBytes(st.files[i]) + d
    BY <1>3, <1>5, <2>1
  <2> HIDE DEF i, mid
  <2>3. AppendTo(st, i, e, d) = mid
    BY DEF i, mid
  <2>4. /\ mid \in Stores /\ mid.total = StoredBytes(mid.files)
        /\ Len(mid.files) = Len(st.files)
        /\ \A j \in 1 .. Len(st.files) :
             mid.files[j] = IF j = i THEN Grown(st.files[i], e) ELSE st.files[j]
        /\ mid.bin = st.bin /\ mid.txt = st.txt /\ mid.drops = st.drops
    BY <1>1, <1>4, <2>2, <2>3, AppendToOK
  <2>5. QED BY <2>4 DEF i
<1>11. to = AppendTo(mid, n, row, HexdumpBytes(d))
  BY <1>2, <1>3, <1>10 DEF WriteBoth, WriteHexdump, d
<1> HIDE DEF mid
<1>12. /\ to \in Stores /\ to.total = StoredBytes(to.files)
       /\ Len(to.files) = n
       /\ \A j \in 1..n : to.files[j] = IF j = n THEN Grown(t, row) ELSE mid.files[j]
       /\ to.bin = st.bin /\ to.txt = st.txt /\ to.drops = st.drops
  <2>1. mid.files[n] = t /\ n \in 1 .. Len(mid.files)
    BY <1>3, <1>10
  <2>2. /\ Grown(mid.files[n], row) \in Files
        /\ FileBytes(Grown(mid.files[n], row)) = FileBytes(mid.files[n]) + HexdumpBytes(d)
    BY <1>8, <2>1 DEF Files
  <2> DEFINE sz == HexdumpBytes(d)
  <2> HIDE DEF row, sz, to
  <2>3. AppendTo(mid, n, row, sz) = to
    BY <1>11 DEF sz
  <2>4. /\ to \in Stores /\ to.total = StoredBytes(to.files)
        /\ Len(to.files) = Len(mid.files)
        /\ \A j \in 1 .. Len(mid.files) :
             to.files[j] = IF j = n THEN Grown(mid.files[n], row) ELSE mid.files[j]
        /\ to.bin = mid.bin /\ to.txt = mid.txt /\ to.drops = mid.drops
    <3>1. mid \in Stores /\ mid.total = StoredBytes(mid.files) /\ sz \in Nat
      BY <1>9, <1>10 DEF sz
    <3>2. FileBytes(Grown(mid.files[n], row)) = FileBytes(mid.files[n]) + sz
      BY <2>2 DEF sz
    <3>3. /\ AppendTo(mid, n, row, sz) \in Stores
          /\ AppendTo(mid, n, row, sz).total = StoredBytes(AppendTo(mid, n, row, sz).files)
          /\ Len(AppendTo(mid, n, row, sz).files) = Len(mid.files)
          /\ \A j \in 1 .. Len(mid.files) :
               AppendTo(mid, n, row, sz).files[j]
                 = IF j = n THEN Grown(mid.files[n], row) ELSE mid.files[j]
          /\ AppendTo(mid, n, row, sz).bin = mid.bin
          /\ AppendTo(mid, n, row, sz).txt = mid.txt
          /\ AppendTo(mid, n, row, sz).drops = mid.drops
      BY <2>1, <2>2, <3>1, <3>2, AppendToOK
    <3>4. QED BY <2>3, <3>3
  <2>5. QED BY <1>10, <2>1, <2>4
<1> HIDE DEF to, row
<1>13. /\ to.files[n-1] = Grown(b, e) /\ to.files[n] = Grown(t, row)
       /\ \A i \in 1 .. n - 2 : to.files[i] = st.files[i]
  BY <1>3, <1>10, <1>12
<1>14. ASSUME NEW i \in 1..n
       PROVE  to.files[i].seq = st.files[i].seq /\ to.files[i].text = st.files[i].text
  <2>1. to.files[i] = st.files[i] \/ to.files[i] = Grown(st.files[i], e)
        \/ to.files[i] = Grown(st.files[i], row)
    BY <1>10, <1>12
  <2>2. Grown(st.files[i], e).seq = st.files[i].seq /\ Grown(st.files[i], row).seq = st.files[i].seq
        /\ Grown(st.files[i], e).text = st.files[i].text /\ Grown(st.files[i], row).text = st.files[i].text
    <3>1. st.files[i] \in Binaries \/ st.files[i] \in Sidecars
      BY <1>1 DEF Files
    <3>2. QED BY <3>1 DEF Grown, Binaries, Sidecars
  <2>3. QED BY <2>1, <2>2
<1>15. Shaped(to, top, TRUE)
  BY <1>2, <1>12, <1>14 DEF Shaped
<1>16. Covered(to.files)
  <2> SUFFICES ASSUME NEW i \in 2..n, to.files[i].text PROVE Walks(to.files[i].body, to.files[i-1])
    BY <1>12 DEF Covered
  <2>1. i \in 1..n /\ i - 1 \in 1..n /\ (i = n \/ i = n - 1 \/ (i \in 1 .. n - 2 /\ i - 1 \in 1 .. n - 2))
    BY <1>1, SMT
  <2>2. CASE i = n
    <3>1. Grown(t, row).body = Append(t.body, row)
      BY <1>4 DEF Grown, Sidecars
    <3>2. QED BY <1>7, <1>13, <2>2, <3>1
  <2>3. CASE i = n - 1
    <3>1. ~to.files[n-1].text
      BY <1>2, <1>3, <1>14
    <3>2. QED BY <2>3, <3>1
  <2>4. CASE i \in 1 .. n - 2 /\ i - 1 \in 1 .. n - 2
    BY <1>1, <1>13, <2>4 DEF Covered
  <2>5. QED BY <2>1, <2>2, <2>3, <2>4
<1>17. QED BY <1>12, <1>13, <1>15, <1>16 DEF Sound, to

\* t is s with something after it.
Begins(s, t) == Len(s) <= Len(t) /\ \A k \in 1 .. Len(s) : t[k] = s[k]

\* What came of a store's files within one session: the oldest may be gone, the last
\* pair may have grown, and the others are as they were.
Follows(st, to) ==
  LET n == Len(st.files)
      m == Len(to.files)
  IN  /\ m <= n
      /\ \A i \in 1 .. m - 2 : to.files[i] = st.files[n - m + i]
      /\ \A i \in 1..m : Begins(st.files[n - m + i].body, to.files[i].body)

LastBin(st) == st.files[Len(st.files) - 1].body

LEMMA BodyIsASeq ==
  ASSUME NEW f \in Files
  PROVE  /\ f.body \in Seq(Events) \/ f.body \in Seq(Rows)
         /\ Len(f.body) \in Nat /\ Begins(f.body, f.body)
<1>1. f.body \in Seq(Events) \/ f.body \in Seq(Rows)
  BY DEF Files, Binaries, Sidecars
<1>2. Len(f.body) \in Nat
  BY <1>1, LenProperties
<1>3. QED BY <1>1, <1>2 DEF Begins

LEMMA GrownBegins ==
  ASSUME NEW f \in Files, NEW x, Grown(f, x) \in Files PROVE Begins(f.body, Grown(f, x).body)
<1>1. Grown(f, x).body = Append(f.body, x)
  BY DEF Grown, Files, Binaries, Sidecars
<1>2. PICK T : f.body \in Seq(T)
  BY BodyIsASeq
<1> DEFINE U == T \cup {x}
           b == f.body
<1>3. b \in Seq(U) /\ x \in U
  <2>1. Len(b) \in Nat /\ b = [i \in 1 .. Len(b) |-> b[i]] /\ \A i \in 1 .. Len(b) : b[i] \in U
    BY <1>2, LenProperties, ElementOfSeq
  <2> HIDE DEF b
  <2>2. b \in Seq(U)
    BY <2>1, IsASeq
  <2>3. QED BY <2>2
<1> HIDE DEF U, b
<1>4. Len(Append(b, x)) = Len(b) + 1 /\ Len(b) \in Nat /\ \A i \in 1 .. Len(b) : Append(b, x)[i] = b[i]
  BY <1>3, AppendProperties, LenProperties
<1>5. QED BY <1>1, <1>4 DEF Begins, b

LEMMA FollowsTransitive ==
  ASSUME NEW r \in Stores, NEW s \in Stores, NEW t \in Stores,
         Follows(r, s), Follows(s, t)
  PROVE  Follows(r, t)
<1> DEFINE n == Len(r.files)
           m == Len(s.files)
           k == Len(t.files)
<1>1. n \in Nat /\ m \in Nat /\ k \in Nat
  BY StoreTypes
<1>2. m <= n /\ k <= m
  BY DEF Follows
<1>3. k <= n
  <2> HIDE DEF n, m, k
  <2>1. QED BY <1>1, <1>2, SMT
<1>4. /\ \A i \in 1 .. k - 2 : m - k + i \in 1 .. m - 2 /\ n - m + (m - k + i) = n - k + i
      /\ \A i \in 1..k : m - k + i \in 1..m /\ n - m + (m - k + i) = n - k + i /\ n - k + i \in 1..n
  <2> HIDE DEF n, m, k
  <2>1. QED BY <1>1, <1>2, SMT
<1>5. ASSUME NEW i \in 1 .. k - 2 PROVE t.files[i] = r.files[n - k + i]
  <2>1. t.files[i] = s.files[m - k + i]
    BY DEF Follows
  <2>2. s.files[m - k + i] = r.files[n - m + (m - k + i)]
    BY <1>4 DEF Follows
  <2>3. QED BY <1>4, <2>1, <2>2
<1>6. ASSUME NEW i \in 1..k PROVE Begins(r.files[n - k + i].body, t.files[i].body)
  <2> DEFINE x == r.files[n - k + i].body
             y == s.files[m - k + i].body
             z == t.files[i].body
  <2>1. Begins(y, z)
    BY DEF Follows
  <2>2. Begins(x, y)
    BY <1>4 DEF Follows
  <2>3. Len(x) \in Nat /\ Len(y) \in Nat /\ Len(z) \in Nat
    BY <1>4, StoreTypes, BodyIsASeq
  <2> HIDE DEF x, y, z
  <2>4. Begins(x, z)
    <3>1. Len(x) <= Len(z) /\ \A j \in 1 .. Len(x) : j \in 1 .. Len(y)
      BY <2>1, <2>2, <2>3, SMT DEF Begins
    <3>2. QED BY <2>1, <2>2, <3>1 DEF Begins
  <2>5. QED BY <2>4 DEF x, z
<1>7. QED BY <1>3, <1>5, <1>6 DEF Follows

\* write_bytes_ with a capture open.
LEMMA WriteBytesWhileOpen ==
  ASSUME NEW top \in Nat, NEW st, Sound(st, top, TRUE), NEW e \in Events
  PROVE  LET to == WriteBytes(st, e)
         IN  /\ Sound(to, top, TRUE)
             /\ to.total > MaxTotalBytes => Len(to.files) = 2
             /\ to.drops = st.drops
             /\ Follows(st, to)
             /\ LastBin(st) \in Seq(Events) /\ LastBin(to) = Append(LastBin(st), e)
<1> DEFINE n == Len(st.files)
           mid == WriteBoth(st, e)
           to == EnforceBudget(mid)
           m == Len(to.files)
<1>1. n \in Nat /\ n >= 2 /\ st.bin = n - 1
  <2>1. st \in Stores /\ n >= 2 /\ st.bin = n - 1
    BY DEF Sound, Shaped
  <2>2. QED BY <2>1, StoreTypes
<1>2. to = WriteBytes(st, e)
  <2>1. n - 1 # 0
    <3> HIDE DEF n
    <3>1. QED BY <1>1, SMT
  <2>2. st.bin # 0
    BY <1>1, <2>1
  <2>3. QED BY <2>2 DEF WriteBytes, WriteBoth
<1>3. /\ Sound(mid, top, TRUE)
      /\ mid.drops = st.drops /\ Len(mid.files) = n
      /\ \A i \in 1 .. n - 2 : mid.files[i] = st.files[i]
      /\ mid.files[n-1] = Grown(st.files[n-1], e)
      /\ \E row : mid.files[n] = Grown(st.files[n], row)
  BY WriteBothOK
<1> HIDE DEF mid
<1>4. /\ Sound(to, top, TRUE)
      /\ to.total > MaxTotalBytes => Len(to.files) = 2
      /\ to.drops = mid.drops
      /\ m <= Len(mid.files)
      /\ \A i \in 1..m : to.files[i] = mid.files[Len(mid.files) - m + i]
  BY <1>3, EnforceBudgetWhileOpen
<1> HIDE DEF to
<1>5. m \in Nat /\ m >= 2 /\ m <= n /\ \A i \in 1..m : to.files[i] = mid.files[n - m + i]
  <2>1. to \in Stores /\ m >= 2
    BY <1>4 DEF Sound, Shaped
  <2>2. m \in Nat
    BY <2>1, StoreTypes
  <2>3. QED BY <1>3, <1>4, <2>1, <2>2
<1>6. st \in Stores /\ mid \in Stores
  BY <1>3 DEF Sound
<1>7. ASSUME NEW i \in 1..n PROVE Begins(st.files[i].body, mid.files[i].body)
  <2>1. st.files[i] \in Files /\ mid.files[i] \in Files
    BY <1>3, <1>6, StoreTypes
  <2>2. i \in 1 .. n - 2 \/ i = n - 1 \/ i = n
    BY <1>1, SMT
  <2>3. mid.files[i] = st.files[i] \/ \E x : mid.files[i] = Grown(st.files[i], x)
    BY <1>3, <2>2
  <2>4. QED BY <2>1, <2>3, BodyIsASeq, GrownBegins
<1>8. /\ \A i \in 1..m : n - m + i \in 1..n
      /\ \A i \in 1 .. m - 2 : i \in 1..m /\ n - m + i \in 1 .. n - 2
      /\ m - 1 \in 1..m /\ n - m + (m - 1) = n - 1 /\ n - 1 \in 1..n
  <2> HIDE DEF m, n
  <2>1. QED BY <1>1, <1>5, SMT
<1>9. Follows(st, to)
  <2>1. \A i \in 1 .. m - 2 : to.files[i] = st.files[n - m + i]
    BY <1>3, <1>5, <1>8
  <2>2. \A i \in 1..m : Begins(st.files[n - m + i].body, to.files[i].body)
    BY <1>5, <1>7, <1>8
  <2>3. QED BY <1>5, <2>1, <2>2 DEF Follows
<1>10. LastBin(st) \in Seq(Events) /\ LastBin(to) = Append(LastBin(st), e)
  <2> DEFINE b == st.files[n-1]
  <2>1. b \in Files /\ ~b.text
    <3>1. /\ \A i \in 1..n : st.files[i].text <=> (2 * top - n + i) % 2 = 0
      BY DEF Sound, Shaped
    <3>2. (2 * top - n + (n - 1)) % 2 # 0
      <4>1. 2 * top - n + (n - 1) = 2 * top - 1
        <5> HIDE DEF n
        <5>1. QED BY <1>1, SMT
      <4>2. (2 * top - 1) % 2 # 0
        BY SMT
      <4>3. QED BY <4>1, <4>2
    <3>3. QED BY <1>6, <1>8, <3>1, <3>2, StoreTypes
  <2>2. b \in Binaries /\ b.body \in Seq(Events)
    <3> HIDE DEF b
    <3>1. QED BY <2>1, FileBytesByKind DEF Files
  <2>3. Grown(b, e).body = Append(b.body, e)
    <3> HIDE DEF b
    <3>1. QED BY <2>2 DEF Grown, Binaries
  <2>4. to.files[m-1] = Grown(b, e)
    BY <1>3, <1>5, <1>8
  <2>5. QED BY <2>2, <2>3, <2>4 DEF LastBin
<1>11. QED BY <1>2, <1>3, <1>4, <1>9, <1>10

\* The turns of flush_ring_'s loop.
LEMMA FlushRun ==
  ASSUME NEW S, NEW st \in S, NEW es \in Seq(Events),
         \A s \in S, e \in Events : WriteBytes(s, e) \in S
  PROVE  \E f : /\ f[0] = st /\ Flush(st, es) = f[Len(es)]
                /\ \A k \in 0 .. Len(es) : f[k] \in S
                /\ \A k \in 1 .. Len(es) : es[k] \in Events /\ f[k] = WriteBytes(f[k-1], es[k])
<1> DEFINE n == Len(es)
           step == [s \in S |-> [e \in Events |-> WriteBytes(s, e)]]
           IsFold(g) == g = [k \in 0..n |-> IF k = 0 THEN st ELSE WriteBytes(g[k-1], es[k])]
           g == CHOOSE g : IsFold(g)
<1>1. n \in Nat /\ \A k \in 1..n : es[k] \in Events
  BY LenProperties, ElementOfSeq
<1>2. step \in [S -> [Events -> S]] /\ \A s \in S, e \in Events : step[s][e] = WriteBytes(s, e)
  OBVIOUS
<1> HIDE DEF step
<1>3. PICK f \in [0..n -> S] : IsRun(f, step, st, es)
  BY <1>2, RunExists
<1>4. f[0] = st /\ \A k \in 1..n : f[k] = WriteBytes(f[k-1], es[k])
  <2>1. ASSUME NEW k \in 1..n PROVE f[k] = WriteBytes(f[k-1], es[k])
    <3>1. k - 1 \in 0..n
      BY <1>1, SMT
    <3>2. f[k-1] \in S /\ es[k] \in Events /\ f[k] = step[f[k-1]][es[k]]
      BY <1>1, <1>3, <3>1 DEF IsRun
    <3>3. QED BY <1>2, <3>2
  <2>2. QED BY <1>3, <2>1 DEF IsRun
<1>5. IsFold(f)
  <2> HIDE DEF n
  <2>1. \A k \in 0..n : k = 0 \/ k \in 1..n
    BY <1>1, SMT
  <2>2. \A k \in 0..n : f[k] = IF k = 0 THEN st ELSE WriteBytes(f[k-1], es[k])
    BY <1>1, <1>4, <2>1, SMT
  <2>3. QED BY <1>3, <2>2
<1>6. IsFold(g)
  <2> HIDE DEF IsFold
  <2>1. QED BY <1>5
<1>7. Flush(st, es) = g[n]
  BY DEF Flush
<1> HIDE DEF g
<1>8. g[0] = st /\ \A k \in 1..n : g[k] = WriteBytes(g[k-1], es[k])
  <2> HIDE DEF n
  <2>1. 0 \in 0..n /\ \A k \in 1..n : k \in 0..n /\ k # 0
    BY <1>1, SMT
  <2>2. QED BY <1>6, <2>1
<1>9. \A k \in 0..n : g[k] \in S
  <2> DEFINE N == {k \in 0..n : g[k] \in S}
  <2> HIDE DEF n
  <2>1. 0 \in N
    BY <1>1, <1>8, SMT
  <2>2. ASSUME NEW k \in 1..n, k - 1 \in N PROVE k \in N
    <3>1. k \in 0..n
      BY <1>1, SMT
    <3>2. g[k-1] \in S /\ es[k] \in Events /\ g[k] = WriteBytes(g[k-1], es[k])
      BY <1>1, <1>8, <2>2 DEF n
    <3>3. QED BY <3>1, <3>2
  <2>3. \A k \in 0..n : k \in N
    <3> HIDE DEF N
    <3>1. QED BY <1>1, <2>1, <2>2, InductionUpTo
  <2>4. QED BY <2>3
<1>10. QED BY <1>1, <1>7, <1>8, <1>9

\* flush_ring_ with a capture open drops nothing and writes the events after one another
\* at the end of the live .bin.
LEMMA FlushWhileOpen ==
  ASSUME NEW top \in Nat, NEW st, Sound(st, top, TRUE), NEW es \in Seq(Events),
         st.total > MaxTotalBytes => Len(st.files) = 2
  PROVE  LET to == Flush(st, es)
         IN  /\ Sound(to, top, TRUE)
             /\ to.total > MaxTotalBytes => Len(to.files) = 2
             /\ to.drops = st.drops
             /\ Follows(st, to)
             /\ LastBin(st) \in Seq(Events) /\ LastBin(to) = LastBin(st) \o es
<1> DEFINE S == {s \in Stores : /\ Sound(s, top, TRUE)
                                /\ s.total > MaxTotalBytes => Len(s.files) = 2
                                /\ s.drops = st.drops
                                /\ Follows(st, s)
                                /\ LastBin(s) \in Seq(Events)}
           n == Len(es)
           b0 == LastBin(st)
           to == Flush(st, es)
<1>1. n \in Nat /\ st \in Stores
  BY LenProperties DEF Sound
<1>2. Follows(st, st)
  <2> DEFINE m == Len(st.files)
  <2>1. m \in Nat /\ \A i \in 1..m : st.files[i] \in Files
    BY <1>1, StoreTypes
  <2>2. m <= m /\ \A i \in 1..m : m - m + i = i
    <3> HIDE DEF m
    <3>1. QED BY <2>1, SMT
  <2>3. \A i \in 1 .. m - 2 : i \in 1..m
    <3> HIDE DEF m
    <3>1. QED BY <2>1, SMT
  <2>4. QED BY <2>1, <2>2, <2>3, BodyIsASeq DEF Follows
<1>3. b0 \in Seq(Events)
  <2> DEFINE m == Len(st.files)
             b == st.files[m-1]
  <2>1. m \in Nat /\ m >= 2 /\ \A i \in 1..m : /\ st.files[i] \in Files
                                               /\ st.files[i].text <=> (2 * top - m + i) % 2 = 0
    BY <1>1, StoreTypes DEF Sound, Shaped
  <2>2. m - 1 \in 1..m /\ 2 * top - m + (m - 1) = 2 * top - 1 /\ (2 * top - 1) % 2 # 0
    <3> HIDE DEF m
    <3>1. QED BY <2>1, SMT
  <2>3. b \in Files /\ ~b.text
    BY <2>1, <2>2
  <2>4. b.body \in Seq(Events)
    <3> HIDE DEF b
    <3>1. QED BY <2>3, FileBytesByKind DEF Files
  <2>5. QED BY <2>4 DEF LastBin
<1>4. st \in S
  BY <1>1, <1>2, <1>3
<1>5. ASSUME NEW s \in S, NEW e \in Events
      PROVE  WriteBytes(s, e) \in S /\ LastBin(WriteBytes(s, e)) = Append(LastBin(s), e)
  <2> DEFINE t == WriteBytes(s, e)
  <2>1. /\ Sound(t, top, TRUE)
        /\ t.total > MaxTotalBytes => Len(t.files) = 2
        /\ t.drops = s.drops
        /\ Follows(s, t)
        /\ LastBin(s) \in Seq(Events) /\ LastBin(t) = Append(LastBin(s), e)
    BY WriteBytesWhileOpen
  <2> HIDE DEF t
  <2>2. t \in Stores /\ s \in Stores /\ Follows(st, s) /\ s.drops = st.drops
    BY <2>1 DEF Sound
  <2>3. Follows(st, t)
    BY <1>1, <2>1, <2>2, FollowsTransitive
  <2>4. LastBin(t) \in Seq(Events)
    BY <2>1, AppendProperties
  <2>5. t \in S
    BY <2>1, <2>2, <2>3, <2>4
  <2>6. QED BY <2>1, <2>5 DEF t
<1> HIDE DEF S
<1>6. PICK f : /\ f[0] = st /\ to = f[n]
               /\ \A k \in 0..n : f[k] \in S
               /\ \A k \in 1..n : es[k] \in Events /\ f[k] = WriteBytes(f[k-1], es[k])
  <2>1. \A s \in S, e \in Events : WriteBytes(s, e) \in S
    BY <1>5
  <2>2. \E f : /\ f[0] = st /\ Flush(st, es) = f[Len(es)]
               /\ \A k \in 0 .. Len(es) : f[k] \in S
               /\ \A k \in 1 .. Len(es) : es[k] \in Events /\ f[k] = WriteBytes(f[k-1], es[k])
    BY <1>4, <2>1, FlushRun
  <2>3. QED BY <2>2
<1> HIDE DEF to, b0, n
<1> DEFINE Holds(b, k) == /\ Len(b) = Len(b0) + k
                          /\ \A i \in 1 .. Len(b0) : b[i] = b0[i]
                          /\ \A i \in 1..k : b[Len(b0) + i] = es[i]
           N == {k \in 0..n : Holds(LastBin(f[k]), k)}
<1>7. Len(b0) \in Nat
  BY <1>3, LenProperties
<1>8. 0 \in N
  <2>1. 0 \in 0..n /\ Len(b0) = Len(b0) + 0 /\ \A i \in 1..0 : FALSE
    BY <1>1, <1>7, SMT
  <2>2. LastBin(f[0]) = b0
    BY <1>6 DEF b0
  <2>3. QED BY <2>1, <2>2
<1>9. ASSUME NEW k \in 1..n, k - 1 \in N PROVE k \in N
  <2> DEFINE b == LastBin(f[k-1])
             c == LastBin(f[k])
             e == es[k]
  <2>1. k - 1 \in 0..n /\ k \in 0..n
    BY <1>1, SMT
  <2>2. f[k-1] \in S /\ e \in Events /\ f[k] = WriteBytes(f[k-1], e)
    BY <1>6, <2>1
  <2>3. c = Append(b, e) /\ b \in Seq(Events)
    <3>1. c = Append(b, e)
      BY <1>5, <2>2
    <3>2. b \in Seq(Events)
      BY <2>2 DEF S
    <3>3. QED BY <3>1, <3>2
  <2>4. Holds(b, k - 1)
    BY <1>9
  <2> HIDE DEF b, c, e
  <2>5. /\ Len(c) = Len(b) + 1 /\ \A i \in 1 .. Len(b) : c[i] = b[i]
        /\ c[Len(b) + 1] = e
    BY <2>2, <2>3, AppendProperties
  <2>6. Len(b) = Len(b0) + (k - 1) /\ Len(b) + 1 = Len(b0) + k
    BY <1>7, <2>4, SMT
  <2>7. \A i \in 1 .. Len(b0) : i \in 1 .. Len(b)
    BY <1>7, <2>6, SMT
  <2>8. ASSUME NEW i \in 1..k PROVE c[Len(b0) + i] = es[i]
    <3>1. CASE i = k
      BY <2>5, <2>6, <3>1 DEF e
    <3>2. CASE i # k
      <4>1. i \in 1 .. k - 1 /\ Len(b0) + i \in 1 .. Len(b)
        BY <1>1, <1>7, <2>6, <3>2, SMT
      <4>2. QED BY <2>4, <2>5, <4>1
    <3>3. QED BY <3>1, <3>2
  <2>9. Holds(c, k)
    BY <2>4, <2>5, <2>6, <2>7, <2>8
  <2>10. QED BY <2>1, <2>9 DEF c
<1>10. \A k \in 0..n : k \in N
  <2> HIDE DEF N
  <2>1. QED BY <1>1, <1>8, <1>9, InductionUpTo
<1>11. to \in S /\ Holds(LastBin(to), n)
  <2>1. n \in 0..n
    BY <1>1, SMT
  <2>2. QED BY <1>6, <1>10, <2>1
<1>12. LastBin(to) = b0 \o es
  <2> DEFINE x == LastBin(to)
             y == b0 \o es
  <2>1. x \in Seq(Events) /\ Len(x) = Len(b0) + n
    BY <1>11 DEF S
  <2>2. \A i \in 1 .. Len(b0) : x[i] = b0[i]
    BY <1>11
  <2>3. \A i \in 1..n : x[Len(b0) + i] = es[i]
    BY <1>11
  <2> HIDE DEF x
  <2>4. /\ y \in Seq(Events) /\ Len(y) = Len(b0) + n
        /\ \A i \in 1 .. Len(b0) + n : y[i] = IF i <= Len(b0) THEN b0[i] ELSE es[i - Len(b0)]
    BY <1>3, ConcatProperties DEF n
  <2> HIDE DEF y
  <2>5. ASSUME NEW k \in 1 .. Len(b0) + n PROVE x[k] = y[k]
    <3>1. CASE k <= Len(b0)
      <4>1. k \in 1 .. Len(b0)
        BY <1>1, <1>7, <3>1, SMT
      <4>2. QED BY <2>2, <2>4, <3>1, <4>1
    <3>2. CASE ~(k <= Len(b0))
      <4> DEFINE q == k - Len(b0)
      <4>1. Len(b0) + q = k
        BY <1>1, <1>7, <3>2, SMT
      <4>2. q \in 1..n
        BY <1>1, <1>7, <3>2, SMT
      <4>3. y[k] = es[q]
        BY <2>4, <3>2
      <4> HIDE DEF q
      <4>4. x[Len(b0) + q] = es[q]
        BY <2>3, <4>2
      <4>5. QED BY <4>1, <4>3, <4>4
    <3>3. QED BY <3>1, <3>2
  <2>6. x = y
    BY <2>1, <2>4, <2>5, SeqEqual
  <2>7. QED BY <2>6 DEF x, y
<1>13. QED BY <1>3, <1>11, <1>12 DEF S, to, b0

\* flush_ring_ with no capture open counts every event as dropped and nothing else.
LEMMA FlushWhileClosed ==
  ASSUME NEW st \in Stores, st.bin = 0, NEW es \in Seq(Events)
  PROVE  /\ \E d \in Nat : d >= st.drops /\ Flush(st, es) = [st EXCEPT !.drops = d]
         /\ es = <<>> => Flush(st, es) = st
<1> DEFINE S == {s \in Stores : \E d \in Nat : d >= st.drops /\ s = [st EXCEPT !.drops = d]}
<1>1. st \in S
  <2>1. st.drops \in Nat /\ st.drops >= st.drops /\ st = [st EXCEPT !.drops = st.drops]
    BY StoreTypes, SMT DEF Stores
  <2>2. QED BY <2>1
<1>2. ASSUME NEW s \in S, NEW e \in Events PROVE WriteBytes(s, e) \in S
  <2>1. PICK d \in Nat : d >= st.drops /\ s = [st EXCEPT !.drops = d]
    OBVIOUS
  <2>2. s.bin = 0 /\ s.drops = d
    BY <2>1 DEF Stores
  <2>3. WriteBytes(s, e) = [s EXCEPT !.drops = d + 1]
    BY <2>2 DEF WriteBytes
  <2>4. WriteBytes(s, e) = [st EXCEPT !.drops = d + 1]
    BY <2>1, <2>3 DEF Stores
  <2>5. d + 1 \in Nat /\ d + 1 >= st.drops
    BY <2>1, StoreTypes, SMT
  <2>6. [st EXCEPT !.drops = d + 1] \in Stores
    BY <2>5 DEF Stores
  <2>7. QED BY <2>4, <2>5, <2>6
<1> HIDE DEF S
<1>3. PICK f : /\ f[0] = st /\ Flush(st, es) = f[Len(es)]
               /\ \A k \in 0 .. Len(es) : f[k] \in S
  BY <1>1, <1>2, FlushRun
<1>4. Len(es) \in 0 .. Len(es)
  <2>1. Len(es) \in Nat
    BY LenProperties
  <2>2. QED BY <2>1, SMT
<1>5. Flush(st, es) \in S
  BY <1>3, <1>4
<1>6. es = <<>> => Flush(st, es) = st
  BY <1>3, EmptySeq
<1>7. QED BY <1>5, <1>6 DEF S

-----------------------------------------------------------------------------
(* What events say *)

Tags == [dir : 0..1, sym : Symbols]
Says(e) == Tagged(e.dir, e.data)

LEMMA TagsAssociate ==
  ASSUME NEW a \in Seq(Tags), NEW b \in Seq(Tags), NEW c \in Seq(Tags)
  PROVE  (a \o b) \o c = a \o (b \o c)
BY ConcatAssociative

LEMMA EventsAssociate ==
  ASSUME NEW a \in Seq(Events), NEW b \in Seq(Events), NEW c \in Seq(Events)
  PROVE  (a \o b) \o c = a \o (b \o c)
BY ConcatAssociative

LEMMA TaggedOK ==
  ASSUME NEW dir \in 0..1, NEW data \in Seq(Symbols)
  PROVE  /\ Tagged(dir, data) \in Seq(Tags) /\ Len(Tagged(dir, data)) = Len(data)
         /\ \A i \in 1 .. Len(data) : Tagged(dir, data)[i] = [dir |-> dir, sym |-> data[i]]
<1>1. Len(data) \in Nat /\ DOMAIN data = 1 .. Len(data) /\ \A i \in 1 .. Len(data) : data[i] \in Symbols
  BY LenProperties, ElementOfSeq
<1>2. Tagged(dir, data) = [i \in 1 .. Len(data) |-> [dir |-> dir, sym |-> data[i]]]
  BY <1>1 DEF Tagged
<1>3. \A i \in 1 .. Len(data) : [dir |-> dir, sym |-> data[i]] \in Tags
  BY <1>1 DEF Tags
<1> HIDE DEF Tagged
<1>4. Tagged(dir, data) \in Seq(Tags)
  BY <1>1, <1>2, <1>3, IsASeq
<1>5. QED BY <1>1, <1>2, <1>4, LenProperties

LEMMA SaysOK == ASSUME NEW e \in Events PROVE Says(e) \in Seq(Tags)
BY TaggedOK DEF Says, Events

\* What a sequence's beginnings say.
Said(s) == CHOOSE g : g = [k \in 0 .. Len(s) |-> IF k = 0 THEN <<>> ELSE g[k-1] \o Says(s[k])]

LEMMA PartialContents ==
  ASSUME NEW s \in Seq(Events)
  PROVE  /\ Content(s) = Said(s)[Len(s)]
         /\ Said(s)[0] = <<>>
         /\ \A k \in 1 .. Len(s) : Said(s)[k] = Said(s)[k-1] \o Says(s[k])
         /\ \A k \in 0 .. Len(s) : Said(s)[k] \in Seq(Tags)
<1> DEFINE T == Seq(Tags)
           z == <<>>
           step == [a \in T |-> [e \in Events |-> a \o Says(e)]]
<1>1. /\ step \in [T -> [Events -> T]] /\ z \in T
      /\ \A a \in T, e \in Events : step[a][e] = a \o Says(e) /\ a \o Says(e) \in T
  <2>1. \A a \in T, e \in Events : a \o Says(e) \in T
    BY SaysOK, ConcatProperties
  <2>2. z \in T
    BY EmptySeq
  <2> HIDE DEF T
  <2>3. QED BY <2>1, <2>2
<1> HIDE DEF step, T, z
<1>2. PICK f \in [0 .. Len(s) -> T] : IsRun(f, step, z, s)
  BY <1>1, RunExists
<1>3. Len(s) \in Nat /\ \A k \in 1 .. Len(s) : s[k] \in Events
  BY LenProperties, ElementOfSeq
<1>4. f = [k \in 0 .. Len(s) |-> IF k = 0 THEN <<>> ELSE f[k-1] \o Says(s[k])]
  <2>1. ASSUME NEW k \in 0 .. Len(s)
        PROVE  f[k] = IF k = 0 THEN <<>> ELSE f[k-1] \o Says(s[k])
    <3>1. CASE k = 0
      BY <1>2, <3>1 DEF IsRun, z
    <3>2. CASE k # 0
      <4>1. k \in 1 .. Len(s) /\ k - 1 \in 0 .. Len(s)
        BY <1>3, <3>2, SMT
      <4>2. f[k-1] \in T /\ s[k] \in Events
        BY <1>2, <1>3, <4>1
      <4>3. f[k] = step[f[k-1]][s[k]]
        BY <1>2, <4>1 DEF IsRun
      <4>4. QED BY <1>1, <3>2, <4>2, <4>3
    <3>3. QED BY <3>1, <3>2
  <2>2. QED BY <1>2, <2>1
<1> DEFINE g == Said(s)
<1>5. g = [k \in 0 .. Len(s) |-> IF k = 0 THEN <<>> ELSE g[k-1] \o Says(s[k])]
  BY <1>4 DEF Said
<1>6. Content(s) = g[Len(s)]
  BY DEF Content, Said, Says
<1> HIDE DEF g
<1>7. g[0] = <<>> /\ \A k \in 1 .. Len(s) : g[k] = g[k-1] \o Says(s[k])
  <2>1. 0 \in 0 .. Len(s) /\ \A k \in 1 .. Len(s) : k \in 0 .. Len(s) /\ k # 0
    BY <1>3, SMT
  <2>2. QED BY <1>5, <2>1
<1>8. \A k \in 0 .. Len(s) : g[k] \in T
  <2> DEFINE N == {k \in 0 .. Len(s) : g[k] \in T}
  <2>1. 0 \in N
    <3>1. 0 \in 0 .. Len(s)
      BY <1>3, SMT
    <3>2. QED BY <1>1, <1>7, <3>1 DEF z
  <2>2. ASSUME NEW k \in 1 .. Len(s), k - 1 \in N PROVE k \in N
    <3>1. k \in 0 .. Len(s)
      BY <1>3, SMT
    <3>2. g[k-1] \in T /\ s[k] \in Events /\ g[k] = g[k-1] \o Says(s[k])
      BY <1>3, <1>7, <2>2
    <3>3. QED BY <1>1, <3>1, <3>2
  <2>3. \A k \in 0 .. Len(s) : k \in N
    <3> HIDE DEF N
    <3>1. QED BY <1>3, <2>1, <2>2, InductionUpTo
  <2>4. QED BY <2>3
<1>9. QED BY <1>6, <1>7, <1>8 DEF g, T

LEMMA ContentOfConcat ==
  ASSUME NEW r \in Seq(Events), NEW s \in Seq(Events)
  PROVE  /\ Content(r \o s) = Content(r) \o Content(s)
         /\ Content(r) \in Seq(Tags) /\ Content(s) \in Seq(Tags)
<1> DEFINE t == r \o s
           n == Len(r)
           m == Len(s)
           f == Said(r)
           g == Said(s)
           h == Said(t)
<1>1. n \in Nat /\ m \in Nat /\ \A k \in 1..m : s[k] \in Events
  BY LenProperties, ElementOfSeq
<1>2. /\ t \in Seq(Events) /\ Len(t) = n + m
      /\ \A k \in 1 .. n + m : t[k] = IF k <= n THEN r[k] ELSE s[k - n]
  BY ConcatProperties
<1> HIDE DEF t
<1>3. /\ Content(r) = f[n] /\ f[0] = <<>>
      /\ \A k \in 1..n : f[k] = f[k-1] \o Says(r[k])
      /\ \A k \in 0..n : f[k] \in Seq(Tags)
  BY PartialContents
<1>4. /\ Content(s) = g[m] /\ g[0] = <<>>
      /\ \A k \in 1..m : g[k] = g[k-1] \o Says(s[k])
      /\ \A k \in 0..m : g[k] \in Seq(Tags)
  BY PartialContents
<1>5. /\ Content(t) = h[n + m] /\ h[0] = <<>>
      /\ \A k \in 1 .. n + m : h[k] = h[k-1] \o Says(t[k])
  BY <1>2, PartialContents
<1> HIDE DEF n, m, f, g, h
<1>6. \A k \in 0..n : h[k] = f[k]
  <2> DEFINE N == {k \in 0..n : h[k] = f[k]}
  <2>1. 0 \in N
    BY <1>1, <1>3, <1>5, SMT
  <2>2. ASSUME NEW k \in 1..n, k - 1 \in N PROVE k \in N
    <3>1. k \in 1 .. n + m /\ k <= n /\ k \in 0..n
      BY <1>1, SMT
    <3>2. QED BY <1>2, <1>3, <1>5, <2>2, <3>1
  <2>3. \A k \in 0..n : k \in N
    <3> HIDE DEF N
    <3>1. QED BY <1>1, <2>1, <2>2, InductionUpTo
  <2>4. QED BY <2>3
<1>7. n \in 0..n /\ 0 \in 0..m /\ m \in 0..m
  BY <1>1, SMT
<1>8. f[n] \in Seq(Tags) /\ g[m] \in Seq(Tags)
  BY <1>3, <1>4, <1>7
<1>9. \A k \in 0..m : h[n + k] = f[n] \o g[k]
  <2> DEFINE N == {k \in 0..m : h[n + k] = f[n] \o g[k]}
  <2>1. 0 \in N
    <3>1. n + 0 = n
      BY <1>1, SMT
    <3>2. f[n] \o <<>> = f[n]
      BY <1>8, ConcatEmptySeq
    <3>3. QED BY <1>4, <1>6, <1>7, <3>1, <3>2
  <2>2. ASSUME NEW k \in 1..m, k - 1 \in N PROVE k \in N
    <3>1. /\ n + k \in 1 .. n + m /\ ~(n + k <= n) /\ (n + k) - n = k /\ (n + k) - 1 = n + (k - 1)
          /\ k \in 0..m /\ k - 1 \in 0..m
      BY <1>1, SMT
    <3>2. h[n + k] = h[n + (k - 1)] \o Says(t[n + k]) /\ t[n + k] = s[k]
      BY <1>2, <1>5, <3>1
    <3>3. h[n + (k - 1)] = f[n] \o g[k-1]
      BY <2>2
    <3>4. g[k] = g[k-1] \o Says(s[k]) /\ g[k-1] \in Seq(Tags) /\ Says(s[k]) \in Seq(Tags)
      <4>1. g[k] = g[k-1] \o Says(s[k]) /\ g[k-1] \in Seq(Tags)
        BY <1>4, <3>1
      <4>2. s[k] \in Events
        BY <1>1
      <4> DEFINE e == s[k]
      <4> HIDE DEF e
      <4>3. Says(e) \in Seq(Tags)
        BY <4>2, SaysOK DEF e
      <4>4. QED BY <4>1, <4>3 DEF e
    <3>5. (f[n] \o g[k-1]) \o Says(s[k]) = f[n] \o (g[k-1] \o Says(s[k]))
      <4> DEFINE a == f[n]
                 b == g[k-1]
                 c == Says(s[k])
      <4>1. a \in Seq(Tags) /\ b \in Seq(Tags) /\ c \in Seq(Tags)
        BY <1>8, <3>4
      <4> HIDE DEF a, b, c
      <4>2. (a \o b) \o c = a \o (b \o c)
        BY <4>1, TagsAssociate
      <4>3. QED BY <4>2 DEF a, b, c
    <3>6. QED BY <3>1, <3>2, <3>3, <3>4, <3>5
  <2>3. \A k \in 0..m : k \in N
    <3> HIDE DEF N
    <3>1. QED BY <1>1, <2>1, <2>2, InductionUpTo
  <2>4. QED BY <2>3
<1>10. QED BY <1>3, <1>4, <1>5, <1>7, <1>8, <1>9 DEF t

\* A division rounded up covers the whole, and its last part is not empty.
LEMMA TimesMonotone == ASSUME NEW a \in Nat, NEW b \in Nat, NEW d \in Nat, a <= b PROVE a * d <= b * d
BY SMT

LEMMA ChunkBounds ==
  ASSUME NEW L \in Nat \ {0}, NEW d \in Nat \ {0}
  PROVE  LET q == CeilDiv(L, d)
         IN  /\ q \in Nat /\ q # 0 /\ q * d >= L
             /\ \A i \in 1..q : (i - 1) * d \in Nat /\ (i - 1) * d < L
<1> DEFINE q == CeilDiv(L, d)
           x == L + d - 1
<1>1. x \in Nat /\ x >= d /\ x - d < L /\ x = L + d - 1
  BY SMT
<1>2. q = x \div d
  BY DEF CeilDiv
<1> HIDE DEF q, x
<1>3. q \in Int /\ x = d * q + (x % d) /\ x % d \in 0 .. d - 1
  BY <1>1, <1>2, SMT
<1>4. q * d <= x /\ x < q * d + d
  BY <1>1, <1>3, SMT
<1>5. q * d >= L
  BY <1>1, <1>3, <1>4, SMT
<1>6. q \in Nat /\ q # 0
  BY <1>1, <1>3, <1>4, SMT
<1>7. ASSUME NEW i \in 1..q PROVE (i - 1) * d \in Nat /\ (i - 1) * d < L
  <2>1. i - 1 \in Nat /\ i - 1 <= q - 1 /\ q - 1 \in Nat
    BY <1>6, SMT
  <2>2. (i - 1) * d <= (q - 1) * d
    BY <2>1, TimesMonotone
  <2>3. (q - 1) * d = q * d - d
    BY <1>6, SMT
  <2>4. (i - 1) * d \in Nat
    BY <2>1, SMT
  <2>5. (i - 1) * d < L
    <3> DEFINE y == (i - 1) * d
               w == q * d
    <3>1. y \in Nat /\ w \in Int /\ y <= w - d /\ w <= x
      BY <1>3, <1>4, <2>2, <2>3, <2>4, SMT
    <3> HIDE DEF y, w
    <3>2. y < L
      BY <1>1, <3>1, SMT
    <3>3. QED BY <3>2 DEF y
  <2>6. QED BY <2>4, <2>5
<1>8. QED BY <1>5, <1>6, <1>7 DEF q

LEMMA MinOfTwo ==
  ASSUME NEW a \in Int, NEW b \in Int
  PROVE  Min({a, b}) = IF a <= b THEN a ELSE b
<1> DEFINE m == IF a <= b THEN a ELSE b
<1>1. m \in {a, b} /\ \A y \in {a, b} : m <= y
  BY SMT
<1>2. Min({a, b}) \in {a, b} /\ \A y \in {a, b} : Min({a, b}) <= y
  <2> DEFINE T == {a, b}
  <2>1. \E x \in T : \A y \in T : x <= y
    BY <1>1
  <2> HIDE DEF T
  <2>2. Min(T) \in T /\ \A y \in T : Min(T) <= y
    BY <2>1 DEF Min
  <2>3. QED BY <2>2 DEF T
<1>3. Min({a, b}) <= m /\ m <= Min({a, b}) /\ Min({a, b}) \in Int
  BY <1>1, <1>2
<1>4. QED BY <1>3, SMT

\* enqueue_event_ neither loses, nor repeats, nor reorders a byte of a payload, and each
\* piece fits a slot of the ring.
LEMMA ChunksOK ==
  ASSUME NEW dir \in 0..1, NEW data \in Seq(Symbols), data # <<>>
  PROVE  LET ch == Chunks(dir, data)
         IN  /\ ch \in Seq(Events)
             /\ \A i \in 1 .. Len(ch) : Len(ch[i].data) \in 1..MaxEventPayload
             /\ Content(ch) = Tagged(dir, data)
<1> DEFINE L == Len(data)
           d == MaxEventPayload
           q == CeilDiv(L, d)
           ch == Chunks(dir, data)
           lo(i) == (i - 1) * d
           hi(i) == IF i * d <= L THEN i * d ELSE L
           cut(i) == SubSeq(data, lo(i) + 1, hi(i))
           whole == Tagged(dir, data)
<1>1. L \in Nat /\ L # 0 /\ d \in Nat \ {0} /\ \A j \in 1..L : data[j] \in Symbols
  BY LenProperties, ElementOfSeq, EmptySeq, CaptureConstantsOK
<1> HIDE DEF d
<1>2. /\ q \in Nat /\ q # 0 /\ q * d >= L
      /\ \A i \in 1..q : lo(i) \in Nat /\ lo(i) < L
  <2> HIDE DEF L
  <2>1. QED BY <1>1, ChunkBounds
<1>3. ch = [i \in 1..q |-> [dir |-> dir, data |-> cut(i)]]
  <2>1. \A i \in 1..q : Min({i * d, L}) = hi(i)
    <3> HIDE DEF L, q
    <3>1. \A i \in 1..q : i * d \in Int
      BY <1>1, <1>2, SMT
    <3>2. QED BY <1>1, <3>1, MinOfTwo
  <2>2. ch = [i \in 1..q |-> [dir |-> dir, data |-> SubSeq(data, lo(i) + 1, Min({i * d, L}))]]
    BY DEF Chunks, d
  <2> HIDE DEF ch, q, L
  <2>3. QED BY <2>1, <2>2
<1> HIDE DEF ch, q, L
<1>4. ASSUME NEW i \in 1..q
      PROVE  /\ i * d = lo(i) + d /\ lo(i) \in Nat /\ lo(i) < L
             /\ hi(i) \in Nat /\ lo(i) < hi(i) /\ hi(i) <= L /\ hi(i) - lo(i) \in 1..d
  <2>1. i * d = lo(i) + d
    BY <1>1, <1>2, SMT
  <2> DEFINE x == lo(i)
             y == i * d
  <2>2. x \in Nat /\ x < L /\ y = x + d
    BY <1>2, <2>1
  <2> HIDE DEF x, y
  <2> DEFINE z == IF y <= L THEN y ELSE L
  <2>3. z \in Nat /\ x < z /\ z <= L /\ z - x \in 1..d
    BY <1>1, <2>2, SMT
  <2>4. QED BY <2>1, <2>2, <2>3 DEF x, y
<1>5. ASSUME NEW i \in 1..q
      PROVE  /\ cut(i) \in Seq(Symbols) /\ Len(cut(i)) = hi(i) - lo(i)
             /\ \A j \in 1 .. hi(i) - lo(i) : cut(i)[j] = data[lo(i) + j]
  <2> DEFINE a == lo(i)
             b == hi(i)
             c == cut(i)
  <2>1. a \in Nat /\ b \in Nat /\ a < b /\ b <= L
    BY <1>4
  <2>2. c = SubSeq(data, a + 1, b)
    OBVIOUS
  <2> HIDE DEF a, b, c
  <2>3. /\ a + 1 \in Int /\ b \in Int /\ a + 1 <= b /\ b - (a + 1) + 1 = b - a
        /\ \A j \in (a + 1) .. b : j \in 1..L
        /\ \A j \in 1 .. b - a : (a + 1) + j - 1 = a + j
    BY <1>1, <2>1, SMT
  <2>4. \A j \in (a + 1) .. b : data[j] \in Symbols
    BY <1>1, <2>3
  <2>5. /\ c \in Seq(Symbols) /\ Len(c) = b - (a + 1) + 1
        /\ \A j \in 1 .. b - (a + 1) + 1 : c[j] = data[(a + 1) + j - 1]
    <3>1. /\ SubSeq(data, a + 1, b) \in Seq(Symbols)
          /\ Len(SubSeq(data, a + 1, b)) = IF a + 1 <= b THEN b - (a + 1) + 1 ELSE 0
          /\ \A j \in 1 .. b - (a + 1) + 1 : SubSeq(data, a + 1, b)[j] = data[(a + 1) + j - 1]
      BY <2>3, <2>4, SubSeqProperties
    <3>2. QED BY <2>2, <2>3, <3>1
  <2>6. c \in Seq(Symbols) /\ Len(c) = b - a /\ \A j \in 1 .. b - a : c[j] = data[a + j]
    BY <2>3, <2>5
  <2>7. QED BY <2>6 DEF a, b, c
<1> HIDE DEF cut
<1>6. ASSUME NEW i \in 1..q PROVE [dir |-> dir, data |-> cut(i)] \in Events
  <2>1. cut(i) # <<>>
    <3>1. Len(cut(i)) \in 1..d
      BY <1>4, <1>5
    <3>2. Len(cut(i)) # 0
      BY <1>1, <3>1, SMT
    <3>3. QED BY <3>2, EmptySeq
  <2>2. QED BY <1>5, <2>1 DEF Events
<1>7. /\ ch \in Seq(Events) /\ Len(ch) = q
      /\ \A i \in 1..q : ch[i] = [dir |-> dir, data |-> cut(i)]
  <2>1. ch \in Seq(Events)
    BY <1>2, <1>3, <1>6, IsASeq
  <2>2. DOMAIN ch = 1..q
    BY <1>3
  <2>3. Len(ch) = q
    BY <1>2, <2>1, <2>2, LenProperties
  <2>4. QED BY <1>3, <2>1, <2>3
<1>8. \A i \in 1..q : Len(ch[i].data) \in 1..d
  BY <1>4, <1>5, <1>7
<1>9. /\ whole \in Seq(Tags) /\ Len(whole) = L
      /\ \A j \in 1..L : whole[j] = [dir |-> dir, sym |-> data[j]]
  BY TaggedOK DEF L
<1> HIDE DEF whole
<1> DEFINE g == Said(ch)
<1>10. /\ Content(ch) = g[q] /\ g[0] = <<>>
       /\ \A k \in 1..q : g[k] = g[k-1] \o Says(ch[k])
       /\ \A k \in 0..q : g[k] \in Seq(Tags)
  BY <1>7, PartialContents
<1> HIDE DEF g
<1> DEFINE Holds(s, n) == Len(s) = n /\ \A j \in 1..n : s[j] = whole[j]
           N == {k \in 0..q : Holds(g[k], hi(k))}
<1>11. 0 \in N
  <2>1. hi(0) = 0 /\ 0 \in 0..q /\ \A j \in 1..0 : FALSE
    BY <1>1, <1>2, SMT
  <2>2. QED BY <1>10, <2>1, EmptySeq
<1>12. ASSUME NEW k \in 1..q, k - 1 \in N PROVE k \in N
  <2> DEFINE a == lo(k)
             b == hi(k)
             s == g[k-1]
             t == Says(ch[k])
             u == g[k]
  <2>1. a \in Nat /\ b \in Nat /\ a < b /\ b <= L
    BY <1>4
  <2>2. hi(k - 1) = a
    <3>1. a <= L
      BY <1>1, <2>1, SMT
    <3>2. hi(k - 1) = IF a <= L THEN a ELSE L
      OBVIOUS
    <3> HIDE DEF a, hi
    <3>3. QED BY <3>1, <3>2
  <2>3. s \in Seq(Tags) /\ Len(s) = a /\ \A j \in 1..a : s[j] = whole[j]
    <3>1. k - 1 \in 0..q
      BY <1>2, SMT
    <3>2. Holds(g[k-1], a)
      BY <1>12, <2>2
    <3>3. QED BY <1>10, <3>1, <3>2
  <2>4. /\ t \in Seq(Tags) /\ Len(t) = b - a
        /\ \A j \in 1 .. b - a : t[j] = whole[a + j]
    <3>1. t = Tagged(dir, cut(k))
      BY <1>7 DEF Says
    <3>2. /\ cut(k) \in Seq(Symbols) /\ Len(cut(k)) = b - a
          /\ \A j \in 1 .. b - a : cut(k)[j] = data[a + j]
      BY <1>5
    <3> HIDE DEF a, b, t
    <3>3. /\ t \in Seq(Tags) /\ Len(t) = b - a
          /\ \A j \in 1 .. b - a : t[j] = [dir |-> dir, sym |-> cut(k)[j]]
      BY <3>1, <3>2, TaggedOK
    <3>4. \A j \in 1 .. b - a : a + j \in 1..L
      BY <1>1, <2>1, SMT
    <3>5. QED BY <1>9, <3>2, <3>3, <3>4
  <2>5. u = s \o t
    BY <1>10
  <2> HIDE DEF a, b, s, t, u
  <2>6. a + (b - a) = b
    BY <2>1, SMT
  <2>7. /\ Len(u) = Len(s) + Len(t)
        /\ \A j \in 1 .. Len(s) + Len(t) : u[j] = IF j <= Len(s) THEN s[j] ELSE t[j - Len(s)]
    BY <2>3, <2>4, <2>5, ConcatProperties
  <2>8. Len(u) = b /\ \A j \in 1..b : u[j] = IF j <= a THEN s[j] ELSE t[j - a]
    BY <2>3, <2>4, <2>6, <2>7
  <2>9. ASSUME NEW j \in 1..b PROVE u[j] = whole[j]
    <3>1. CASE j <= a
      <4>1. j \in 1..a
        BY <2>1, <3>1, SMT
      <4>2. QED BY <2>3, <2>8, <3>1, <4>1
    <3>2. CASE ~(j <= a)
      <4> DEFINE r == j - a
      <4>1. r \in 1 .. b - a
        BY <2>1, <3>2, SMT
      <4>2. a + r = j
        BY <2>1, SMT
      <4>3. u[j] = t[r]
        BY <2>8, <3>2
      <4> HIDE DEF r
      <4>4. t[r] = whole[a + r]
        BY <2>4, <4>1
      <4>5. QED BY <4>2, <4>3, <4>4
    <3>3. QED BY <3>1, <3>2
  <2>10. Holds(u, b)
    BY <2>8, <2>9
  <2>11. k \in 0..q
    BY <1>2, SMT
  <2>12. QED BY <2>10, <2>11 DEF b, u
<1>13. \A k \in 0..q : k \in N
  <2> HIDE DEF N
  <2>1. QED BY <1>2, <1>11, <1>12, InductionUpTo
<1>14. Holds(g[q], L)
  <2>1. q \in 0..q
    BY <1>2, SMT
  <2>2. hi(q) = L
    <3> DEFINE y == q * d
    <3>1. y \in Nat /\ y >= L
      BY <1>1, <1>2, SMT
    <3> HIDE DEF y
    <3> DEFINE z == IF y <= L THEN y ELSE L
    <3>2. z = L
      BY <1>1, <3>1, SMT
    <3>3. QED BY <3>2 DEF y
  <2>3. QED BY <1>13, <2>1, <2>2
<1>15. Content(ch) = whole
  <2>1. q \in 0..q
    BY <1>2, SMT
  <2>2. g[q] \in Seq(Tags)
    BY <1>10, <2>1
  <2>3. g[q] = whole
    BY <1>9, <1>14, <2>2, SeqEqual
  <2>4. QED BY <1>10, <2>3
<1>16. QED BY <1>7, <1>8, <1>15 DEF ch, d, whole

-----------------------------------------------------------------------------
(* The invariant *)

Live == sessionActive /\ Opens

RingOK ==
  /\ evRing \in Seq(Events)
  /\ Len(evRing) <= RingEvents
  /\ \A i \in 1 .. Len(evRing) : Len(evRing[i].data) \in 1..MaxEventPayload

LedgerOK ==
  /\ ledger \in [taken : Seq(Tags), drops : Nat]
  /\ ledger.drops <= store.drops

\* SessionComplete alone is not inductive: it needs to know that the last file but one
\* is the session's .bin, that a full ring raises the drop count above the ledger's for
\* good, and that events flushed with no capture open reach no file.
CapInv ==
  /\ sessionActive \in BOOLEAN
  /\ fileSeq \in Nat
  /\ RingOK
  /\ Sound(store, fileSeq, Live)
  /\ store.total > MaxTotalBytes => Len(store.files) = 2
  /\ Opens /\ fileSeq > 0 => Len(store.files) >= 2
  /\ LedgerOK
  /\ SessionComplete

\* The parity and the number of a file tell which of all files it is.
LEMMA Numbering ==
  /\ \A k, l \in Nat : CeilDiv(k, 2) = CeilDiv(l, 2) /\ (k % 2 = 0 <=> l % 2 = 0) => k = l
  /\ \A top \in Nat : CeilDiv(2 * top, 2) = top /\ CeilDiv(2 * top - 1, 2) = top
BY SMT DEF CeilDiv

LEMMA BeginsIsPrefix ==
  ASSUME NEW f \in Files, NEW g \in Files, Begins(f.body, g.body)
  PROVE  IsPrefix(f.body, g.body)
<1> DEFINE s == f.body
           t == g.body
           n == Len(s)
<1>1. PICK A : s \in Seq(A)
  BY BodyIsASeq
<1>2. PICK B : t \in Seq(B)
  BY BodyIsASeq
<1>3. n \in Nat /\ n <= Len(t) /\ Len(t) \in Nat /\ \A k \in 1..n : t[k] = s[k]
  BY BodyIsASeq DEF Begins
<1> HIDE DEF s, t
<1> DEFINE U == {s[k] : k \in 1..n}
           x == SubSeq(s, 1, n)
           y == SubSeq(t, 1, n)
<1>4. \A k \in 1..n : s[k] \in U /\ t[k] \in U
  BY <1>3
<1>5. 1 \in Int /\ n \in Int /\ n - 1 + 1 = n /\ (IF 1 <= n THEN n - 1 + 1 ELSE 0) = n
      /\ \A k \in 1..n : 1 + k - 1 = k
  BY <1>3, SMT
<1> HIDE DEF U, n
<1>6. x \in Seq(U) /\ Len(x) = n /\ \A k \in 1..n : x[k] = s[k]
  <2>1. /\ x \in Seq(U) /\ Len(x) = IF 1 <= n THEN n - 1 + 1 ELSE 0
        /\ \A k \in 1 .. n - 1 + 1 : x[k] = s[1 + k - 1]
    BY <1>4, <1>5, SubSeqProperties
  <2> HIDE DEF x
  <2>2. QED BY <1>5, <2>1
<1>7. y \in Seq(U) /\ Len(y) = n /\ \A k \in 1..n : y[k] = t[k]
  <2>1. /\ y \in Seq(U) /\ Len(y) = IF 1 <= n THEN n - 1 + 1 ELSE 0
        /\ \A k \in 1 .. n - 1 + 1 : y[k] = t[1 + k - 1]
    BY <1>4, <1>5, SubSeqProperties
  <2> HIDE DEF y
  <2>2. QED BY <1>5, <2>1
<1> HIDE DEF x, y
<1>8. x = y
  BY <1>3, <1>6, <1>7, SeqEqual
<1>9. QED BY <1>3, <1>8 DEF x, y, n, s, t, IsPrefix

\* Files of one number and kind, before and after a part of a session.
LEMMA SameFileWithin ==
  ASSUME NEW top \in Nat, NEW st, NEW to, NEW u \in BOOLEAN, NEW v \in BOOLEAN,
         Sound(st, top, u), Sound(to, top, v), Follows(st, to),
         NEW i \in 1 .. Len(st.files), NEW j \in 1 .. Len(to.files),
         st.files[i].seq = to.files[j].seq, st.files[i].text = to.files[j].text
  PROVE  /\ IsPrefix(st.files[i].body, to.files[j].body)
         /\ st.files[i].seq # top => st.files[i].body = to.files[j].body
         /\ st.files = to.files => st.files[i].body = to.files[j].body
<1> DEFINE n == Len(st.files)
           m == Len(to.files)
<1>1. /\ n \in Nat /\ m \in Nat /\ m <= n /\ st.files[i] \in Files /\ to.files[j] \in Files
  BY StoreTypes DEF Sound, Follows
<1>2. /\ n <= 2 * top /\ m <= 2 * top
      /\ st.files[i].seq = CeilDiv(2 * top - n + i, 2)
      /\ st.files[i].text <=> (2 * top - n + i) % 2 = 0
      /\ to.files[j].seq = CeilDiv(2 * top - m + j, 2)
      /\ to.files[j].text <=> (2 * top - m + j) % 2 = 0
  BY DEF Sound, Shaped
<1>3. i \in 1..n /\ j \in 1..m
  OBVIOUS
<1>4. 2 * top - n + i \in Nat /\ 2 * top - m + j \in Nat
  <2> HIDE DEF n, m
  <2>1. QED BY <1>1, <1>2, <1>3, SMT
<1>5. 2 * top - n + i = 2 * top - m + j
  <2> DEFINE k == 2 * top - n + i
             l == 2 * top - m + j
  <2>1. /\ k \in Nat /\ l \in Nat
        /\ CeilDiv(k, 2) = CeilDiv(l, 2) /\ (k % 2 = 0 <=> l % 2 = 0)
    BY <1>2, <1>4
  <2> HIDE DEF k, l
  <2>2. k = l
    BY <2>1, Numbering
  <2>3. QED BY <2>2 DEF k, l
<1>6. i = n - m + j
  <2> HIDE DEF n, m
  <2>1. QED BY <1>1, <1>3, <1>5, SMT
<1>7. IsPrefix(st.files[i].body, to.files[j].body)
  <2>1. Begins(st.files[i].body, to.files[j].body)
    BY <1>6 DEF Follows
  <2>2. QED BY <1>1, <2>1, BeginsIsPrefix
<1>8. ASSUME st.files[i].seq # top PROVE st.files[i].body = to.files[j].body
  <2>1. CASE j \in 1 .. m - 2
    BY <1>6, <2>1 DEF Follows
  <2>2. CASE j \notin 1 .. m - 2
    <3>1. 2 * top - m + j = 2 * top - 1 \/ 2 * top - m + j = 2 * top
      <4>1. j = m - 1 \/ j = m
        BY <1>1, <1>3, <2>2, SMT
      <4> HIDE DEF n, m
      <4>2. QED BY <1>1, <4>1, SMT
    <3>2. st.files[i].seq = top
      BY <1>2, <3>1, Numbering
    <3>3. QED BY <1>8, <3>2
  <2>3. QED BY <2>1, <2>2
<1>9. ASSUME st.files = to.files PROVE st.files[i].body = to.files[j].body
  <2>1. m = n /\ n - n + j = j
    BY <1>1, <1>9, SMT
  <2>2. i = j
    BY <1>6, <2>1
  <2>3. QED BY <1>9, <2>2
<1>10. QED BY <1>7, <1>8, <1>9

AppendOnly ==
  \A i \in DOMAIN store.files, j \in DOMAIN store'.files :
    LET old == store.files[i]
        new == store'.files[j]
    IN  old.seq = new.seq /\ old.text = new.text =>
          /\ IsPrefix(old.body, new.body)
          /\ ~sessionActive \/ old.seq # fileSeq => old.body = new.body

LEMMA FollowsItself ==
  ASSUME NEW st \in Stores, NEW to, to.files = st.files PROVE Follows(st, to)
<1> DEFINE m == Len(st.files)
<1>1. m \in Nat /\ \A i \in 1..m : st.files[i] \in Files
  BY StoreTypes
<1>2. m <= m /\ \A i \in 1..m : m - m + i = i
  <2> HIDE DEF m
  <2>1. QED BY <1>1, SMT
<1>3. \A i \in 1 .. m - 2 : i \in 1..m
  <2> HIDE DEF m
  <2>1. QED BY <1>1, SMT
<1>4. QED BY <1>1, <1>2, <1>3, BodyIsASeq DEF Follows

\* A part of a session keeps files append-only.
LEMMA AppendOnlyWithin ==
  ASSUME fileSeq \in Nat, sessionActive \in BOOLEAN, NEW u \in BOOLEAN, NEW v \in BOOLEAN,
         Sound(store, fileSeq, u), Sound(store', fileSeq, v), Follows(store, store'),
         sessionActive \/ store'.files = store.files
  PROVE  AppendOnly
<1> SUFFICES ASSUME NEW i \in DOMAIN store.files, NEW j \in DOMAIN store'.files,
                    store.files[i].seq = store'.files[j].seq,
                    store.files[i].text = store'.files[j].text
             PROVE  /\ IsPrefix(store.files[i].body, store'.files[j].body)
                    /\ ~sessionActive \/ store.files[i].seq # fileSeq =>
                         store.files[i].body = store'.files[j].body
  BY DEF AppendOnly
<1>1. i \in 1 .. Len(store.files) /\ j \in 1 .. Len(store'.files)
  BY StoreTypes DEF Sound
<1>2. /\ IsPrefix(store.files[i].body, store'.files[j].body)
      /\ store.files[i].seq # fileSeq => store.files[i].body = store'.files[j].body
      /\ store.files = store'.files => store.files[i].body = store'.files[j].body
  BY <1>1, SameFileWithin
<1>3. QED BY <1>2

-----------------------------------------------------------------------------
(* Each operation *)

LEMMA InitOK == CaptureInit => CapInv
<1> SUFFICES ASSUME CaptureInit PROVE CapInv
  OBVIOUS
<1>1. /\ sessionActive = FALSE /\ evRing = <<>> /\ fileSeq = 0
      /\ store = [files |-> <<>>, bin |-> 0, txt |-> 0, total |-> 0, drops |-> 0]
      /\ ledger = [taken |-> <<>>, drops |-> 0]
  BY DEF CaptureInit
<1>2. /\ <<>> \in Seq(Events) /\ <<>> \in Seq(Files) /\ <<>> \in Seq(Tags) /\ Len(<<>>) = 0
      /\ \A i \in 1..0 : FALSE
  <2>1. \A i \in 1..0 : FALSE
    BY SMT
  <2>2. QED BY <2>1, EmptySeq
<1>3. RingOK
  BY <1>1, <1>2, CaptureConstantsOK, SMT DEF RingOK
<1>4. Sound(store, fileSeq, Live)
  <2>1. store \in Stores
    BY <1>1, <1>2 DEF Stores
  <2>2. store.files = <<>> /\ store.bin = 0 /\ store.txt = 0 /\ store.total = 0
    BY <1>1
  <2>3. StoredBytes(<<>>) = 0
    <3>1. Sizes(<<>>) \in Seq(Nat) /\ Len(Sizes(<<>>)) = 0 /\ StoredBytes(<<>>) = SumOf(Sizes(<<>>))
      BY <1>2, SizesOK
    <3>2. Sizes(<<>>) = <<>>
      BY <3>1, EmptySeq
    <3>3. QED BY <3>1, <3>2, SumOfEmpty
  <2>4. Shaped(store, fileSeq, Live)
    <3>1. ~Live
      BY <1>1 DEF Live
    <3>2. 0 <= 2 * 0
      BY SMT
    <3>3. QED BY <1>1, <1>2, <2>2, <3>1, <3>2 DEF Shaped
  <2>5. Covered(store.files)
    <3>1. \A i \in 2..0 : FALSE
      BY SMT
    <3>2. QED BY <1>2, <2>2, <3>1 DEF Covered
  <2>6. QED BY <2>1, <2>2, <2>3, <2>4, <2>5 DEF Sound
<1>5. store.total = 0 /\ ~(0 > MaxTotalBytes) /\ ~(0 > 0)
  BY <1>1, CaptureConstantsOK, SMT
<1>6. LedgerOK
  <2>1. ledger \in [taken : Seq(Tags), drops : Nat] /\ ledger.drops = 0 /\ store.drops = 0
    BY <1>1, <1>2
  <2>2. QED BY <2>1 DEF LedgerOK
<1>7. SessionComplete
  BY <1>1, <1>5 DEF SessionComplete
<1>8. QED BY <1>1, <1>3, <1>4, <1>5, <1>6, <1>7 DEF CapInv

\* flush_ring_, whether a capture is open or not.
LEMMA FlushOK ==
  ASSUME CapInv
  PROVE  LET to == Flush(store, evRing)
         IN  /\ Sound(to, fileSeq, Live)
             /\ to.total > MaxTotalBytes => Len(to.files) = 2
             /\ Follows(store, to)
             /\ Len(store.files) >= 2 => Len(to.files) >= 2
             /\ to.drops >= store.drops
             /\ Live => /\ to.drops = store.drops
                        /\ LastBin(store) \in Seq(Events)
                        /\ LastBin(to) = LastBin(store) \o evRing
             /\ ~Live => to.files = store.files
<1> DEFINE to == Flush(store, evRing)
<1>1. /\ store \in Stores /\ Sound(store, fileSeq, Live) /\ fileSeq \in Nat
      /\ evRing \in Seq(Events) /\ Live \in BOOLEAN
      /\ store.total > MaxTotalBytes => Len(store.files) = 2
      /\ Len(store.files) \in Nat /\ store.drops \in Nat
  BY StoreTypes DEF CapInv, RingOK, Sound, Live, Opens
<1>2. CASE Live
  <2>1. Sound(store, fileSeq, TRUE)
    BY <1>1, <1>2
  <2>2. /\ Sound(to, fileSeq, TRUE)
        /\ to.total > MaxTotalBytes => Len(to.files) = 2
        /\ to.drops = store.drops
        /\ Follows(store, to)
        /\ LastBin(store) \in Seq(Events) /\ LastBin(to) = LastBin(store) \o evRing
    BY <1>1, <2>1, FlushWhileOpen
  <2> HIDE DEF to
  <2>3. Len(to.files) >= 2
    BY <2>2 DEF Sound, Shaped
  <2>4. store.drops >= store.drops
    BY <1>1, SMT
  <2>5. Sound(to, fileSeq, Live)
    BY <1>1, <1>2, <2>2
  <2>6. QED BY <1>2, <2>2, <2>3, <2>4, <2>5 DEF to
<1>3. CASE ~Live
  <2>1. store.bin = 0 /\ Sound(store, fileSeq, FALSE)
    BY <1>1, <1>3 DEF Sound, Shaped
  <2>2. PICK d \in Nat : d >= store.drops /\ to = [store EXCEPT !.drops = d]
    BY <1>1, <2>1, FlushWhileClosed
  <2> HIDE DEF to
  <2>3. /\ to \in Stores /\ to.files = store.files /\ to.total = store.total /\ to.drops = d
        /\ to.bin = store.bin /\ to.txt = store.txt
    BY <1>1, <2>2 DEF Stores
  <2>4. Sound(to, fileSeq, FALSE)
    BY <2>1, <2>3 DEF Sound, Shaped
  <2>5. Sound(to, fileSeq, Live)
    BY <1>1, <1>3, <2>4
  <2>6. Follows(store, to)
    BY <1>1, <2>3, FollowsItself
  <2>7. QED BY <1>1, <1>3, <2>2, <2>3, <2>5, <2>6 DEF to
<1>4. QED BY <1>2, <1>3

LEMMA CloseOK ==
  ASSUME NEW top \in Nat, NEW st, NEW u \in BOOLEAN, Sound(st, top, u)
  PROVE  LET to == CloseCurrent(st)
         IN  /\ Sound(to, top, FALSE)
             /\ to.files = st.files /\ to.total = st.total /\ to.drops = st.drops
<1> DEFINE to == CloseCurrent(st)
<1>1. /\ st \in Stores /\ st.files \in Seq(Files) /\ st.bin \in Nat /\ st.txt \in Nat
      /\ st.total \in Nat /\ st.drops \in Nat
  BY StoreTypes DEF Sound
<1>2. /\ to \in Stores
      /\ to.files = st.files /\ to.total = st.total /\ to.drops = st.drops
      /\ to.bin = 0 /\ to.txt = 0
  <2>1. CASE st.bin = 0
    <3>1. st.txt = 0
      <4>1. CASE u
        <5> DEFINE n == Len(st.files)
        <5>1. n \in Nat /\ n >= 2 /\ st.bin = n - 1
          BY <1>1, <4>1, StoreTypes DEF Sound, Shaped
        <5> HIDE DEF n
        <5>2. n - 1 # 0
          BY <5>1, SMT
        <5>3. QED BY <2>1, <5>1, <5>2
      <4>2. CASE ~u
        BY <4>2 DEF Sound, Shaped
      <4>3. QED BY <4>1, <4>2
    <3>2. to = st
      BY <2>1 DEF CloseCurrent
    <3>3. QED BY <1>1, <2>1, <3>1, <3>2
  <2>2. CASE st.bin # 0
    <3>1. to = [st EXCEPT !.bin = 0, !.txt = 0]
      BY <2>2 DEF CloseCurrent
    <3> HIDE DEF to
    <3>2. to = [files |-> st.files, bin |-> 0, txt |-> 0, total |-> st.total, drops |-> st.drops]
      BY <1>1, <3>1 DEF Stores
    <3>3. QED BY <1>1, <3>2 DEF Stores
  <2>3. QED BY <2>1, <2>2
<1> HIDE DEF to
<1>3. Shaped(to, top, FALSE)
  BY <1>2 DEF Sound, Shaped
<1>4. QED BY <1>2, <1>3 DEF Sound, to

\* flush_ring_ with or without close_current_ after it: what loop() and
\* on_session_end() do to the files.
LEMMA FlushedOK ==
  ASSUME CapInv, NEW u \in BOOLEAN, Sound(store', fileSeq', u), u <=> Live',
         store'.files = Flush(store, evRing).files,
         store'.total = Flush(store, evRing).total,
         store'.drops = Flush(store, evRing).drops,
         evRing' = <<>>, sessionActive' \in {sessionActive, FALSE},
         UNCHANGED <<fileSeq, ledger>>
  PROVE  CapInv' /\ AppendOnly
<1> DEFINE to == Flush(store, evRing)
<1>1. /\ Sound(to, fileSeq, Live)
      /\ to.total > MaxTotalBytes => Len(to.files) = 2
      /\ Follows(store, to)
      /\ Len(store.files) >= 2 => Len(to.files) >= 2
      /\ to.drops >= store.drops
      /\ Live => /\ to.drops = store.drops
                 /\ LastBin(store) \in Seq(Events)
                 /\ LastBin(to) = LastBin(store) \o evRing
      /\ ~Live => to.files = store.files
  BY FlushOK
<1> HIDE DEF to
<1>2. store'.files = to.files /\ store'.total = to.total /\ store'.drops = to.drops
  BY DEF to
<1>3. /\ sessionActive \in BOOLEAN /\ fileSeq \in Nat /\ RingOK /\ Sound(store, fileSeq, Live)
      /\ Opens /\ fileSeq > 0 => Len(store.files) >= 2
      /\ LedgerOK /\ SessionComplete
  BY DEF CapInv
<1>4. store.drops \in Nat /\ to.drops \in Nat /\ ledger.drops \in Nat /\ ledger.drops <= store.drops
  <2>1. store \in Stores /\ to \in Stores
    BY <1>1, <1>3 DEF Sound
  <2>2. QED BY <1>3, <2>1, StoreTypes DEF LedgerOK
<1>5. RingOK'
  <2>1. <<>> \in Seq(Events) /\ Len(<<>>) = 0 /\ 0 <= RingEvents
    BY EmptySeq, CaptureConstantsOK, SMT
  <2>2. \A i \in 1..0 : FALSE
    BY SMT
  <2>3. QED BY <2>1, <2>2 DEF RingOK
<1>6. Sound(store', fileSeq', Live')
  <2>1. Live' \in BOOLEAN
    BY DEF Live, Opens
  <2>2. u = Live'
    BY <2>1
  <2>3. QED BY <2>2
<1>7. LedgerOK'
  <2>1. ledger.drops <= to.drops
    BY <1>1, <1>4, SMT
  <2>2. QED BY <1>2, <1>3, <2>1 DEF LedgerOK
<1>8. SessionComplete'
  <2> SUFFICES ASSUME Opens, fileSeq > 0, to.drops = ledger.drops
               PROVE  Content(LastBin(store') \o <<>>) = ledger.taken
    <3>1. (IF sessionActive' THEN evRing' ELSE <<>>) = <<>>
      OBVIOUS
    <3>2. QED BY <1>2, <3>1 DEF SessionComplete, LastBin, Opens
  <2>1. store.drops = ledger.drops
    BY <1>1, <1>4, SMT
  <2>2. Content(LastBin(store) \o (IF sessionActive THEN evRing ELSE <<>>)) = ledger.taken
    BY <1>3, <2>1 DEF SessionComplete, LastBin
  <2>3. LastBin(store') = LastBin(to)
    BY <1>2 DEF LastBin
  <2>4. CASE Live
    <3>1. LastBin(store) \o evRing \in Seq(Events)
      BY <1>1, <1>3, <2>4, ConcatProperties DEF RingOK
    <3>2. LastBin(to) \o <<>> = LastBin(store) \o evRing
      BY <1>1, <2>4, <3>1, ConcatEmptySeq
    <3>3. sessionActive
      BY <2>4 DEF Live
    <3>4. QED BY <2>2, <2>3, <3>2, <3>3
  <2>5. CASE ~Live
    <3>1. ~sessionActive /\ LastBin(store') = LastBin(store)
      BY <1>1, <1>2, <2>5 DEF Live, LastBin
    <3>2. QED BY <2>2, <3>1
  <2>6. QED BY <2>4, <2>5
<1>9. /\ sessionActive' \in BOOLEAN /\ fileSeq' \in Nat
      /\ store'.total > MaxTotalBytes => Len(store'.files) = 2
      /\ Opens' /\ fileSeq' > 0 => Len(store'.files) >= 2
  BY <1>1, <1>2, <1>3 DEF Opens
<1>10. CapInv'
  BY <1>5, <1>6, <1>7, <1>8, <1>9 DEF CapInv
<1>11. AppendOnly
  <2>1. Follows(store, store')
    BY <1>1, <1>2 DEF Follows
  <2>2. sessionActive \/ store'.files = store.files
    BY <1>1, <1>2 DEF Live
  <2>3. Live \in BOOLEAN /\ Sound(store', fileSeq, u)
    BY DEF Live, Opens
  <2>4. QED BY <1>3, <2>1, <2>2, <2>3, AppendOnlyWithin
<1>12. QED BY <1>10, <1>11

LEMMA CaptureLoopOK == ASSUME CapInv, CaptureLoop PROVE CapInv' /\ AppendOnly
<1>1. /\ store' = Flush(store, evRing) /\ evRing' = <<>> /\ sessionActive' = sessionActive
      /\ UNCHANGED <<fileSeq, ledger>>
  BY DEF CaptureLoop
<1>2. Live \in BOOLEAN /\ (Live <=> Live')
  BY <1>1 DEF Live, Opens
<1>3. Sound(store', fileSeq', Live)
  BY <1>1, FlushOK
<1>4. QED BY <1>1, <1>2, <1>3, FlushedOK

LEMMA OnSessionEndOK == ASSUME CapInv, OnSessionEnd PROVE CapInv' /\ AppendOnly
<1> DEFINE to == Flush(store, evRing)
<1>1. /\ store' = CloseCurrent(to) /\ evRing' = <<>> /\ sessionActive' = FALSE
      /\ UNCHANGED <<fileSeq, ledger>>
  BY DEF OnSessionEnd
<1>2. Sound(to, fileSeq, Live) /\ Live \in BOOLEAN /\ fileSeq \in Nat
  BY FlushOK DEF CapInv, Live, Opens
<1> HIDE DEF to
<1>3. /\ Sound(store', fileSeq, FALSE)
      /\ store'.files = to.files /\ store'.total = to.total /\ store'.drops = to.drops
  BY <1>1, <1>2, CloseOK
<1>4. FALSE <=> Live'
  BY <1>1 DEF Live
<1>5. Sound(store', fileSeq', FALSE)
  BY <1>1, <1>3
<1>6. QED BY <1>1, <1>3, <1>4, <1>5, FlushedOK DEF to

LEMMA OnSessionStartOK ==
  ASSUME CapInv, ~sessionActive, evRing = <<>>, OnSessionStart PROVE CapInv' /\ AppendOnly
<1>1. /\ fileSeq \in Nat /\ RingOK /\ Sound(store, fileSeq, Live) /\ ~Live
      /\ store.total > MaxTotalBytes => Len(store.files) = 2
      /\ Opens /\ fileSeq > 0 => Len(store.files) >= 2
      /\ store \in Stores /\ store.drops \in Nat
  BY StoreTypes DEF CapInv, Sound, Live
<1>2. sessionActive' = TRUE /\ evRing' = evRing /\ ledger' = [taken |-> <<>>, drops |-> store.drops]
  BY DEF OnSessionStart
<1>3. RingOK'
  BY <1>1, <1>2 DEF RingOK
<1>4. Sound(store, fileSeq, FALSE)
  BY <1>1 DEF Sound, Shaped
<1>5. LedgerOK' <=> store.drops <= store'.drops
  <2>1. <<>> \in Seq(Tags)
    BY EmptySeq
  <2>2. QED BY <1>1, <1>2, <2>1 DEF LedgerOK
<1>6. CASE Opens
  <2> DEFINE to == OpenNewCapture(store, fileSeq + 1)
             n == Len(store.files)
             m == Len(to.files)
  <2>1. store' = to /\ fileSeq' = fileSeq + 1
    BY <1>6 DEF OnSessionStart
  <2>2. /\ Sound(to, fileSeq + 1, TRUE)
        /\ to.total > MaxTotalBytes => m = 2
        /\ to.drops = store.drops
        /\ to.files[m-1].body = <<>>
        /\ m <= n + 2 /\ \A i \in 1 .. m - 2 : to.files[i] = store.files[n + 2 - m + i]
    BY <1>1, <1>4, OpenNewCaptureOK
  <2> HIDE DEF to
  <2>3. m >= 2
    BY <2>2 DEF Sound, Shaped
  <2>4. Live' = TRUE
    BY <1>2, <1>6 DEF Live, Opens
  <2>5. Sound(store', fileSeq', Live')
    BY <2>1, <2>2, <2>4
  <2>6. LedgerOK'
    BY <1>1, <1>5, <2>1, <2>2, SMT
  <2>7. SessionComplete'
    <3>1. LastBin(store') = <<>>
      BY <2>1, <2>2 DEF LastBin
    <3>2. <<>> \o <<>> = <<>> /\ Content(<<>>) = <<>>
      <4>1. <<>> \in Seq(Events) /\ Len(<<>>) = 0
        BY EmptySeq
      <4>2. QED BY <4>1, ConcatEmptySeq, PartialContents
    <3>3. Content(LastBin(store') \o evRing') = ledger'.taken
      BY <1>2, <3>1, <3>2
    <3>4. QED BY <1>2, <3>3 DEF SessionComplete, LastBin
  <2>8. fileSeq + 1 \in Nat
    BY <1>1, SMT
  <2>9. CapInv'
    BY <1>2, <1>3, <2>1, <2>2, <2>3, <2>5, <2>6, <2>7, <2>8 DEF CapInv
  <2>10. AppendOnly
    <3> SUFFICES ASSUME NEW i \in DOMAIN store.files, NEW j \in DOMAIN to.files,
                        store.files[i].seq = to.files[j].seq,
                        store.files[i].text = to.files[j].text
                 PROVE  IsPrefix(store.files[i].body, to.files[j].body)
                        /\ store.files[i].body = to.files[j].body
      BY <2>1 DEF AppendOnly
    <3>1. to \in Stores
      BY <2>2 DEF Sound
    <3>2. /\ i \in 1..n /\ j \in 1..m /\ n \in Nat /\ m \in Nat /\ store.files[i] \in Files
      BY <1>1, <3>1, StoreTypes
    <3>3. /\ n <= 2 * fileSeq /\ m <= 2 * (fileSeq + 1)
          /\ store.files[i].seq = CeilDiv(2 * fileSeq - n + i, 2)
          /\ store.files[i].text <=> (2 * fileSeq - n + i) % 2 = 0
          /\ to.files[j].seq = CeilDiv(2 * (fileSeq + 1) - m + j, 2)
          /\ to.files[j].text <=> (2 * (fileSeq + 1) - m + j) % 2 = 0
      BY <1>4, <2>2, <3>2 DEF Sound, Shaped
    <3>4. 2 * fileSeq - n + i = 2 * (fileSeq + 1) - m + j
      <4> DEFINE k == 2 * fileSeq - n + i
                 l == 2 * (fileSeq + 1) - m + j
      <4>1. k \in Nat /\ l \in Nat
        <5>1. n <= 2 * fileSeq /\ m <= 2 * (fileSeq + 1)
          BY <3>3
        <5> HIDE DEF n, m
        <5>2. QED BY <1>1, <3>2, <5>1, SMT
      <4>2. CeilDiv(k, 2) = CeilDiv(l, 2) /\ (k % 2 = 0 <=> l % 2 = 0)
        BY <3>3
      <4> HIDE DEF k, l
      <4>3. k = l
        BY <4>1, <4>2, Numbering
      <4>4. QED BY <4>3 DEF k, l
    <3>5. i = n + 2 - m + j /\ j \in 1 .. m - 2
      <4> HIDE DEF n, m
      <4>1. QED BY <1>1, <3>2, <3>4, SMT
    <3>6. store.files[i] = to.files[j]
      BY <2>2, <3>5
    <3>7. QED BY <3>2, <3>6, BodyIsASeq, BeginsIsPrefix
  <2>11. QED BY <2>9, <2>10
<1>7. CASE ~Opens
  <2>1. store' = store /\ fileSeq' = fileSeq
    BY <1>7 DEF OnSessionStart
  <2>2. Live' = FALSE
    BY <1>7 DEF Live, Opens
  <2>3. Sound(store', fileSeq', Live')
    BY <1>4, <2>1, <2>2
  <2>4. LedgerOK'
    BY <1>1, <1>5, <2>1, SMT
  <2>5. SessionComplete'
    BY <1>7 DEF SessionComplete, Opens
  <2>6. CapInv'
    BY <1>1, <1>2, <1>3, <1>7, <2>1, <2>3, <2>4, <2>5 DEF CapInv, Opens
  <2>7. Follows(store, store')
    BY <1>1, <2>1, FollowsItself
  <2>8. Sound(store', fileSeq, FALSE)
    BY <1>4, <2>1
  <2>9. sessionActive \in BOOLEAN
    BY DEF CapInv
  <2>10. AppendOnly
    BY <1>1, <1>4, <2>1, <2>7, <2>8, <2>9, AppendOnlyWithin
  <2>11. QED BY <2>6, <2>10
<1>8. QED BY <1>6, <1>7

LEMMA RecordOK ==
  ASSUME CapInv, NEW dir \in 0..1, NEW data \in Payloads, Record(dir, data)
  PROVE  CapInv' /\ AppendOnly
<1>1. /\ sessionActive \in BOOLEAN /\ fileSeq \in Nat /\ RingOK /\ Sound(store, fileSeq, Live)
      /\ store.total > MaxTotalBytes => Len(store.files) = 2
      /\ Opens /\ fileSeq > 0 => Len(store.files) >= 2
      /\ LedgerOK /\ SessionComplete /\ store \in Stores
  BY DEF CapInv, Sound
<1>2. sessionActive' = sessionActive /\ fileSeq' = fileSeq
  BY DEF Record
<1>3. data \in Seq(Symbols) /\ data # <<>>
  BY CaptureConstantsOK
<1>4. store.drops \in Nat /\ ledger.drops \in Nat /\ ledger.drops <= store.drops
      /\ ledger.taken \in Seq(Tags)
  BY <1>1, StoreTypes DEF LedgerOK
<1>5. Live \in BOOLEAN /\ Live' = Live
  BY <1>2 DEF Live, Opens
<1>6. CASE RecordResult
  <2> DEFINE ch == Chunks(dir, data)
             n == Len(evRing)
             q == Len(ch)
             room == RingEvents - n
             k == Min({room, q})
             piece == SubSeq(ch, 1, k)
             more == IF q > room THEN [store EXCEPT !.drops = @ + 1] ELSE store
  <2>1. /\ evRing' = evRing \o piece
        /\ store' = more
        /\ ledger' = IF sessionActive THEN [ledger EXCEPT !.taken = @ \o Tagged(dir, data)]
                                      ELSE ledger
    BY <1>6 DEF Record
  <2>2. /\ ch \in Seq(Events)
        /\ \A i \in 1..q : Len(ch[i].data) \in 1..MaxEventPayload
        /\ Content(ch) = Tagged(dir, data)
    BY <1>3, ChunksOK
  <2> HIDE DEF ch
  <2>3. /\ evRing \in Seq(Events) /\ n \in Nat /\ n <= RingEvents /\ q \in Nat
        /\ \A i \in 1..n : Len(evRing[i].data) \in 1..MaxEventPayload
        /\ \A i \in 1..q : ch[i] \in Events
    BY <1>1, <2>2, LenProperties, ElementOfSeq DEF RingOK
  <2>4. /\ room \in Nat /\ k = IF room <= q THEN room ELSE q
    <3> HIDE DEF n, q
    <3>1. room \in Nat
      BY <2>3, CaptureConstantsOK, SMT
    <3> HIDE DEF room
    <3>2. QED BY <2>3, <3>1, MinOfTwo
  <2>5. k \in 0..q /\ n + k <= RingEvents /\ (q <= room => k = q)
    <3> HIDE DEF n, q, k
    <3>1. QED BY <2>3, <2>4, CaptureConstantsOK, SMT
  <2> HIDE DEF k
  <2>6. /\ piece \in Seq(Events) /\ Len(piece) = k
        /\ \A j \in 1..k : j \in 1..q /\ piece[j] = ch[j]
    <3>1. /\ 1 \in Int /\ k \in Int /\ k - 1 + 1 = k /\ (IF 1 <= k THEN k - 1 + 1 ELSE 0) = k
          /\ \A j \in 1..k : 1 + j - 1 = j /\ j \in 1..q
      <4> HIDE DEF q
      <4>1. QED BY <2>3, <2>5, SMT
    <3>2. \A j \in 1..k : ch[j] \in Events
      BY <2>3, <3>1
    <3>3. /\ piece \in Seq(Events) /\ Len(piece) = IF 1 <= k THEN k - 1 + 1 ELSE 0
          /\ \A j \in 1 .. k - 1 + 1 : piece[j] = ch[1 + j - 1]
      BY <3>1, <3>2, SubSeqProperties
    <3> HIDE DEF piece
    <3>4. QED BY <3>1, <3>3
  <2>7. q <= room => piece = ch
    <3>1. CASE q <= room
      <4>1. Len(piece) = Len(ch) /\ \A j \in 1 .. Len(piece) : piece[j] = ch[j]
        BY <2>5, <2>6, <3>1
      <4> HIDE DEF piece
      <4>2. piece = ch
        BY <2>2, <2>6, <4>1, SeqEqual
      <4>3. QED BY <4>2
    <3>2. QED BY <3>1
  <2> HIDE DEF piece
  <2>8. RingOK'
    <3> DEFINE ring == evRing \o piece
    <3>1. /\ ring \in Seq(Events) /\ Len(ring) = n + k
          /\ \A i \in 1 .. n + k : ring[i] = IF i <= n THEN evRing[i] ELSE piece[i - n]
      BY <2>3, <2>6, ConcatProperties
    <3> HIDE DEF ring
    <3>2. ASSUME NEW i \in 1 .. n + k PROVE Len(ring[i].data) \in 1..MaxEventPayload
      <4>1. CASE i <= n
        <5>1. i \in 1..n
          <6> HIDE DEF n
          <6>1. QED BY <2>3, <2>5, <4>1, SMT
        <5>2. QED BY <2>3, <3>1, <4>1, <5>1
      <4>2. CASE ~(i <= n)
        <5> DEFINE r == i - n
        <5>1. r \in 1..k
          <6> HIDE DEF n, q
          <6>1. QED BY <2>3, <2>5, <4>2, SMT
        <5>2. ring[i] = piece[r]
          BY <3>1, <4>2
        <5> HIDE DEF r
        <5>3. piece[r] = ch[r] /\ r \in 1..q
          BY <2>6, <5>1
        <5>4. QED BY <2>2, <5>2, <5>3
      <4>3. QED BY <4>1, <4>2
    <3>3. evRing' = ring
      BY <2>1 DEF ring
    <3>4. QED BY <2>5, <3>1, <3>2, <3>3 DEF RingOK
  <2>9. /\ store' \in Stores /\ store'.files = store.files /\ store'.total = store.total
        /\ store'.bin = store.bin /\ store'.txt = store.txt
        /\ store'.drops = IF q > room THEN store.drops + 1 ELSE store.drops
    <3>1. CASE q > room
      <4>1. store' = [store EXCEPT !.drops = @ + 1]
        BY <2>1, <3>1
      <4>2. store.drops + 1 \in Nat
        BY <1>4, SMT
      <4>3. QED BY <1>1, <3>1, <4>1, <4>2 DEF Stores
    <3>2. CASE ~(q > room)
      BY <1>1, <2>1, <3>2
    <3>3. QED BY <3>1, <3>2
  <2> HIDE DEF more
  <2>10. Sound(store', fileSeq, Live)
    BY <1>1, <2>9 DEF Sound, Shaped
  <2>11. ledger' \in [taken : Seq(Tags), drops : Nat] /\ ledger'.drops = ledger.drops
         /\ ledger'.taken = IF sessionActive THEN ledger.taken \o Tagged(dir, data) ELSE ledger.taken
    <3>1. Tagged(dir, data) \in Seq(Tags)
      BY <1>3, TaggedOK
    <3>2. ledger.taken \o Tagged(dir, data) \in Seq(Tags)
      BY <1>4, <3>1, ConcatProperties
    <3>3. ledger \in [taken : Seq(Tags), drops : Nat]
      BY <1>1 DEF LedgerOK
    <3>4. QED BY <1>1, <2>1, <3>2, <3>3
  <2>12. store'.drops >= store.drops /\ ledger.drops <= store'.drops
    <3> DEFINE c == q > room
    <3>1. store'.drops = IF c THEN store.drops + 1 ELSE store.drops
      BY <2>9
    <3> HIDE DEF c
    <3>2. QED BY <1>4, <3>1, SMT
  <2>13. LedgerOK'
    BY <2>11, <2>12 DEF LedgerOK
  <2>14. SessionComplete'
    <3> SUFFICES ASSUME Opens, fileSeq > 0, store'.drops = ledger.drops
                 PROVE  Content(LastBin(store') \o (IF sessionActive THEN evRing' ELSE <<>>))
                          = ledger'.taken
      BY <1>2, <2>11 DEF SessionComplete, LastBin, Opens
    <3>1. store.drops = ledger.drops /\ ~(q > room)
      <4> DEFINE c == q > room
      <4>1. store'.drops = IF c THEN store.drops + 1 ELSE store.drops
        BY <2>9
      <4> HIDE DEF c
      <4>2. store.drops = ledger.drops /\ ~c
        BY <1>4, <4>1, SMT
      <4>3. QED BY <4>2 DEF c
    <3>2. Content(LastBin(store) \o (IF sessionActive THEN evRing ELSE <<>>)) = ledger.taken
      BY <1>1, <3>1 DEF SessionComplete, LastBin
    <3>3. LastBin(store') = LastBin(store)
      BY <2>9 DEF LastBin
    <3>4. CASE sessionActive
      <4>1. q <= room
        <5> HIDE DEF q, room
        <5>1. QED BY <2>3, <2>4, <3>1, SMT
      <4>2. piece = ch
        BY <2>7, <4>1
      <4> DEFINE b == LastBin(store)
      <4>3. b \in Seq(Events)
        <5>1. Live
          BY <3>4 DEF Live
        <5>2. QED BY <5>1, FlushOK
      <4> HIDE DEF b
      <4>4. b \o (evRing \o ch) = (b \o evRing) \o ch
        BY <2>2, <2>3, <4>3, EventsAssociate
      <4>5. b \o evRing \in Seq(Events)
        BY <2>3, <4>3, ConcatProperties
      <4>6. Content((b \o evRing) \o ch) = Content(b \o evRing) \o Content(ch)
        BY <2>2, <4>5, ContentOfConcat
      <4>7. QED BY <2>1, <2>2, <2>11, <3>2, <3>3, <3>4, <4>2, <4>4, <4>6 DEF b
    <3>5. CASE ~sessionActive
      BY <2>11, <3>2, <3>3, <3>5
    <3>6. QED BY <3>4, <3>5, <1>1
  <2>15. CapInv'
    <3>1. Sound(store', fileSeq', Live')
      BY <1>2, <1>5, <2>10
    <3>2. QED BY <1>1, <1>2, <2>8, <2>9, <2>13, <2>14, <3>1 DEF CapInv, Opens
  <2>16. AppendOnly
    <3>1. Follows(store, store')
      BY <1>1, <2>9, FollowsItself
    <3>2. QED BY <1>1, <1>5, <2>9, <2>10, <3>1, AppendOnlyWithin
  <2>17. QED BY <2>15, <2>16
<1>7. CASE ~RecordResult
  <2>1. UNCHANGED captureVars
    BY <1>2, <1>7 DEF Record, captureVars
  <2>2. CapInv'
    BY <2>1 DEF CapInv, captureVars, RingOK, LedgerOK, SessionComplete, Live, Opens
  <2>3. Follows(store, store')
    BY <1>1, <2>1, FollowsItself DEF captureVars
  <2>4. store' = store
    BY <2>1 DEF captureVars
  <2>5. AppendOnly
    BY <1>1, <1>5, <2>3, <2>4, AppendOnlyWithin
  <2>6. QED BY <2>2, <2>5
<1>8. QED BY <1>6, <1>7

LEMMA NextOK == ASSUME CapInv, CaptureNext PROVE CapInv' /\ AppendOnly
BY OnSessionStartOK, OnSessionEndOK, RecordOK, CaptureLoopOK DEF CaptureNext

-----------------------------------------------------------------------------
(* The theorems *)

\* The inductive invariant, for every mode, budget, ring size, slot size and set of
\* payloads.
THEOREM CaptureInvariant == CaptureSpec => []CapInv
<1>1. CapInv /\ UNCHANGED captureVars => CapInv'
  BY DEF CapInv, captureVars, RingOK, LedgerOK, SessionComplete, Live, Opens
<1>2. CapInv /\ [CaptureNext]_captureVars => CapInv'
  BY <1>1, NextOK
<1>3. QED BY InitOK, <1>2, PTL DEF CaptureSpec

LEMMA CapInvImplies ==
  ASSUME CapInv
  PROVE  /\ CaptureTypeOK /\ TotalIsSum /\ NewestRetained /\ BudgetHeld /\ SidecarCoversBin
         /\ SessionComplete
<1> DEFINE n == Len(store.files)
<1>1. /\ sessionActive \in BOOLEAN /\ fileSeq \in Nat /\ RingOK /\ Sound(store, fileSeq, Live)
      /\ store.total > MaxTotalBytes => Len(store.files) = 2
      /\ SessionComplete /\ store \in Stores
  BY DEF CapInv, Sound
<1>2. /\ n \in Nat /\ store.total \in Nat /\ store.drops \in Nat
      /\ store.files \in Seq(Files) /\ \A i \in 1..n : store.files[i] \in Files
  BY <1>1, StoreTypes
<1>3. /\ n <= 2 * fileSeq
      /\ \A i \in 1..n : /\ store.files[i].seq = CeilDiv(2 * fileSeq - n + i, 2)
                         /\ store.files[i].text <=> (2 * fileSeq - n + i) % 2 = 0
      /\ Live => n >= 2 /\ store.bin = n - 1 /\ store.txt = n
      /\ ~Live => store.bin = 0 /\ store.txt = 0
  BY <1>1 DEF Sound, Shaped
<1>4. CaptureTypeOK
  <2>1. {store.bin, store.txt} \subseteq 0..n
    <3>1. n >= 2 => n - 1 \in 0..n /\ n \in 0..n
      BY <1>2, SMT
    <3>2. 0 \in 0..n
      BY <1>2, SMT
    <3> HIDE DEF n
    <3>3. QED BY <1>3, <3>1, <3>2
  <2>2. /\ Len(evRing) <= RingEvents
        /\ \A i \in DOMAIN evRing : evRing[i].dir \in 0..1 /\ Len(evRing[i].data) \in 1..MaxEventPayload
    <3>1. /\ DOMAIN evRing = 1 .. Len(evRing)
          /\ \A i \in 1 .. Len(evRing) : evRing[i] \in Events
      BY <1>1, LenProperties, ElementOfSeq DEF RingOK
    <3>2. QED BY <1>1, <3>1 DEF RingOK, Events
  <2>3. QED BY <1>1, <1>2, <2>1, <2>2 DEF CaptureTypeOK
<1>5. TotalIsSum
  BY <1>1 DEF TotalIsSum, Sound
<1>6. NewestRetained
  <2>1. <<store.bin, store.txt>> = IF sessionActive /\ Opens THEN <<n - 1, n>> ELSE <<0, 0>>
    BY <1>3 DEF Live
  <2>2. QED BY <1>3, <2>1 DEF NewestRetained
<1>7. BudgetHeld
  <2> SUFFICES ASSUME n = 2 PROVE \A i \in 1..2 : store.files[i].seq = fileSeq
    BY <1>1 DEF BudgetHeld
  <2>1. ASSUME NEW i \in 1..2 PROVE store.files[i].seq = fileSeq
    <3>1. store.files[i].seq = CeilDiv(2 * fileSeq - 2 + i, 2)
      BY <1>3
    <3>2. 2 * fileSeq - 2 + i = 2 * fileSeq \/ 2 * fileSeq - 2 + i = 2 * fileSeq - 1
      BY <1>1, SMT
    <3>3. QED BY <1>1, <3>1, <3>2, Numbering
  <2>2. QED BY <2>1
<1>8. SidecarCoversBin
  BY <1>1 DEF SidecarCoversBin, Sound, Covered, Walks, EndOfRow
<1>9. QED BY <1>1, <1>4, <1>5, <1>6, <1>7, <1>8

\* Ring and live indices stay within their bounds.
THEOREM CaptureTypeCorrect == CaptureSpec => []CaptureTypeOK
BY CaptureInvariant, CapInvImplies, PTL

\* total_bytes_used_ never drifts from what the files hold.
THEOREM TotalCorrect == CaptureSpec => []TotalIsSum
BY CaptureInvariant, CapInvImplies, PTL

\* The store holds the most recently opened files without a gap, and the live indices
\* designate the open pair.
THEOREM RetentionCorrect == CaptureSpec => []NewestRetained
BY CaptureInvariant, CapInvImplies, PTL

\* Over budget, only the newest session's pair is left.
THEOREM BudgetCorrect == CaptureSpec => []BudgetHeld
BY CaptureInvariant, CapInvImplies, PTL

\* The rows of a .txt account for every byte of its .bin after the header.
THEOREM SidecarCorrect == CaptureSpec => []SidecarCoversBin
BY CaptureInvariant, CapInvImplies, PTL

\* With no drop counted, a session's .bin and the pending events are all that record()
\* accepted in it.
THEOREM CompletenessCorrect == CaptureSpec => []SessionComplete
BY CaptureInvariant, CapInvImplies, PTL

\* No step writes into, shortens or reorders a closed capture.
THEOREM AppendOnlyCorrect == CaptureSpec => FilesAppendOnly
<1>1. CapInv /\ [CaptureNext]_captureVars => [AppendOnly]_captureVars
  BY NextOK
<1>2. CaptureSpec => [][AppendOnly]_captureVars
  BY CaptureInvariant, <1>1, PTL DEF CaptureSpec
<1>3. QED BY <1>2 DEF FilesAppendOnly, AppendOnly

-----------------------------------------------------------------------------
(* No event is lost on the way to a file unless the mode records outside sessions *)

OutsideNothing == ~Live => evRing = <<>>

LEMMA OutsideNothingOK ==
  ASSUME Mode \in {"None", "BridgeOnly"}, CapInv, CapInv', OutsideNothing, [CaptureNext]_captureVars
  PROVE  OutsideNothing'
<1>1. CASE ~sessionActive /\ evRing = <<>> /\ OnSessionStart
  BY <1>1 DEF OnSessionStart, OutsideNothing
<1>2. CASE sessionActive /\ OnSessionEnd
  BY <1>2 DEF OnSessionEnd, OutsideNothing
<1>3. ASSUME NEW dir \in 0..1, NEW data \in Payloads, Record(dir, data) PROVE OutsideNothing'
  <2>1. CASE RecordResult
    <3>1. Live
      BY <2>1 DEF RecordResult, WouldRecord, Live, Opens
    <3>2. Live'
      BY <1>3, <3>1 DEF Record, Live, Opens
    <3>3. QED BY <3>2 DEF OutsideNothing
  <2>2. CASE ~RecordResult
    BY <1>3, <2>2 DEF Record, OutsideNothing, Live, Opens
  <2>3. QED BY <2>1, <2>2
<1>4. CASE CaptureLoop
  BY <1>4 DEF CaptureLoop, OutsideNothing
<1>5. CASE UNCHANGED captureVars
  BY <1>5 DEF captureVars, OutsideNothing, Live, Opens
<1>6. QED BY <1>1, <1>2, <1>3, <1>4, <1>5 DEF CaptureNext

LEMMA FlushDropsNothing ==
  ASSUME CapInv, OutsideNothing PROVE Flush(store, evRing).drops = store.drops
<1>1. CASE Live
  BY <1>1, FlushOK
<1>2. CASE ~Live
  <2>1. evRing = <<>> /\ store \in Stores /\ store.bin = 0 /\ evRing \in Seq(Events)
    BY <1>2 DEF OutsideNothing, CapInv, Sound, Shaped, RingOK
  <2>2. Flush(store, evRing) = store
    BY <2>1, FlushWhileClosed
  <2>3. QED BY <2>2
<1>3. QED BY <1>1, <1>2

LEMMA NextDropsNothing ==
  ASSUME CapInv, OutsideNothing, [CaptureNext]_captureVars, evRing' = <<>>
  PROVE  store'.drops = store.drops
<1> DEFINE to == Flush(store, evRing)
<1>1. /\ to.drops = store.drops /\ Sound(to, fileSeq, Live) /\ Live \in BOOLEAN
      /\ fileSeq \in Nat /\ store \in Stores /\ evRing \in Seq(Events) /\ Sound(store, fileSeq, Live)
  BY FlushDropsNothing, FlushOK DEF CapInv, Live, Opens, Sound, RingOK
<1> HIDE DEF to
<1>2. CASE ~sessionActive /\ evRing = <<>> /\ OnSessionStart
  <2>1. CASE Opens
    <3>1. store' = OpenNewCapture(store, fileSeq + 1)
      BY <1>2, <2>1 DEF OnSessionStart
    <3>2. Sound(store, fileSeq, FALSE)
      BY <1>1, <1>2 DEF Sound, Shaped, Live
    <3>3. QED BY <1>1, <3>1, <3>2, OpenNewCaptureOK
  <2>2. CASE ~Opens
    BY <1>2, <2>2 DEF OnSessionStart
  <2>3. QED BY <2>1, <2>2
<1>3. CASE sessionActive /\ OnSessionEnd
  <2>1. store' = CloseCurrent(to)
    BY <1>3 DEF OnSessionEnd, to
  <2>2. QED BY <1>1, <2>1, CloseOK
<1>4. ASSUME NEW dir \in 0..1, NEW data \in Payloads, Record(dir, data)
      PROVE  store'.drops = store.drops
  <2>1. CASE RecordResult
    <3> DEFINE ch == Chunks(dir, data)
               n == Len(evRing)
               q == Len(ch)
               room == RingEvents - n
               k == Min({room, q})
               piece == SubSeq(ch, 1, k)
    <3>1. /\ evRing' = evRing \o piece
          /\ store' = IF q > room THEN [store EXCEPT !.drops = @ + 1] ELSE store
      BY <1>4, <2>1 DEF Record
    <3>2. ch \in Seq(Events)
      BY CaptureConstantsOK, ChunksOK
    <3> HIDE DEF ch
    <3>3. n \in Nat /\ q \in Nat /\ \A i \in 1..q : ch[i] \in Events
      BY <1>1, <3>2, LenProperties, ElementOfSeq
    <3>4. k = IF room <= q THEN room ELSE q
      <4>1. room \in Int
        BY <3>3, CaptureConstantsOK, SMT
      <4>2. QED BY <3>3, <4>1, MinOfTwo
    <3>5. n <= RingEvents
      BY DEF CapInv, RingOK
    <3>6. k \in 0..q /\ (k = 0 /\ n = 0 => q = 0)
      <4> HIDE DEF n, q, k
      <4>1. QED BY <3>3, <3>4, <3>5, CaptureConstantsOK, SMT
    <3>7. ~(q > room) \/ k + n # 0
      <4> HIDE DEF n, q, k
      <4>1. QED BY <3>3, <3>4, <3>6, CaptureConstantsOK, SMT
    <3> HIDE DEF k
    <3>8. piece \in Seq(Events) /\ Len(piece) = k
      <4>1. 1 \in Int /\ k \in Int /\ (IF 1 <= k THEN k - 1 + 1 ELSE 0) = k /\ \A j \in 1..k : j \in 1..q
        <5> HIDE DEF q
        <5>1. QED BY <3>3, <3>6, SMT
      <4>2. QED BY <3>3, <4>1, SubSeqProperties
    <3> HIDE DEF piece
    <3>9. n + k = 0
      <4>1. Len(evRing \o piece) = n + k
        BY <1>1, <3>8, ConcatProperties
      <4>2. QED BY <3>1, <4>1, EmptySeq
    <3>10. ~(q > room)
      BY <3>3, <3>6, <3>7, <3>9, SMT
    <3>11. QED BY <3>1, <3>10
  <2>2. CASE ~RecordResult
    BY <1>4, <2>2 DEF Record
  <2>3. QED BY <2>1, <2>2
<1>5. CASE CaptureLoop
  BY <1>1, <1>5 DEF CaptureLoop, to
<1>6. CASE UNCHANGED captureVars
  BY <1>6 DEF captureVars
<1>7. QED BY <1>2, <1>3, <1>4, <1>5, <1>6 DEF CaptureNext

\* In the modes that record only while a session is active, an event in the ring always
\* reaches a file.  In the other two a run shows the flush dropping what was recorded
\* outside a session.
THEOREM FlushKeepsSessionEvents ==
  ASSUME Mode \in {"None", "BridgeOnly"}
  PROVE  CaptureSpec => FlushNeverDrops
<1>1. CaptureInit => OutsideNothing
  BY DEF CaptureInit, OutsideNothing
<1>2. CapInv /\ CapInv' /\ OutsideNothing /\ [CaptureNext]_captureVars => OutsideNothing'
  BY OutsideNothingOK
<1>3. CaptureSpec => []OutsideNothing
  BY CaptureInvariant, <1>1, <1>2, PTL DEF CaptureSpec
<1>4. CapInv /\ OutsideNothing /\ [CaptureNext]_captureVars
      => [evRing' = <<>> => store'.drops = store.drops]_captureVars
  BY NextDropsNothing
<1>5. CaptureSpec => [][evRing' = <<>> => store'.drops = store.drops]_captureVars
  BY CaptureInvariant, <1>3, <1>4, PTL DEF CaptureSpec
<1>6. QED BY <1>5 DEF FlushNeverDrops
=============================================================================
