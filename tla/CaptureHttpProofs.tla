------------------------- MODULE CaptureHttpProofs -------------------------
(***************************************************************************)
(* For every mode, budget and chunk size, and whatever names are asked for,  *)
(* a listing and a download tell the truth about the store although the main *)
(* loop appends to it between any two of their steps, as long as it neither  *)
(* opens nor evicts a capture.                                              *)
(*                                                                         *)
(* The argument: names are distinct (NamesDiffer), a file that only got      *)
(* longer is not smaller (LongerIsLarger), so a step that neither opens nor  *)
(* evicts leaves every name in its place and the size of every file it did   *)
(* not grow (QuietStep); HttpInv says what that leaves of a request.         *)
(*                                                                         *)
(* And when captures are opened and evicted, each file evicted hides at most *)
(* one other, as long as the array stays where it is.  Counted from the      *)
(* first file ever opened, an eviction moves the iterator forward by one and *)
(* nothing else moves: HideInv counts the files that it has passed unread.   *)
(***************************************************************************)
EXTENDS CaptureHttp, CaptureProofs, FiniteSetTheorems

-----------------------------------------------------------------------------
(* Files only get longer *)

LEMMA SumOfLonger ==
  ASSUME NEW s \in Seq(Nat), NEW t \in Seq(Nat), Begins(s, t)
  PROVE  SumOf(s) <= SumOf(t)
<1> DEFINE g == Partial(s)
           h == Partial(t)
           n == Len(s)
           m == Len(t)
<1>1. /\ n \in Nat /\ m \in Nat /\ n <= m
      /\ \A k \in 1..m : t[k] \in Nat
      /\ \A k \in 1..n : t[k] = s[k]
  BY LenProperties, ElementOfSeq DEF Begins
<1>2. /\ SumOf(s) = g[n] /\ g[0] = 0
      /\ \A k \in 1..n : g[k] = g[k-1] + s[k]
      /\ \A k \in 0..n : g[k] \in Nat
  BY PartialSums
<1>3. /\ SumOf(t) = h[m] /\ h[0] = 0
      /\ \A k \in 1..m : h[k] = h[k-1] + t[k]
      /\ \A k \in 0..m : h[k] \in Nat
  BY PartialSums
<1> HIDE DEF g, h, n, m
<1> DEFINE N == {k \in 0..m : IF k <= n THEN h[k] = g[k] ELSE g[n] <= h[k]}
<1>4. 0 \in N
  BY <1>1, <1>2, <1>3, SMT
<1>5. ASSUME NEW k \in 1..m, k - 1 \in N PROVE k \in N
  <2>1. /\ k \in 0..m /\ k - 1 \in 0..m /\ n \in 0..n
        /\ h[k] = h[k-1] + t[k] /\ h[k-1] \in Nat /\ t[k] \in Nat
    BY <1>1, <1>3, SMT
  <2>2. CASE k <= n
    <3>1. k \in 1..n /\ k - 1 <= n
      BY <1>1, <2>2, SMT
    <3>2. h[k-1] = g[k-1] /\ t[k] = s[k] /\ g[k] = g[k-1] + s[k]
      BY <1>1, <1>2, <1>5, <3>1
    <3>3. QED BY <2>1, <2>2, <3>2
  <2>3. CASE ~(k <= n)
    <3>1. k - 1 <= n => k - 1 = n
      BY <1>1, <2>3, SMT
    <3>2. g[n] \in Nat
      BY <1>2, <2>1
    <3>3. g[n] <= h[k-1]
      <4>1. CASE k - 1 <= n
        <5>1. h[k-1] = g[k-1] /\ k - 1 = n
          BY <1>5, <3>1, <4>1
        <5>2. h[k-1] = g[n]
          BY <5>1
        <5>3. QED BY <3>2, <5>2, SMT
      <4>2. CASE ~(k - 1 <= n)
        BY <1>5, <4>2
      <4>3. QED BY <4>1, <4>2
    <3>4. g[n] <= h[k]
      <4> DEFINE a == g[n]
                 b == h[k-1]
                 c == t[k]
      <4>1. a \in Nat /\ b \in Nat /\ c \in Nat /\ a <= b /\ h[k] = b + c
        BY <2>1, <3>2, <3>3
      <4> HIDE DEF a, b, c
      <4>2. a <= b + c
        BY <4>1, SMT
      <4>3. QED BY <4>1, <4>2 DEF a
    <3>5. QED BY <2>1, <2>3, <3>4
  <2>4. QED BY <2>2, <2>3
<1>6. \A k \in 0..m : k \in N
  <2> HIDE DEF N
  <2>1. QED BY <1>1, <1>4, <1>5, InductionUpTo
<1>7. m \in 0..m /\ (m <= n => m = n) /\ n \in 0..n
  BY <1>1, SMT
<1>8. g[n] \in Nat /\ (g[n] = h[m] \/ g[n] <= h[m])
  BY <1>2, <1>6, <1>7
<1>9. QED BY <1>2, <1>3, <1>8, SMT

LEMMA PrefixBegins ==
  ASSUME NEW S, NEW s \in Seq(S), NEW t \in Seq(S), IsPrefix(s, t)
  PROVE  Begins(s, t)
<1> DEFINE n == Len(s)
           x == SubSeq(s, 1, n)
           y == SubSeq(t, 1, n)
<1>1. n \in Nat /\ Len(t) \in Nat
  BY LenProperties
<1>2. n <= Len(t) /\ x = y
  BY DEF IsPrefix
<1>3. \A k \in 1..n : s[k] \in S /\ t[k] \in S
  <2>1. \A k \in 1..n : k \in 1 .. Len(t)
    BY <1>1, <1>2, SMT
  <2>2. QED BY <2>1, ElementOfSeq
<1>4. 1 \in Int /\ n \in Int /\ \A k \in 1..n : k \in 1 .. n - 1 + 1 /\ 1 + k - 1 = k
  BY <1>1, SMT
<1> HIDE DEF n
<1>5. \A k \in 1 .. n - 1 + 1 : x[k] = s[1 + k - 1]
  BY <1>3, <1>4, SubSeqProperties
<1>6. \A k \in 1 .. n - 1 + 1 : y[k] = t[1 + k - 1]
  BY <1>3, <1>4, SubSeqProperties
<1> HIDE DEF x, y
<1>7. \A k \in 1..n : t[k] = s[k]
  BY <1>2, <1>4, <1>5, <1>6
<1>8. QED BY <1>2, <1>7 DEF Begins, n

\* Appending to a file never makes it smaller.
LEMMA LongerIsLarger ==
  ASSUME NEW f \in Files, NEW g \in Files, f.text = g.text, IsPrefix(f.body, g.body)
  PROVE  FileBytes(f) <= FileBytes(g)
<1>1. CASE f \in Binaries
  <2>1. g \in Binaries
    BY <1>1 DEF Files, Binaries, Sidecars
  <2> DEFINE b == f.body
             c == g.body
  <2>2. /\ b \in Seq(Events) /\ c \in Seq(Events) /\ IsPrefix(b, c)
        /\ FileBytes(f) = kCaptureHeaderSize + SumOf(EventSizes(b))
        /\ FileBytes(g) = kCaptureHeaderSize + SumOf(EventSizes(c))
    BY <1>1, <2>1, FileBytesByKind
  <2> HIDE DEF b, c
  <2>3. Begins(EventSizes(b), EventSizes(c))
    <3>1. Begins(b, c)
      BY <2>2, PrefixBegins
    <3>2. ASSUME NEW d \in Seq(Events)
          PROVE  /\ Len(d) \in Nat /\ Len(EventSizes(d)) = Len(d)
                 /\ \A i \in 1 .. Len(d) : EventSizes(d)[i] = EventBytes(d[i])
      <4>1. Len(d) \in Nat /\ DOMAIN d = 1 .. Len(d)
        BY LenProperties
      <4>2. EventSizes(d) = [i \in 1 .. Len(d) |-> EventBytes(d[i])]
        BY <4>1 DEF EventSizes
      <4>3. EventSizes(d) \in Seq(Nat)
        BY EventSizesOK
      <4> HIDE DEF EventSizes
      <4>4. QED BY <4>1, <4>2, <4>3, LenProperties
    <3>3. /\ Len(b) <= Len(c) /\ \A i \in 1 .. Len(b) : i \in 1 .. Len(c) /\ c[i] = b[i]
      BY <2>2, <3>1, <3>2, SMT DEF Begins
    <3>4. /\ Len(EventSizes(b)) = Len(b) /\ Len(EventSizes(c)) = Len(c)
          /\ \A i \in 1 .. Len(b) : /\ EventSizes(b)[i] = EventBytes(b[i])
                                       /\ EventSizes(c)[i] = EventBytes(c[i])
      BY <2>2, <3>2, <3>3
    <3>5. QED BY <3>3, <3>4 DEF Begins
  <2>4. /\ EventSizes(b) \in Seq(Nat) /\ EventSizes(c) \in Seq(Nat)
    BY <2>2, EventSizesOK
  <2>5. /\ SumOf(EventSizes(b)) <= SumOf(EventSizes(c))
        /\ SumOf(EventSizes(b)) \in Nat /\ SumOf(EventSizes(c)) \in Nat
    BY <2>3, <2>4, SumOfLonger, SumIsNat
  <2>6. QED BY <2>2, <2>5, SMT DEF kCaptureHeaderSize
<1>2. CASE f \in Sidecars
  <2>1. g \in Sidecars
    BY <1>2 DEF Files, Binaries, Sidecars
  <2> DEFINE b == f.body
             c == g.body
  <2>2. /\ b \in Seq(Rows) /\ c \in Seq(Rows) /\ IsPrefix(b, c)
        /\ FileBytes(f) = BannerBytes + SumOf(RowSizes(b))
        /\ FileBytes(g) = BannerBytes + SumOf(RowSizes(c))
    BY <1>2, <2>1, FileBytesByKind
  <2> HIDE DEF b, c
  <2>3. Begins(RowSizes(b), RowSizes(c))
    <3>1. Begins(b, c)
      BY <2>2, PrefixBegins
    <3>2. ASSUME NEW d \in Seq(Rows)
          PROVE  /\ Len(d) \in Nat /\ Len(RowSizes(d)) = Len(d)
                 /\ \A i \in 1 .. Len(d) : RowSizes(d)[i] = HexdumpBytes(d[i].bytes)
      <4>1. Len(d) \in Nat /\ DOMAIN d = 1 .. Len(d)
        BY LenProperties
      <4>2. RowSizes(d) = [i \in 1 .. Len(d) |-> HexdumpBytes(d[i].bytes)]
        BY <4>1 DEF RowSizes
      <4>3. RowSizes(d) \in Seq(Nat)
        BY RowSizesOK
      <4> HIDE DEF RowSizes
      <4>4. QED BY <4>1, <4>2, <4>3, LenProperties
    <3>3. /\ Len(b) <= Len(c) /\ \A i \in 1 .. Len(b) : i \in 1 .. Len(c) /\ c[i] = b[i]
      BY <2>2, <3>1, <3>2, SMT DEF Begins
    <3>4. /\ Len(RowSizes(b)) = Len(b) /\ Len(RowSizes(c)) = Len(c)
          /\ \A i \in 1 .. Len(b) : /\ RowSizes(b)[i] = HexdumpBytes(b[i].bytes)
                                       /\ RowSizes(c)[i] = HexdumpBytes(c[i].bytes)
      BY <2>2, <3>2, <3>3
    <3>5. QED BY <3>3, <3>4 DEF Begins
  <2>4. /\ RowSizes(b) \in Seq(Nat) /\ RowSizes(c) \in Seq(Nat)
    BY <2>2, RowSizesOK
  <2>5. /\ SumOf(RowSizes(b)) <= SumOf(RowSizes(c))
        /\ SumOf(RowSizes(b)) \in Nat /\ SumOf(RowSizes(c)) \in Nat
    BY <2>3, <2>4, SumOfLonger, SumIsNat
  <2>6. QED BY <2>2, <2>5, CaptureConstantsOK, SMT
<1>3. QED BY <1>1, <1>2 DEF Files

-----------------------------------------------------------------------------
(* Names *)

\* A name designates one file only.
LEMMA NamesDiffer ==
  ASSUME NEW st, NEW top \in Nat, NEW live \in BOOLEAN, Sound(st, top, live),
         NEW i \in 1 .. Len(st.files), NEW j \in 1 .. Len(st.files),
         NameOf(st.files[i]) = NameOf(st.files[j])
  PROVE  i = j
<1> DEFINE f == st.files[i]
           g == st.files[j]
           n == Len(st.files)
           k == 2 * top - n + i
           l == 2 * top - n + j
<1>1. n \in Nat /\ n <= 2 * top /\ f \in Files /\ g \in Files
  BY StoreTypes DEF Sound, Shaped
<1>2. f.seq = g.seq /\ (f.text <=> g.text)
  <2>1. f.text \in BOOLEAN /\ g.text \in BOOLEAN
    BY <1>1 DEF Files, Binaries, Sidecars
  <2>2. /\ NameOf(f).seq = f.seq /\ NameOf(f).ext = IF f.text THEN "txt" ELSE "bin"
        /\ NameOf(g).seq = g.seq /\ NameOf(g).ext = IF g.text THEN "txt" ELSE "bin"
    BY DEF NameOf
  <2>3. QED BY <2>1, <2>2
<1>3. /\ f.seq = CeilDiv(k, 2) /\ (f.text <=> k % 2 = 0)
      /\ g.seq = CeilDiv(l, 2) /\ (g.text <=> l % 2 = 0)
  BY DEF Sound, Shaped
<1>4. i \in Nat /\ 1 <= i /\ j \in Nat /\ 1 <= j
  BY <1>1, SMT
<1> HIDE DEF f, g, n
<1>5. k \in Nat /\ l \in Nat
  BY <1>1, <1>4, SMT
<1>6. k = l
  <2> HIDE DEF k, l
  <2>1. QED BY <1>2, <1>3, <1>5, Numbering
<1>7. QED BY <1>1, <1>4, <1>6, SMT

LEMMA SizeOfName ==
  ASSUME NEW st, NEW top \in Nat, NEW live \in BOOLEAN, Sound(st, top, live),
         NEW i \in 1 .. Len(st.files)
  PROVE  SizeOf(st.files, NameOf(st.files[i])) = FileBytes(st.files[i])
<1> DEFINE at == {j \in DOMAIN st.files : NameOf(st.files[j]) = NameOf(st.files[i])}
<1>1. DOMAIN st.files = 1 .. Len(st.files) /\ Len(st.files) \in Nat
  BY StoreTypes DEF Sound
<1>2. at = {i}
  BY <1>1, NamesDiffer
<1>3. i \in Int
  BY <1>1, SMT
<1>4. Min({i}) = i
  BY <1>3, SMT DEF Min
<1> HIDE DEF at
<1>5. at # {} /\ Min(at) = i
  BY <1>2, <1>4
<1>6. QED BY <1>5 DEF SizeOf, at

LEMMA StoredNames ==
  ASSUME NEW st \in Stores
  PROVE  /\ Len(st.files) \in Nat
         /\ DOMAIN Stored(st.files) = 1 .. Len(st.files)
         /\ \A i \in 1 .. Len(st.files) : Stored(st.files)[i] = NameOf(st.files[i])
<1>1. Len(st.files) \in Nat /\ DOMAIN st.files = 1 .. Len(st.files)
  BY StoreTypes
<1>2. Stored(st.files) = [i \in 1 .. Len(st.files) |-> NameOf(st.files[i])]
  BY <1>1 DEF Stored
<1>3. QED BY <1>1, <1>2

LEMMA NameIsStored ==
  ASSUME NEW st \in Stores, NEW name
  PROVE  name \in Range(Stored(st.files)) <=>
           \E i \in 1 .. Len(st.files) : name = NameOf(st.files[i])
BY StoredNames DEF Range

\* Every stored name may be asked for.
LEMMA StoredIsSafe ==
  ASSUME NEW st \in Stores, NEW name \in Range(Stored(st.files))
  PROVE  IsSafe(name) /\ name # NoName
<1>1. PICK i \in 1 .. Len(st.files) : name = NameOf(st.files[i])
  BY NameIsStored
<1>2. name.ext \in {"txt", "bin"} /\ name.plain
  BY <1>1 DEF NameOf
<1>3. QED BY <1>2 DEF IsSafe, NoName

LEMMA SameNames ==
  ASSUME NEW st \in Stores, NEW to \in Stores, Stored(to.files) = Stored(st.files)
  PROVE  /\ Len(to.files) = Len(st.files)
         /\ \A i \in 1 .. Len(st.files) : NameOf(to.files[i]) = NameOf(st.files[i])
<1>1. Len(to.files) = Len(st.files)
  BY StoredNames, SameLength
<1>2. QED BY <1>1, StoredNames

-----------------------------------------------------------------------------
(* What the main loop's task may do to a store that it neither opens nor evicts in *)

LEMMA QuietStep ==
  ASSUME CapInv, CaptureNext, fileSeq' = fileSeq,
         Stored(store'.files) = Stored(store.files)
  PROVE  /\ Len(store'.files) = Len(store.files)
         /\ \A i \in 1 .. Len(store.files) :
              LET name == NameOf(store.files[i])
              IN  /\ NameOf(store'.files[i]) = name
                  /\ FileBytes(store.files[i]) <= FileBytes(store'.files[i])
                  /\ ~Grows(name) => FileBytes(store'.files[i]) = FileBytes(store.files[i])
                  /\ ~Gone(name)
<1>1. CapInv' /\ AppendOnly
  BY NextOK
<1>2. /\ Sound(store, fileSeq, Live) /\ store \in Stores /\ fileSeq \in Nat
      /\ Sound(store', fileSeq', Live') /\ store' \in Stores /\ fileSeq' \in Nat
      /\ Live \in BOOLEAN /\ Live' \in BOOLEAN
  BY <1>1 DEF CapInv, Sound, Live, Opens
<1>3. /\ Len(store'.files) = Len(store.files)
      /\ \A i \in 1 .. Len(store.files) : NameOf(store'.files[i]) = NameOf(store.files[i])
  BY <1>2, SameNames
<1>4. /\ DOMAIN store.files = 1 .. Len(store.files)
      /\ DOMAIN store'.files = 1 .. Len(store.files)
      /\ \A i \in 1 .. Len(store.files) : store.files[i] \in Files /\ store'.files[i] \in Files
  BY <1>2, <1>3, StoreTypes
<1>5. ASSUME NEW i \in 1 .. Len(store.files)
      PROVE  /\ FileBytes(store.files[i]) <= FileBytes(store'.files[i])
             /\ ~Grows(NameOf(store.files[i])) =>
                  FileBytes(store'.files[i]) = FileBytes(store.files[i])
             /\ ~Gone(NameOf(store.files[i]))
  <2> DEFINE old == store.files[i]
             new == store'.files[i]
             name == NameOf(old)
  <2>1. old \in Files /\ new \in Files /\ NameOf(new) = name
    BY <1>3, <1>4
  <2>2. old.seq = new.seq /\ old.text = new.text
    <3>1. old.text \in BOOLEAN /\ new.text \in BOOLEAN
      BY <2>1 DEF Files, Binaries, Sidecars
    <3>2. /\ NameOf(old).seq = old.seq /\ NameOf(old).ext = IF old.text THEN "txt" ELSE "bin"
          /\ NameOf(new).seq = new.seq /\ NameOf(new).ext = IF new.text THEN "txt" ELSE "bin"
      BY DEF NameOf
    <3> HIDE DEF old, new
    <3>3. QED BY <2>1, <3>1, <3>2
  <2>3. IsPrefix(old.body, new.body)
    BY <1>1, <1>4, <2>2 DEF AppendOnly
  <2>4. FileBytes(old) <= FileBytes(new) /\ FileBytes(old) \in Nat /\ FileBytes(new) \in Nat
    BY <2>1, <2>2, <2>3, LongerIsLarger, FileBytesByKind
  <2>5. SizeOf(store.files, name) = FileBytes(old) /\ SizeOf(store'.files, name) = FileBytes(new)
    <3>1. SizeOf(store.files, NameOf(old)) = FileBytes(old)
      BY <1>2, SizeOfName
    <3>2. i \in 1 .. Len(store'.files)
      BY <1>3
    <3>3. SizeOf(store'.files, NameOf(new)) = FileBytes(new)
      BY <1>2, <3>2, SizeOfName
    <3>4. QED BY <2>1, <3>1, <3>3
  <2>6. ~Grows(name) => FileBytes(new) = FileBytes(old)
    <3> DEFINE a == FileBytes(old)
               b == FileBytes(new)
    <3>1. a \in Nat /\ b \in Nat /\ a <= b /\ (Grows(name) <=> b > a)
      BY <2>4, <2>5 DEF Grows
    <3> HIDE DEF a, b
    <3>2. ~Grows(name) => b = a
      BY <3>1, SMT
    <3>3. QED BY <3>2 DEF a, b
  <2>7. ~Gone(name)
    BY <1>4, <2>1 DEF Gone
  <2>8. QED BY <2>4, <2>6, <2>7
<1>6. QED BY <1>3, <1>5

-----------------------------------------------------------------------------
(* Types *)

FileNames == Names \cup [seq : Nat, ext : {"bin", "txt", "none"}, plain : BOOLEAN]
Entries == [name : FileNames, size : Nat]

Replies ==
  [pc : {"off", "idle", "list", "find", "head", "body", "chunks", "reply", "crashed"},
   want : Names \cup {NoName}, at : Nat, end : Nat, lost : BOOLEAN,
   entries : Seq(Entries), length : Nat, src : FileNames, dead : BOOLEAN,
   left : Nat, sent : Nat, clean : BOOLEAN, status : Nat, broken : BOOLEAN,
   newest : Nat, calm : BOOLEAN, evicted : Nat, grown : SUBSET FileNames]

LEMMA HttpConstants == ChunkBytes \in Nat /\ Garbage \subseteq Nat
BY CaptureHttpAssumption

LEMMA NamesHaveTypes ==
  ASSUME CapInv
  PROVE  /\ store \in Stores /\ store.files \in Seq(Files)
         /\ DOMAIN store.files = 1 .. Len(store.files) /\ Len(store.files) \in Nat
         /\ \A i \in 1 .. Len(store.files) :
              NameOf(store.files[i]) \in FileNames /\ FileBytes(store.files[i]) \in Nat
         /\ Range(Stored(store.files)) \subseteq FileNames
<1>1. /\ store \in Stores /\ store.files \in Seq(Files)
      /\ DOMAIN store.files = 1 .. Len(store.files) /\ Len(store.files) \in Nat
      /\ \A i \in 1 .. Len(store.files) : store.files[i] \in Files
  BY StoreTypes DEF CapInv, Sound
<1>2. ASSUME NEW f \in Files PROVE NameOf(f) \in FileNames /\ FileBytes(f) \in Nat
  <2>1. f.seq \in Nat /\ f.text \in BOOLEAN
    BY DEF Files, Binaries, Sidecars
  <2>2. NameOf(f) \in FileNames
    BY <2>1 DEF NameOf, FileNames
  <2>3. QED BY <2>2, FileBytesByKind
<1>4. Range(Stored(store.files)) \subseteq FileNames
  <2> SUFFICES ASSUME NEW name \in Range(Stored(store.files)) PROVE name \in FileNames
    OBVIOUS
  <2>1. PICK i \in 1 .. Len(store.files) : name = NameOf(store.files[i])
    BY <1>1, NameIsStored
  <2>2. QED BY <1>1, <1>2, <2>1
<1>5. QED BY <1>1, <1>2, <1>4

LEMMA HereHasTypes ==
  ASSUME CapInv, http \in Replies
  PROVE  NamesHere \subseteq FileNames /\ SizesHere \subseteq Nat /\ fileSeq \in Nat
<1>1. /\ DOMAIN store.files = 1 .. Len(store.files)
      /\ \A i \in 1 .. Len(store.files) :
           NameOf(store.files[i]) \in FileNames /\ FileBytes(store.files[i]) \in Nat
  BY NamesHaveTypes
<1>2. NoName \in FileNames /\ http.want \in FileNames
  <2>1. NoName \in FileNames
    BY DEF NoName, FileNames
  <2>2. http.want \in Names \cup {NoName}
    BY DEF Replies
  <2>3. Names \subseteq FileNames
    BY DEF FileNames
  <2>4. QED BY <2>1, <2>2, <2>3
<1>3. NamesHere \subseteq FileNames
  BY <1>1, <1>2 DEF NamesHere, InPlace
<1>4. SizesHere \subseteq Nat
  BY <1>1, HttpConstants DEF SizesHere, InPlace
<1>5. QED BY <1>3, <1>4 DEF CapInv, Sound

LEMMA StoredInCapInv ==
  ASSUME CapInv
  PROVE  \A i \in 1 .. Len(store.files) :
           /\ NameOf(store.files[i]) \in Range(Stored(store.files))
           /\ IsSafe(NameOf(store.files[i]))
<1>1. store \in Stores
  BY NamesHaveTypes
<1>2. \A i \in 1 .. Len(store.files) : NameOf(store.files[i]) \in Range(Stored(store.files))
  BY <1>1, NameIsStored
<1>3. QED BY <1>1, <1>2, StoredIsSafe

\* What a step evicts can be counted.
LEMMA FewGone ==
  ASSUME CapInv
  PROVE  LET gone == {n \in Range(Stored(store.files)) : Gone(n)}
         IN  IsFiniteSet(gone) /\ Cardinality(gone) \in Nat
<1> DEFINE m == Len(store.files)
           f == Stored(store.files)
<1>1. m \in Nat /\ f = [i \in 1..m |-> f[i]] /\ DOMAIN f = 1..m
  BY NamesHaveTypes, StoredNames DEF Stored
<1> HIDE DEF m, f
<1>2. IsFiniteSet(1..m)
  BY <1>1, FS_Interval, SMT
<1>3. f \in Surjection(1..m, Range(f))
  BY <1>1 DEF Surjection, Range
<1>4. IsFiniteSet(Range(f))
  BY <1>2, <1>3, FS_Surjection
<1>5. IsFiniteSet({n \in Range(f) : Gone(n)})
  BY <1>4, FS_Subset
<1>6. QED BY <1>5, FS_CardinalityType DEF f

LEMMA WaitingOK == \A pc \in {"off", "idle", "reply"} : Waiting(pc) \in Replies
<1>1. NoName \in FileNames /\ NoName \in Names \cup {NoName}
  BY DEF NoName, FileNames
<1>2. <<>> \in Seq(Entries) /\ {} \in SUBSET FileNames /\ 0 \in Nat /\ 1 \in Nat
  BY EmptySeq
<1>3. QED BY <1>1, <1>2 DEF Waiting, Replies

LEMMA TypeStep ==
  ASSUME CapInv, http \in Replies, [HttpNext]_httpVars
  PROVE  http' \in Replies
<1>1. CASE UNCHANGED httpVars
  BY <1>1 DEF httpVars
<1>2. CASE Register
  BY <1>2, WaitingOK DEF Register
<1>3. ASSUME NEW r \in Requests, Request(r) PROVE http' \in Replies
  <2>1. r.name \in Names \cup {NoName}
    BY DEF Requests
  <2>2. Len(store.files) \in Nat
    BY NamesHaveTypes
  <2>3. fileSeq \in Nat
    BY HereHasTypes
  <2> DEFINE w == Waiting("reply")
             pc == IF r.path = "prefix" THEN "reply"
                   ELSE IF r.name = NoName THEN "list"
                   ELSE IF IsSafe(r.name) THEN "find" ELSE "reply"
             status == IF r.path = "prefix" THEN 302
                       ELSE IF r.name # NoName /\ ~IsSafe(r.name) THEN 404 ELSE 0
  <2>4. w \in Replies /\ pc \in {"reply", "list", "find"} /\ status \in Nat
    BY WaitingOK
  <2>5. http' = [w EXCEPT !.want = r.name, !.end = Len(store.files), !.newest = fileSeq,
                          !.pc = pc, !.status = status]
    BY <1>3 DEF Request, Slots
  <2> HIDE DEF w, pc, status
  <2>6. QED BY <2>1, <2>2, <2>3, <2>4, <2>5 DEF Replies
<1>4. CASE ListNext
  <2>1. PICK name \in NamesHere, size \in SizesHere :
          http' = [http EXCEPT !.entries = Append(@, [name |-> name, size |-> size]),
                               !.at = @ + 1]
    BY <1>4 DEF ListNext
  <2>2. [name |-> name, size |-> size] \in Entries
    BY HereHasTypes DEF Entries
  <2>3. /\ Append(http.entries, [name |-> name, size |-> size]) \in Seq(Entries)
        /\ http.at + 1 \in Nat
    <3> DEFINE x == [name |-> name, size |-> size]
               b == http.entries
    <3>1. b \in Seq(Entries) /\ x \in Entries /\ http.at \in Nat
      BY <2>2 DEF Replies
    <3> HIDE DEF x, b
    <3>2. Append(b, x) \in Seq(Entries)
      BY <3>1, AppendProperties
    <3>3. http.at + 1 \in Nat
      BY <3>1, SMT
    <3>4. QED BY <3>2, <3>3 DEF x, b
  <2>4. QED BY <2>1, <2>3 DEF Replies
<1>5. CASE ListDone \/ FindNothing
  <2>1. PICK y \in {200, 404} : http' = [http EXCEPT !.pc = "reply", !.status = y]
    BY <1>5 DEF ListDone, FindNothing
  <2> DEFINE x == "reply"
  <2>2. /\ x \in {"off", "idle", "list", "find", "head", "body", "chunks", "reply", "crashed"}
        /\ y \in Nat
    BY SMT
  <2>3. http' = [http EXCEPT !.pc = x, !.status = y]
    BY <2>1
  <2> HIDE DEF x
  <2>4. QED BY <2>2, <2>3, ZenonT(30) DEF Replies
<1>6. CASE FindNext
  <2>1. \/ http' = [http EXCEPT !.pc = "head"]
        \/ http' = [http EXCEPT !.at = @ + 1]
    BY <1>6 DEF FindNext
  <2>2. CASE http' = [http EXCEPT !.pc = "head"]
    BY <2>2, ZenonT(30) DEF Replies
  <2>3. CASE http' = [http EXCEPT !.at = @ + 1]
    <3> DEFINE k == http.at + 1
    <3>1. k \in Nat
      BY SMT DEF Replies
    <3>2. http' = [http EXCEPT !.at = k]
      BY <2>3
    <3> HIDE DEF k
    <3>3. QED BY <3>1, <3>2, ZenonT(30) DEF Replies
  <2>4. QED BY <2>1, <2>2, <2>3
<1>7. CASE SendHeaders
  <2>1. PICK size \in SizesHere :
          http' = [http EXCEPT !.pc = "body", !.status = 200, !.length = size]
    BY <1>7 DEF SendHeaders
  <2> DEFINE x == "body"
             y == 200
             z == size
  <2>2. /\ x \in {"off", "idle", "list", "find", "head", "body", "chunks", "reply", "crashed"}
        /\ y \in Nat /\ z \in Nat
    BY HereHasTypes, SMT
  <2>3. http' = [http EXCEPT !.pc = x, !.status = y, !.length = z]
    BY <2>1
  <2> HIDE DEF x, y, z
  <2>4. QED BY <2>2, <2>3 DEF Replies
<1>8. CASE StartBody
  <2> DEFINE here == IF InPlace THEN NameOf(store.files[http.at]) ELSE NoName
  <2>1. PICK size \in SizesHere :
          http' = [http EXCEPT !.pc = "chunks", !.dead = ~InPlace, !.left = size, !.src = here]
    BY <1>8 DEF StartBody
  <2> DEFINE x == "chunks"
             n == here
             d == ~InPlace
             y == size
  <2>2. /\ x \in {"off", "idle", "list", "find", "head", "body", "chunks", "reply", "crashed"}
        /\ n \in FileNames /\ d \in BOOLEAN /\ y \in Nat
    <3>1. NoName \in FileNames
      BY DEF NoName, FileNames
    <3>2. n \in FileNames
      BY <3>1, NamesHaveTypes DEF InPlace
    <3>3. QED BY <3>2, HereHasTypes
  <2>3. http' = [http EXCEPT !.pc = x, !.dead = d, !.left = y, !.src = n]
    BY <2>1
  <2> HIDE DEF x, n, d, y
  <2>4. QED BY <2>2, <2>3 DEF Replies
<1>9. CASE SendChunk
  <2> DEFINE n == Min({http.left, ChunkBytes})
  <2>1. /\ http.left \in Nat /\ http.sent \in Nat /\ ChunkBytes \in Nat
        /\ http.clean \in BOOLEAN /\ http.dead \in BOOLEAN
    BY HttpConstants DEF Replies
  <2>2. n = IF http.left <= ChunkBytes THEN http.left ELSE ChunkBytes
    BY <2>1, MinOfTwo, SMT
  <2>3. http' = [http EXCEPT !.left = @ - n, !.sent = @ + n, !.clean = @ /\ ~http.dead]
    BY <1>9 DEF SendChunk
  <2> HIDE DEF n
  <2>4. http.left - n \in Nat /\ http.sent + n \in Nat /\ (http.clean /\ ~http.dead) \in BOOLEAN
    BY <2>1, <2>2, SMT
  <2>5. QED BY <2>3, <2>4 DEF Replies
<1>10. CASE ChunkFails
  BY <1>10, ZenonT(30) DEF ChunkFails, Replies
<1>11. CASE BodySent \/ DeadRead
  <2>1. PICK x \in {"reply", "crashed"} : http' = [http EXCEPT !.pc = x]
    BY <1>11 DEF BodySent, DeadRead
  <2>2. QED BY <2>1, ZenonT(30) DEF Replies
<1>12. CASE Finish
  BY <1>12, WaitingOK DEF Finish
<1>13. CASE MainTask
  <2>1. CASE http.pc \in {"off", "idle"}
    BY <1>13, <2>1 DEF MainTask
  <2>2. CASE http.pc \notin {"off", "idle"}
    <3>1. PICK arrayMoves \in {FALSE, fileSeq' # fileSeq}, bytesMove \in {FALSE, Grows(http.src)} :
            http' = [http EXCEPT
                       !.lost = @ \/ arrayMoves,
                       !.dead = @ \/ bytesMove \/ (http.src # NoName /\ Gone(http.src)),
                       !.calm = /\ @ /\ fileSeq' = fileSeq
                                /\ Stored(store'.files) = Stored(store.files),
                       !.evicted = @ + Cardinality({n \in Range(Stored(store.files)) : Gone(n)}),
                       !.grown = @ \cup {n \in Range(Stored(store.files)) : Grows(n)}]
      BY <1>13, <2>2 DEF MainTask
    <3> DEFINE l == http.lost \/ arrayMoves
               d == http.dead \/ bytesMove \/ (http.src # NoName /\ Gone(http.src))
               c == /\ http.calm /\ fileSeq' = fileSeq
                    /\ Stored(store'.files) = Stored(store.files)
               e == http.evicted + Cardinality({n \in Range(Stored(store.files)) : Gone(n)})
               g == http.grown \cup {n \in Range(Stored(store.files)) : Grows(n)}
    <3>2. l \in BOOLEAN /\ d \in BOOLEAN /\ c \in BOOLEAN
      OBVIOUS
    <3>3. g \in SUBSET FileNames
      BY NamesHaveTypes DEF Replies
    <3>4. e \in Nat
      <4> DEFINE a == http.evicted
                 b == Cardinality({n \in Range(Stored(store.files)) : Gone(n)})
      <4>1. a \in Nat /\ b \in Nat
        BY FewGone DEF Replies
      <4> HIDE DEF a, b
      <4>2. a + b \in Nat
        BY <4>1, SMT
      <4>3. QED BY <4>2 DEF a, b
    <3>5. http' = [http EXCEPT !.lost = l, !.dead = d, !.calm = c, !.evicted = e, !.grown = g]
      BY <3>1
    <3> HIDE DEF l, d, c, e, g
    <3>6. QED BY <3>2, <3>3, <3>4, <3>5, ZenonT(30) DEF Replies
  <2>3. QED BY <2>1, <2>2
<1>14. CASE Down
  BY <1>1, <1>14 DEF Down
<1>15. QED
  BY <1>1, <1>2, <1>3, <1>4, <1>5, <1>6, <1>7, <1>8, <1>9, <1>10, <1>11, <1>12,
     <1>13, <1>14
  DEF HttpNext, Answer

-----------------------------------------------------------------------------
(* The inductive invariant of a request in calm *)

\* The first n rows of the page are the first n files.
Listed(n) ==
  /\ Len(http.entries) = n
  /\ \A i \in 1..n :
       LET name == NameOf(store.files[i])
       IN  /\ http.entries[i].name = name
           /\ name \notin http.grown => http.entries[i].size = FileBytes(store.files[i])

\* None of the first n files is the one asked for.
Skipped(n) == \A i \in 1..n : NameOf(store.files[i]) # http.want

Found == http.at \in 1 .. http.end /\ NameOf(store.files[http.at]) = http.want
SizeHere == FileBytes(store.files[http.at])
Steady == http.want \notin http.grown

Placed == ~http.lost /\ http.end = Len(store.files)

Listing ==
  http.pc = "list" => /\ http.want = NoName
                      /\ http.at \in 1 .. http.end + 1 /\ Listed(http.at - 1)

Searching ==
  http.pc = "find" => /\ http.want # NoName
                      /\ http.at \in 1 .. http.end + 1 /\ Skipped(http.at - 1)

\* Nothing was sent before the body begins.
Fresh == http.pc \in {"find", "head", "body"} => http.clean /\ http.sent = 0

Announced ==
  http.status = 200 /\ http.length <= SizeHere /\ (Steady => http.length = SizeHere)

Sending ==
  /\ http.pc \in {"head", "body", "chunks"} => http.want # NoName /\ Found
  /\ http.pc \in {"body", "chunks"} => Announced
  /\ http.pc = "chunks" =>
       /\ http.src = http.want
       /\ http.length <= http.left + http.sent /\ http.left + http.sent <= SizeHere
       /\ Steady => ~http.dead /\ http.clean

Replied ==
  http.pc = "reply" =>
    /\ http.status = 200 /\ http.want = NoName => Listed(http.end)
    /\ http.status = 404 /\ http.want # NoName => Skipped(http.end)
    /\ http.status = 200 /\ http.want # NoName =>
         /\ Found /\ http.src = http.want
         /\ http.length <= SizeHere /\ http.sent <= SizeHere
         /\ ~http.broken => http.length <= http.sent
         /\ Steady => http.clean /\ http.length = SizeHere

Unharmed == http.pc = "crashed" => ~Steady

AnswerOK == Placed /\ Listing /\ Searching /\ Fresh /\ Sending /\ Replied /\ Unharmed

\* CalmListing and CalmDownload only speak of the reply.  That it is right needs, on
\* the way, that every row read and every file passed over was the one now in that
\* place, and that what is still to send and what was sent make up the length announced.
HttpInv == http.calm /\ http.pc \notin {"off", "idle"} => AnswerOK

LEMMA InPlaceInCalm ==
  ASSUME CapInv, http \in Replies, Placed, http.at \in 1 .. http.end
  PROVE  /\ NamesHere = {NameOf(store.files[http.at])} /\ SizesHere = {SizeHere} /\ InPlace
         /\ SizeHere \in Nat
BY NamesHaveTypes DEF Placed, InPlace, NamesHere, SizesHere, SizeHere

LEMMA RequestOK ==
  ASSUME CapInv, NEW r \in Requests, Request(r) PROVE HttpInv'
<1> DEFINE n == Len(store.files)
           pc == IF r.path = "prefix" THEN "reply"
                 ELSE IF r.name = NoName THEN "list"
                 ELSE IF IsSafe(r.name) THEN "find" ELSE "reply"
           status == IF r.path = "prefix" THEN 302
                     ELSE IF r.name # NoName /\ ~IsSafe(r.name) THEN 404 ELSE 0
<1>1. /\ http'.pc = pc /\ http'.status = status /\ http'.want = r.name /\ http'.end = n
      /\ http'.pc # "crashed" /\ http'.at = 1 /\ ~http'.lost /\ http'.entries = <<>> /\ http'.clean /\ http'.sent = 0
  BY DEF Request, Waiting, Slots
<1>2. store' = store /\ n \in Nat
  BY NamesHaveTypes DEF Request, captureVars
<1>3. 1 \in 1 .. n + 1 /\ 1 - 1 = 0 /\ Len(<<>>) = 0 /\ \A i \in 1..0 : FALSE
  <2> HIDE DEF n
  <2>1. 1 \in 1 .. n + 1 /\ 1 - 1 = 0 /\ \A i \in 1..0 : FALSE
    BY <1>2, SMT
  <2>2. QED BY <2>1, EmptySeq
<1>4. Placed'
  BY <1>1, <1>2 DEF Placed
<1>5. Listing'
  BY <1>1, <1>3 DEF Listing, Listed
<1>6. Searching'
  BY <1>1, <1>3 DEF Searching, Skipped
<1>7. Sending'
  BY <1>1 DEF Sending
<1>8. Replied'
  <2>0. status # 200
    BY SMT
  <2> SUFFICES ASSUME http'.want # NoName, http'.status = 404
               PROVE  Skipped(http.end)'
    BY <1>1, <2>0 DEF Replied
  <2>1. ~IsSafe(http'.want)
    BY <1>1, SMT
  <2>2. ASSUME NEW i \in 1..n PROVE NameOf(store.files[i]) # http'.want
    <3>1. IsSafe(NameOf(store.files[i]))
      BY StoredInCapInv
    <3>2. QED BY <2>1, <3>1
  <2>3. QED BY <1>1, <1>2, <2>2 DEF Skipped
<1>9. QED BY <1>1, <1>4, <1>5, <1>6, <1>7, <1>8 DEF HttpInv, AnswerOK, Fresh, Unharmed

LEMMA ListNextOK ==
  ASSUME CapInv, http \in Replies, HttpInv, ListNext PROVE HttpInv'
<1>1. PICK name \in NamesHere, size \in SizesHere :
        http' = [http EXCEPT !.entries = Append(@, [name |-> name, size |-> size]),
                             !.at = @ + 1]
  BY DEF ListNext
<1> DEFINE x == [name |-> name, size |-> size]
           b == http.entries
<1>2. /\ http.pc = "list" /\ store' = store
      /\ http'.pc = "list" /\ http'.want = http.want /\ http'.end = http.end
      /\ http'.lost = http.lost /\ http'.calm = http.calm /\ http'.grown = http.grown
      /\ http'.at = http.at + 1 /\ http'.entries = Append(b, x)
  BY <1>1 DEF ListNext, captureVars, Replies
<1> SUFFICES ASSUME http.calm PROVE AnswerOK'
  BY <1>2 DEF HttpInv
<1>3. /\ Placed /\ http.want = NoName
      /\ http.at \in 1 .. http.end + 1 /\ Listed(http.at - 1) /\ http.at <= http.end
  BY <1>2 DEF HttpInv, AnswerOK, Listing, ListNext
<1>4. /\ http.at \in Nat /\ http.end \in Nat /\ b \in Seq(Entries)
  BY DEF Replies
<1>5. /\ http.at \in 1 .. http.end /\ http.at + 1 \in 1 .. http.end + 1
      /\ (http.at + 1) - 1 = http.at /\ (http.at - 1) + 1 = http.at
      /\ \A i \in 1 .. http.at : i \in 1 .. http.at - 1 \/ i = http.at
  BY <1>3, <1>4, SMT
<1>6. name = NameOf(store.files[http.at]) /\ size = SizeHere /\ size \in Nat
  BY <1>3, <1>5, InPlaceInCalm
<1>7. x \in Entries /\ x.name = name /\ x.size = size
  BY <1>6, HereHasTypes DEF Entries
<1>8. Len(b) = http.at - 1
  BY <1>3 DEF Listed
<1> HIDE DEF x, b
<1>9. /\ Len(Append(b, x)) = http.at
      /\ \A i \in 1 .. http.at - 1 : Append(b, x)[i] = b[i]
      /\ Append(b, x)[http.at] = x
  BY <1>4, <1>5, <1>7, <1>8, AppendProperties
<1>10. PICK k : k = http.at
  OBVIOUS
<1>11. Listed(k)'
  <2>1. ASSUME NEW i \in 1..k
        PROVE  /\ Append(b, x)[i].name = NameOf(store.files[i])
               /\ NameOf(store.files[i]) \notin http.grown =>
                    Append(b, x)[i].size = FileBytes(store.files[i])
    <3>1. CASE i = http.at
      BY <1>6, <1>7, <1>9, <3>1 DEF SizeHere
    <3>2. CASE i \in 1 .. http.at - 1
      BY <1>3, <1>9, <3>2 DEF Listed, b
    <3>3. QED BY <1>5, <1>10, <3>1, <3>2
  <2>2. QED BY <1>2, <1>9, <1>10, <2>1 DEF Listed
<1>12. Placed' /\ Listing'
  <2>1. http'.at - 1 = k
    BY <1>2, <1>5, <1>10
  <2>2. QED BY <1>2, <1>3, <1>5, <1>11, <2>1 DEF Placed, Listing
<1>13. QED BY <1>2, <1>12 DEF AnswerOK, Unharmed, Searching, Fresh, Sending, Replied

LEMMA ListDoneOK ==
  ASSUME CapInv, http \in Replies, HttpInv, ListDone PROVE HttpInv'
<1>1. /\ http.pc = "list" /\ store' = store
      /\ http'.pc = "reply" /\ http'.want = http.want /\ http'.end = http.end
      /\ http'.lost = http.lost /\ http'.calm = http.calm /\ http'.grown = http.grown
      /\ http'.entries = http.entries /\ http'.status = 200
  BY DEF ListDone, captureVars, Replies
<1> SUFFICES ASSUME http.calm PROVE AnswerOK'
  BY <1>1 DEF HttpInv
<1>2. /\ Placed /\ http.want = NoName
      /\ http.at \in 1 .. http.end + 1 /\ Listed(http.at - 1) /\ http.at > http.end
  BY <1>1 DEF HttpInv, AnswerOK, Listing, ListDone
<1>3. http.at - 1 = http.end
  BY <1>2, SMT DEF Replies
<1>4. Placed' /\ Replied'
  BY <1>1, <1>2, <1>3, SMT DEF Placed, Replied, Listed
<1>5. QED BY <1>1, <1>4 DEF AnswerOK, Unharmed, Listing, Searching, Fresh, Sending

LEMMA FindNextOK ==
  ASSUME CapInv, http \in Replies, HttpInv, FindNext PROVE HttpInv'
<1>1. http.pc = "find" /\ http.at <= http.end /\ store' = store
  BY DEF FindNext, captureVars
<1>2. /\ http'.calm = http.calm
      /\ \E name \in NamesHere :
           http' = IF name = http.want THEN [http EXCEPT !.pc = "head"]
                                       ELSE [http EXCEPT !.at = @ + 1]
  BY DEF FindNext, Replies
<1> SUFFICES ASSUME http.calm PROVE AnswerOK'
  BY <1>2 DEF HttpInv
<1>3. /\ Placed /\ http.want # NoName
      /\ http.at \in 1 .. http.end + 1 /\ Skipped(http.at - 1)
      /\ http.clean /\ http.sent = 0
  BY <1>1 DEF HttpInv, AnswerOK, Searching, Fresh
<1>4. /\ http.at \in 1 .. http.end /\ http.at + 1 \in 1 .. http.end + 1
      /\ (http.at + 1) - 1 = http.at
      /\ \A i \in 1 .. http.at : i \in 1 .. http.at - 1 \/ i = http.at
  BY <1>1, <1>3, SMTT(30) DEF Replies
<1> DEFINE name == NameOf(store.files[http.at])
<1>5. http' = IF name = http.want THEN [http EXCEPT !.pc = "head"]
                                  ELSE [http EXCEPT !.at = @ + 1]
  <2>1. NamesHere = {name}
    BY <1>3, <1>4, InPlaceInCalm
  <2>2. QED BY <1>2, <2>1
<1>6. CASE name = http.want
  <2>1. /\ http'.pc = "head" /\ http'.want = http.want /\ http'.end = http.end
        /\ http'.lost = http.lost /\ http'.clean = http.clean
        /\ http'.sent = http.sent /\ http'.at = http.at
    BY <1>5, <1>6 DEF Replies
  <2>2. Placed' /\ Sending'
    BY <1>1, <1>3, <1>4, <1>6, <2>1 DEF Placed, Sending, Found
  <2>3. QED BY <1>3, <2>1, <2>2 DEF AnswerOK, Unharmed, Listing, Searching, Fresh, Replied
<1>7. CASE name # http.want
  <2>1. /\ http'.pc = "find" /\ http'.want = http.want /\ http'.end = http.end
        /\ http'.lost = http.lost /\ http'.clean = http.clean
        /\ http'.sent = http.sent /\ http'.at = http.at + 1
    BY <1>1, <1>5, <1>7 DEF Replies
  <2>2. \A i \in 1 .. http.at : NameOf(store.files[i]) # http.want
    BY <1>3, <1>4, <1>7 DEF Skipped
  <2>3. http'.at - 1 = http.at
    BY <1>4, <2>1
  <2>4. Placed' /\ Searching'
    BY <1>1, <1>3, <1>4, <2>1, <2>2, <2>3 DEF Placed, Searching, Skipped
  <2>5. QED BY <1>3, <2>1, <2>4 DEF AnswerOK, Unharmed, Listing, Fresh, Sending, Replied
<1>8. QED BY <1>6, <1>7

LEMMA FindNothingOK ==
  ASSUME CapInv, http \in Replies, HttpInv, FindNothing PROVE HttpInv'
<1>1. /\ http.pc = "find" /\ store' = store
      /\ http'.pc = "reply" /\ http'.want = http.want /\ http'.end = http.end
      /\ http'.lost = http.lost /\ http'.calm = http.calm /\ http'.status = 404
  BY DEF FindNothing, captureVars, Replies
<1> SUFFICES ASSUME http.calm PROVE AnswerOK'
  BY <1>1 DEF HttpInv
<1>2. /\ Placed /\ http.want # NoName
      /\ http.at \in 1 .. http.end + 1 /\ Skipped(http.at - 1) /\ http.at > http.end
  BY <1>1 DEF HttpInv, AnswerOK, Searching, FindNothing
<1>3. http.at - 1 = http.end
  BY <1>2, SMT DEF Replies
<1>4. Placed' /\ Replied'
  BY <1>1, <1>2, <1>3, SMT DEF Placed, Replied, Skipped
<1>5. QED BY <1>1, <1>4 DEF AnswerOK, Unharmed, Listing, Searching, Fresh, Sending

LEMMA SendHeadersOK ==
  ASSUME CapInv, http \in Replies, HttpInv, SendHeaders PROVE HttpInv'
<1>1. PICK size \in SizesHere :
        http' = [http EXCEPT !.pc = "body", !.status = 200, !.length = size]
  BY DEF SendHeaders
<1>2. /\ http.pc = "head" /\ store' = store
      /\ http'.pc = "body" /\ http'.want = http.want /\ http'.end = http.end
      /\ http'.lost = http.lost /\ http'.calm = http.calm /\ http'.at = http.at
      /\ http'.status = 200 /\ http'.length = size
      /\ http'.clean = http.clean /\ http'.sent = http.sent
  BY <1>1 DEF SendHeaders, captureVars, Replies
<1> SUFFICES ASSUME http.calm PROVE AnswerOK'
  BY <1>2 DEF HttpInv
<1>3. Placed /\ http.want # NoName /\ Found /\ http.clean /\ http.sent = 0
  BY <1>2 DEF HttpInv, AnswerOK, Sending, Fresh
<1>4. size = SizeHere /\ SizeHere \in Nat
  BY <1>3, InPlaceInCalm DEF Found
<1>5. Placed' /\ Found' /\ Announced'
  <2>1. SizeHere' = SizeHere
    BY <1>2 DEF SizeHere
  <2>2. size <= SizeHere
    BY <1>4, SMT
  <2>3. QED BY <1>2, <1>3, <1>4, <2>1, <2>2 DEF Placed, Found, Announced
<1>6. QED BY <1>2, <1>3, <1>5 DEF AnswerOK, Unharmed, Listing, Searching, Fresh, Sending, Replied

LEMMA StartBodyOK ==
  ASSUME CapInv, http \in Replies, HttpInv, StartBody PROVE HttpInv'
<1> DEFINE here == IF InPlace THEN NameOf(store.files[http.at]) ELSE NoName
<1>1. PICK size \in SizesHere :
        http' = [http EXCEPT !.pc = "chunks", !.dead = ~InPlace, !.left = size, !.src = here]
  BY DEF StartBody
<1>2. /\ http.pc = "body" /\ store' = store
      /\ http'.pc = "chunks" /\ http'.want = http.want /\ http'.end = http.end
      /\ http'.lost = http.lost /\ http'.calm = http.calm /\ http'.at = http.at
      /\ http'.grown = http.grown /\ http'.status = http.status
      /\ http'.length = http.length /\ http'.src = here /\ http'.dead = ~InPlace
      /\ http'.left = size /\ http'.sent = http.sent /\ http'.clean = http.clean
  BY <1>1 DEF StartBody, captureVars, Replies
<1> SUFFICES ASSUME http.calm PROVE AnswerOK'
  BY <1>2 DEF HttpInv
<1>3. Placed /\ http.want # NoName /\ Found /\ Announced /\ http.clean /\ http.sent = 0
  BY <1>2 DEF HttpInv, AnswerOK, Sending, Fresh
<1>4. here = http.want /\ size = SizeHere /\ InPlace /\ SizeHere \in Nat
  BY <1>3, InPlaceInCalm DEF Found
<1>5. /\ http'.length <= http'.left + http'.sent /\ http'.left + http'.sent <= SizeHere'
      /\ SizeHere' = SizeHere
  <2>1. http'.left + http'.sent = SizeHere /\ SizeHere <= SizeHere
    BY <1>2, <1>3, <1>4, SMT
  <2>2. SizeHere' = SizeHere
    BY <1>2 DEF SizeHere
  <2>3. QED BY <1>2, <1>3, <2>1, <2>2 DEF Announced
<1>6. Placed' /\ Found' /\ Announced'
  BY <1>2, <1>3, <1>5 DEF Placed, Found, Announced, Steady
<1>7. ~http'.dead /\ http'.clean
  BY <1>2, <1>3, <1>4
<1>8. QED BY <1>2, <1>3, <1>4, <1>5, <1>6, <1>7 DEF AnswerOK, Unharmed, Listing, Searching, Fresh, Sending, Replied

LEMMA SendChunkOK ==
  ASSUME CapInv, http \in Replies, HttpInv, SendChunk PROVE HttpInv'
<1> DEFINE n == Min({http.left, ChunkBytes})
<1>1. /\ http.pc = "chunks" /\ http.left > 0 /\ store' = store
      /\ http'.pc = "chunks" /\ http'.want = http.want /\ http'.end = http.end
      /\ http'.lost = http.lost /\ http'.calm = http.calm /\ http'.at = http.at
      /\ http'.grown = http.grown /\ http'.status = http.status
      /\ http'.length = http.length /\ http'.src = http.src /\ http'.dead = http.dead
      /\ http'.left = http.left - n /\ http'.sent = http.sent + n
      /\ http'.clean = (http.clean /\ ~http.dead)
  BY DEF SendChunk, captureVars, Replies
<1> SUFFICES ASSUME http.calm PROVE AnswerOK'
  BY <1>1 DEF HttpInv
<1>2. /\ Placed /\ http.want # NoName /\ Found /\ Announced /\ http.src = http.want
      /\ http.length <= http.left + http.sent /\ http.left + http.sent <= SizeHere
      /\ Steady => ~http.dead /\ http.clean
  BY <1>1 DEF HttpInv, AnswerOK, Sending
<1>3. http.left \in Nat /\ http.sent \in Nat /\ ChunkBytes \in Nat
  BY HttpConstants DEF Replies
<1>4. n \in Nat
  <2>1. n = IF http.left <= ChunkBytes THEN http.left ELSE ChunkBytes
    BY <1>3, MinOfTwo, SMT
  <2>2. QED BY <1>3, <2>1
<1> HIDE DEF n
<1>5. (http.left - n) + (http.sent + n) = http.left + http.sent
  BY <1>3, <1>4, SMT
<1>6. Placed' /\ Found' /\ Announced'
  BY <1>1, <1>2 DEF Placed, Found, Announced, SizeHere, Steady
<1>7. /\ http'.length <= http'.left + http'.sent /\ http'.left + http'.sent <= SizeHere'
      /\ Steady' => ~http'.dead /\ http'.clean
  BY <1>1, <1>2, <1>5 DEF Steady, SizeHere
<1>8. QED BY <1>1, <1>2, <1>6, <1>7 DEF AnswerOK, Unharmed, Listing, Searching, Fresh, Sending, Replied

LEMMA BodyEndsOK ==
  ASSUME CapInv, http \in Replies, HttpInv, ChunkFails \/ BodySent PROVE HttpInv'
<1>1. /\ http.pc = "chunks" /\ store' = store
      /\ http'.pc = "reply" /\ http'.want = http.want /\ http'.end = http.end
      /\ http'.lost = http.lost /\ http'.calm = http.calm /\ http'.at = http.at
      /\ http'.grown = http.grown /\ http'.status = http.status
      /\ http'.length = http.length /\ http'.src = http.src
      /\ http'.sent = http.sent /\ http'.clean = http.clean
      /\ http'.broken \/ http.left = 0
  BY ZenonT(30) DEF ChunkFails, BodySent, captureVars, Replies
<1> SUFFICES ASSUME http.calm PROVE AnswerOK'
  BY <1>1 DEF HttpInv
<1>2. /\ Placed /\ http.want # NoName /\ Found /\ Announced /\ http.src = http.want
      /\ http.length <= http.left + http.sent /\ http.left + http.sent <= SizeHere
      /\ Steady => http.clean
  BY <1>1 DEF HttpInv, AnswerOK, Sending
<1>3. /\ http.left = 0 => http.left + http.sent = http.sent
      /\ http.sent <= SizeHere
  <2> DEFINE a == http.left
             b == http.sent
             c == SizeHere
  <2>1. a \in Nat /\ b \in Nat /\ c \in Nat /\ a + b <= c
    BY <1>2, InPlaceInCalm DEF Replies, Found
  <2> HIDE DEF a, b, c
  <2>2. (a = 0 => a + b = b) /\ b <= c
    BY <2>1, SMT
  <2>3. QED BY <2>2 DEF a, b, c
<1>4. Placed' /\ Found' /\ Announced'
  BY <1>1, <1>2 DEF Placed, Found, Announced, SizeHere, Steady
<1>5. /\ http'.sent <= SizeHere' /\ (~http'.broken => http'.length <= http'.sent)
      /\ Steady' => http'.clean
  <2>1. SizeHere' = SizeHere
    BY <1>1 DEF SizeHere
  <2>2. QED BY <1>1, <1>2, <1>3, <2>1 DEF Steady
<1>6. Replied'
  BY <1>1, <1>2, <1>4, <1>5 DEF Replied, Announced
<1>7. QED BY <1>1, <1>4, <1>6 DEF AnswerOK, Unharmed, Listing, Searching, Fresh, Sending

\* The main loop's task, between two steps of the handler.
LEMMA MainTaskOK ==
  ASSUME CapInv, http \in Replies, HttpInv, MainTask PROVE HttpInv'
<1> SUFFICES ASSUME http'.calm, http'.pc \notin {"off", "idle"} PROVE AnswerOK'
  BY DEF HttpInv
<1>1. http.pc \notin {"off", "idle", "crashed"}
  BY DEF MainTask
<1>2. PICK arrayMoves \in {FALSE, fileSeq' # fileSeq}, bytesMove \in {FALSE, Grows(http.src)} :
        http' = [http EXCEPT
                   !.lost = @ \/ arrayMoves,
                   !.dead = @ \/ bytesMove \/ (http.src # NoName /\ Gone(http.src)),
                   !.calm = /\ @ /\ fileSeq' = fileSeq
                            /\ Stored(store'.files) = Stored(store.files),
                   !.evicted = @ + Cardinality({n \in Range(Stored(store.files)) : Gone(n)}),
                   !.grown = @ \cup {n \in Range(Stored(store.files)) : Grows(n)}]
  BY <1>1 DEF MainTask
<1>3. /\ http'.pc = http.pc /\ http'.want = http.want /\ http'.end = http.end
      /\ http'.at = http.at /\ http'.entries = http.entries /\ http'.status = http.status
      /\ http'.length = http.length /\ http'.src = http.src /\ http'.left = http.left
      /\ http'.sent = http.sent /\ http'.clean = http.clean /\ http'.broken = http.broken
  BY <1>2 DEF Replies
<1>4. /\ http'.lost = (http.lost \/ arrayMoves)
      /\ http'.dead = (http.dead \/ bytesMove \/ (http.src # NoName /\ Gone(http.src)))
      /\ http'.calm = (/\ http.calm /\ fileSeq' = fileSeq
                       /\ Stored(store'.files) = Stored(store.files))
      /\ http'.grown = http.grown \cup {n \in Range(Stored(store.files)) : Grows(n)}
  BY <1>2 DEF Replies
<1>5. http.calm /\ fileSeq' = fileSeq /\ Stored(store'.files) = Stored(store.files)
  BY <1>4
<1>6. AnswerOK
  BY <1>1, <1>5 DEF HttpInv
<1>7. CaptureNext
  BY DEF MainTask
<1>8. /\ Len(store'.files) = Len(store.files)
      /\ \A i \in 1 .. Len(store.files) :
           /\ NameOf(store'.files[i]) = NameOf(store.files[i])
           /\ FileBytes(store.files[i]) <= FileBytes(store'.files[i])
           /\ ~Grows(NameOf(store.files[i])) =>
                FileBytes(store'.files[i]) = FileBytes(store.files[i])
           /\ ~Gone(NameOf(store.files[i]))
  BY <1>5, <1>7, QuietStep
\* What is not recorded as grown has kept its size.
<1>9. \A i \in 1 .. Len(store.files) :
        NameOf(store.files[i]) \notin http'.grown =>
          /\ NameOf(store.files[i]) \notin http.grown
          /\ ~Grows(NameOf(store.files[i]))
          /\ FileBytes(store'.files[i]) = FileBytes(store.files[i])
  <2>1. \A i \in 1 .. Len(store.files) : NameOf(store.files[i]) \in Range(Stored(store.files))
    BY StoredInCapInv
  <2>2. QED BY <1>4, <1>8, <2>1
<1>10. Placed'
  BY <1>3, <1>4, <1>5, <1>6, <1>8 DEF AnswerOK, Placed
<1>11. ASSUME NEW n, n \in Nat, n <= Len(store.files)
       PROVE  (Listed(n) => Listed(n)') /\ (Skipped(n) => Skipped(n)')
  <2>1. \A i \in 1..n : i \in 1 .. Len(store.files)
    <3>1. Len(store.files) \in Nat
      BY NamesHaveTypes
    <3>2. QED BY <1>11, <3>1, SMT
  <2>2. QED BY <1>3, <1>8, <1>9, <2>1 DEF Listed, Skipped
<1>12. /\ http.end = Len(store.files) /\ http.end \in Nat /\ http.at \in Nat
       /\ http.at \in 1 .. http.end + 1 => http.at - 1 \in Nat /\ http.at - 1 <= http.end
  <2>1. http.end = Len(store.files) /\ http.end \in Nat /\ http.at \in Nat
    BY <1>6 DEF AnswerOK, Placed, Replies
  <2>2. QED BY <2>1, SMT
<1>13. PICK k : k = http.at - 1
  OBVIOUS
<1>14. PICK e : e = http.end
  OBVIOUS
<1>15. Listing'
  <2> SUFFICES ASSUME http.pc = "list"
               PROVE  /\ http.want = NoName
                      /\ http.at \in 1 .. http.end + 1 /\ Listed(k)'
    BY <1>3, <1>13 DEF Listing
  <2>1. http.want = NoName /\ http.at \in 1 .. http.end + 1 /\ Listed(k)
    BY <1>6, <1>13 DEF AnswerOK, Listing
  <2>2. QED BY <1>11, <1>12, <1>13, <2>1
<1>16. Searching'
  <2> SUFFICES ASSUME http.pc = "find"
               PROVE  /\ http.want # NoName
                      /\ http.at \in 1 .. http.end + 1 /\ Skipped(k)'
    BY <1>3, <1>13 DEF Searching
  <2>1. http.want # NoName /\ http.at \in 1 .. http.end + 1 /\ Skipped(k)
    BY <1>6, <1>13 DEF AnswerOK, Searching
  <2>2. QED BY <1>11, <1>12, <1>13, <2>1
<1>17. Fresh'
  BY <1>3, <1>6 DEF AnswerOK, Fresh
\* The file asked for is where it was, and steady if it was.
<1>18. ASSUME Found
       PROVE  /\ Found' /\ SizeHere <= SizeHere' /\ SizeHere \in Nat /\ SizeHere' \in Nat
              /\ Steady' => Steady /\ ~Grows(http.want) /\ SizeHere' = SizeHere
              /\ ~Gone(http.want)
  <2>1. http.at \in 1 .. Len(store.files) /\ NameOf(store.files[http.at]) = http.want
    BY <1>12, <1>18 DEF Found
  <2>2. Found' /\ ~Gone(http.want)
    BY <1>3, <1>8, <1>12, <2>1 DEF Found
  <2>3. Steady' => Steady /\ ~Grows(http.want) /\ SizeHere' = SizeHere
    BY <1>3, <1>9, <2>1 DEF Steady, SizeHere
  <2>4. SizeHere <= SizeHere'
    BY <1>3, <1>8, <2>1 DEF SizeHere
  <2>5. SizeHere \in Nat /\ SizeHere' \in Nat
    <3>1. CapInv'
      BY <1>7, NextOK
    <3>2. /\ store \in Stores /\ store' \in Stores
      BY <3>1 DEF CapInv, Sound
    <3>3. /\ store.files[http.at] \in Files /\ store'.files[http.at] \in Files
      BY <1>8, <2>1, <3>2, StoreTypes
    <3>4. QED BY <1>3, <3>3, FileBytesByKind DEF SizeHere
  <2>6. QED BY <2>2, <2>3, <2>4, <2>5
<1>19. ASSUME Found, NEW b \in Nat, b <= SizeHere PROVE b <= SizeHere'
  <2> DEFINE c == SizeHere
             d == SizeHere'
  <2>1. b \in Nat /\ c \in Nat /\ d \in Nat /\ b <= c /\ c <= d
    BY <1>18, <1>19
  <2> HIDE DEF c, d
  <2>2. b <= d
    BY <2>1, SMT
  <2>3. QED BY <2>2 DEF d
<1>20. Found /\ Announced => Announced'
  <2>1. http.length \in Nat
    BY DEF Replies
  <2>2. QED BY <1>3, <1>18, <1>19, <2>1 DEF Announced
<1>21. Sending'
  <2>1. /\ http.pc \in {"head", "body", "chunks"} => http.want # NoName /\ Found
        /\ http.pc \in {"body", "chunks"} => Announced
        /\ http.pc = "chunks" =>
             /\ http.src = http.want
             /\ http.length <= http.left + http.sent /\ http.left + http.sent <= SizeHere
             /\ Steady => ~http.dead /\ http.clean
    BY <1>6 DEF AnswerOK, Sending
  <2>2. http.pc = "chunks" => http.left + http.sent <= SizeHere'
    <3>1. http.left + http.sent \in Nat
      BY SMT DEF Replies
    <3>2. QED BY <1>19, <2>1, <3>1
  <2>3. ASSUME http.pc = "chunks", Steady'
        PROVE  ~http'.dead /\ http'.clean
    <3>1. Found /\ http.src = http.want
      BY <2>1, <2>3
    <3>2. Steady /\ ~Grows(http.want) /\ ~Gone(http.want)
      BY <1>18, <2>3, <3>1
    <3>3. ~bytesMove
      BY <3>1, <3>2
    <3>4. QED BY <1>3, <1>4, <2>1, <2>3, <3>1, <3>2, <3>3
  <2>4. QED BY <1>3, <1>18, <1>20, <2>1, <2>2, <2>3 DEF Sending
<1>22. Replied'
  <2> SUFFICES ASSUME http.pc = "reply"
               PROVE  /\ http.status = 200 /\ http.want = NoName => Listed(e)'
                      /\ http.status = 404 /\ http.want # NoName => Skipped(e)'
                      /\ http.status = 200 /\ http.want # NoName =>
                           /\ Found' /\ http.src = http.want
                           /\ http.length <= SizeHere' /\ http.sent <= SizeHere'
                           /\ ~http.broken => http.length <= http.sent
                           /\ Steady' => http.clean /\ http.length = SizeHere'
    BY <1>3, <1>14 DEF Replied
  <2>1. /\ http.status = 200 /\ http.want = NoName => Listed(e)
        /\ http.status = 404 /\ http.want # NoName => Skipped(e)
        /\ http.status = 200 /\ http.want # NoName =>
             /\ Found /\ http.src = http.want
             /\ http.length <= SizeHere /\ http.sent <= SizeHere
             /\ ~http.broken => http.length <= http.sent
             /\ Steady => http.clean /\ http.length = SizeHere
    BY <1>6, <1>14 DEF AnswerOK, Replied
  <2>2. (Listed(e) => Listed(e)') /\ (Skipped(e) => Skipped(e)')
    <3>1. e \in Nat /\ e <= Len(store.files)
      BY <1>12, <1>14, SMT
    <3>2. QED BY <1>11, <3>1
  <2>3. http.length \in Nat /\ http.sent \in Nat
    BY DEF Replies
  <2>4. QED BY <1>18, <1>19, <2>1, <2>2, <2>3
<1>23. Unharmed'
  BY <1>1, <1>3 DEF Unharmed
<1>24. QED BY <1>10, <1>15, <1>16, <1>17, <1>21, <1>22, <1>23 DEF AnswerOK

\* Nothing dead is read in calm, unless the file being sent grew.
LEMMA DeadReadOK ==
  ASSUME CapInv, http \in Replies, HttpInv, DeadRead PROVE HttpInv'
<1>1. /\ http'.pc = "crashed" /\ http'.calm = http.calm /\ http'.lost = http.lost
      /\ http'.end = http.end /\ http'.want = http.want /\ http'.grown = http.grown
      /\ store' = store /\ http.pc \notin {"off", "idle"}
  BY DEF DeadRead, captureVars, Replies
<1> SUFFICES ASSUME http.calm PROVE AnswerOK'
  BY <1>1 DEF HttpInv
<1>2. AnswerOK
  BY <1>1 DEF HttpInv
<1>3. ~Steady
  <2>1. CASE http.pc \in {"list", "find"} /\ http.at <= http.end /\ ~InPlace
    <3>1. http.at \in 1 .. http.end + 1 /\ http.at \in Nat /\ http.end \in Nat
      BY <1>2, <2>1 DEF AnswerOK, Listing, Searching, Replies
    <3>2. http.at \in 1 .. http.end
      BY <2>1, <3>1, SMT
    <3>3. QED BY <1>2, <2>1, <3>2, InPlaceInCalm DEF AnswerOK
  <2>2. CASE http.pc \in {"head", "body"} /\ ~InPlace
    BY <1>2, <2>2, InPlaceInCalm DEF AnswerOK, Sending, Found
  <2>3. CASE http.pc = "chunks" /\ http.dead
    BY <1>2, <2>3 DEF AnswerOK, Sending
  <2>4. QED BY <2>1, <2>2, <2>3 DEF DeadRead
<1>4. Placed' /\ Unharmed'
  BY <1>1, <1>2, <1>3 DEF AnswerOK, Placed, Unharmed, Steady
<1>5. QED BY <1>1, <1>4 DEF AnswerOK, Listing, Searching, Fresh, Sending, Replied

LEMMA HttpStep ==
  ASSUME CapInv, http \in Replies, HttpInv, [HttpNext]_httpVars PROVE HttpInv'
<1>1. CASE UNCHANGED httpVars
  BY <1>1 DEF httpVars, captureVars, HttpInv, AnswerOK, Placed, Listing, Searching, Fresh,
      Sending, Replied, Unharmed, Announced, Found, SizeHere, Steady, Listed, Skipped
<1>2. CASE Register
  <2>1. CASE http.pc = "off"
    BY <1>2, <2>1 DEF Register, Waiting, HttpInv
  <2>2. CASE http.pc # "off"
    <3>1. UNCHANGED httpVars
      BY <1>2, <2>2 DEF Register, httpVars
    <3>2. QED BY <1>1, <3>1
  <2>3. QED BY <2>1, <2>2
<1>3. CASE Finish
  BY <1>3 DEF Finish, Waiting, HttpInv
<1>4. CASE Down
  BY <1>1, <1>4 DEF Down
<1>5. QED
  BY <1>1, <1>2, <1>3, <1>4, RequestOK, ListNextOK, ListDoneOK, FindNextOK, FindNothingOK,
     SendHeadersOK, StartBodyOK, SendChunkOK, BodyEndsOK, DeadReadOK, MainTaskOK
  DEF HttpNext, Answer

-----------------------------------------------------------------------------
(* The theorems *)

\* The web server never writes the capture, so all that is proved of Capture holds here.
THEOREM ServerDrivesCapture == HttpSpec => CaptureSpec
<1>1. HttpInit => CaptureInit
  BY DEF HttpInit
<1>2. [HttpNext]_httpVars => [CaptureNext]_captureVars
  BY DEF HttpNext, httpVars, captureVars, Register, Answer, MainTask, Request, ListNext,
      ListDone, FindNext, FindNothing, SendHeaders, StartBody, SendChunk, ChunkFails,
      BodySent, Finish, DeadRead, Down
<1>3. QED BY <1>1, <1>2, PTL DEF HttpSpec, CaptureSpec

LEMMA HttpInvariant == HttpSpec => [](CapInv /\ http \in Replies /\ HttpInv)
<1>1. HttpSpec => []CapInv
  BY ServerDrivesCapture, CaptureInvariant, PTL
<1>2. HttpInit => http \in Replies /\ HttpInv
  BY WaitingOK DEF HttpInit, HttpInv, Waiting
<1>3. CapInv /\ http \in Replies /\ HttpInv /\ [HttpNext]_httpVars
        => (http \in Replies)' /\ HttpInv'
  BY TypeStep, HttpStep
<1>4. QED BY <1>1, <1>2, <1>3, PTL DEF HttpSpec

\* The page lists every stored file once, whatever the running session appends meanwhile,
\* with the true size of each that did not grow.
THEOREM ListingCorrect == HttpSpec => []CalmListing
<1>1. CapInv /\ http \in Replies /\ HttpInv => CalmListing
  <2> SUFFICES ASSUME CapInv, http \in Replies, HttpInv, http.calm, http.pc = "reply",
                      http.status = 200, http.want = NoName
               PROVE  /\ [i \in DOMAIN http.entries |-> http.entries[i].name] = Stored(store.files)
                      /\ \A i \in DOMAIN http.entries :
                           http.entries[i].name \notin http.grown =>
                             http.entries[i].size = FileBytes(store.files[i])
    BY DEF CalmListing
  <2>1. Listed(http.end) /\ http.end = Len(store.files)
    BY DEF HttpInv, AnswerOK, Replied, Placed
  <2>2. DOMAIN http.entries = 1 .. http.end
    <3> DEFINE b == http.entries
    <3>1. b \in Seq(Entries) /\ Len(b) = http.end
      BY <2>1 DEF Replies, Listed
    <3> HIDE DEF b
    <3>2. DOMAIN b = 1 .. http.end
      BY <3>1, LenProperties
    <3>3. QED BY <3>2 DEF b
  <2>3. DOMAIN store.files = 1 .. http.end
    BY <2>1, NamesHaveTypes
  <2>4. [i \in DOMAIN http.entries |-> http.entries[i].name] = Stored(store.files)
    BY <2>1, <2>2, <2>3 DEF Stored, Listed
  <2>5. QED BY <2>1, <2>2, <2>4 DEF Listed
<1>2. QED BY <1>1, HttpInvariant, PTL

\* send_file_() in calm: "Not Found" is only said of what is not stored, a download is of
\* the file asked for and lies between its Content-Length and the file's size, and it is
\* the whole file, byte for byte, if that did not grow.
THEOREM DownloadCorrect == HttpSpec => []CalmDownload
<1>1. CapInv /\ http \in Replies /\ HttpInv => CalmDownload
  <2> DEFINE size == SizeOf(store.files, http.want)
  <2> SUFFICES ASSUME CapInv, http \in Replies, HttpInv, http.calm, http.pc = "reply",
                      http.want # NoName
               PROVE  /\ http.status = 404 => http.want \notin Range(Stored(store.files))
                      /\ http.status = 200 =>
                           /\ http.want \in Range(Stored(store.files)) /\ http.src = http.want
                           /\ http.length <= size /\ http.sent <= size
                           /\ ~http.broken => http.length <= http.sent
                           /\ http.want \notin http.grown =>
                                /\ http.clean /\ http.length = size
                                /\ ~http.broken => http.sent = size
    BY DEF CalmDownload
  <2>1. Replied /\ http.end = Len(store.files)
    BY DEF HttpInv, AnswerOK, Placed
  <2>2. /\ store \in Stores /\ Sound(store, fileSeq, Live) /\ fileSeq \in Nat /\ Live \in BOOLEAN
    BY DEF CapInv, Sound, Live, Opens
  <2>3. ASSUME http.status = 404 PROVE http.want \notin Range(Stored(store.files))
    <3>1. Skipped(http.end)
      BY <2>1, <2>3 DEF Replied
    <3>2. ASSUME http.want \in Range(Stored(store.files)) PROVE FALSE
      <4>1. PICK i \in 1 .. Len(store.files) : http.want = NameOf(store.files[i])
        BY <2>2, <3>2, NameIsStored
      <4>2. QED BY <2>1, <3>1, <4>1 DEF Skipped
    <3>3. QED BY <3>2
  <2>4. ASSUME http.status = 200
        PROVE  /\ http.want \in Range(Stored(store.files)) /\ http.src = http.want
               /\ http.length <= size /\ http.sent <= size
               /\ ~http.broken => http.length <= http.sent
               /\ Steady => http.clean /\ http.length = size /\ (~http.broken => http.sent = size)
    <3>1. /\ Found /\ http.src = http.want
          /\ http.length <= SizeHere /\ http.sent <= SizeHere
          /\ ~http.broken => http.length <= http.sent
          /\ Steady => http.clean /\ http.length = SizeHere
      BY <2>1, <2>4 DEF Replied
    <3>2. http.at \in 1 .. Len(store.files) /\ NameOf(store.files[http.at]) = http.want
      BY <2>1, <3>1 DEF Found
    <3>3. http.want \in Range(Stored(store.files))
      BY <2>2, <3>2, NameIsStored
    <3>4. size = SizeHere /\ size \in Nat
      BY <2>2, <3>2, SizeOfName, NamesHaveTypes DEF SizeHere
    <3>5. Steady /\ ~http.broken => http.sent = size
      <4> DEFINE b == http.length
                 c == http.sent
                 d == size
      <4>1. b \in Nat /\ c \in Nat /\ d \in Nat /\ c <= d
        BY <3>1, <3>4 DEF Replies
      <4>2. Steady /\ ~http.broken => b <= c /\ b = d
        BY <3>1, <3>4
      <4> HIDE DEF b, c, d
      <4>3. b <= c /\ b = d => c = d
        BY <4>1, SMT
      <4>4. QED BY <4>2, <4>3 DEF c, d
    <3> HIDE DEF size
    <3>6. QED BY <3>1, <3>3, <3>4, <3>5
  <2> HIDE DEF size
  <2>5. QED BY <2>3, <2>4 DEF Steady
<1>2. QED BY <1>1, HttpInvariant, PTL

\* No request reads past the last slot, through a pointer that is still good or after the
\* last byte: what takes the device down is only what the main loop moved under a request.
THEOREM CrashesExplained == HttpSpec => []OnlyMovesCrash
<1>1. HttpInv => OnlyMovesCrash
  BY DEF HttpInv, AnswerOK, Unharmed, Steady, OnlyMovesCrash
<1>2. QED BY <1>1, HttpInvariant, PTL

-----------------------------------------------------------------------------
(* What evictions hide *)

\* How many files have been evicted so far, and the name of the k-th ever opened: the
\* file in slot i is the (Base + i)-th.
Base == 2 * fileSeq - Len(store.files)
KeyName(k) == [seq |-> CeilDiv(k, 2), ext |-> IF k % 2 = 0 THEN "txt" ELSE "bin", plain |-> TRUE]

LEMMA KeyNames ==
  /\ \A k, l \in Nat : KeyName(k) = KeyName(l) => k = l
  /\ \A k, top \in Nat : KeyName(k).seq <= top <=> k <= 2 * top
<1>1. \A k : /\ KeyName(k).seq = CeilDiv(k, 2)
             /\ KeyName(k).ext = IF k % 2 = 0 THEN "txt" ELSE "bin"
  BY DEF KeyName
<1>2. ASSUME NEW k \in Nat, NEW l \in Nat, KeyName(k) = KeyName(l) PROVE k = l
  <2>1. CeilDiv(k, 2) = CeilDiv(l, 2) /\ (k % 2 = 0 <=> l % 2 = 0)
    BY <1>1, <1>2
  <2>2. QED BY <2>1, Numbering
<1>3. \A k, top \in Nat : CeilDiv(k, 2) <= top <=> k <= 2 * top
  BY SMT DEF CeilDiv
<1>4. QED BY <1>1, <1>2, <1>3

LEMMA SlotsAreKeys ==
  ASSUME NEW st, NEW top \in Nat, NEW live \in BOOLEAN, Sound(st, top, live)
  PROVE  LET n == Len(st.files)
             base == 2 * top - n
         IN  /\ base \in Nat /\ base <= 2 * top /\ n \in Nat /\ base + n = 2 * top
             /\ DOMAIN st.files = 1..n
             /\ \A i \in 1..n : NameOf(st.files[i]) = KeyName(base + i)
<1> DEFINE n == Len(st.files)
           base == 2 * top - n
<1>1. /\ n \in Nat /\ n <= 2 * top /\ DOMAIN st.files = 1..n
      /\ \A i \in 1..n : /\ st.files[i] \in Files
                         /\ st.files[i].seq = CeilDiv(base + i, 2)
                         /\ st.files[i].text <=> (base + i) % 2 = 0
  BY StoreTypes DEF Sound, Shaped
<1> HIDE DEF n
<1>2. base \in Nat /\ base <= 2 * top /\ base + n = 2 * top
  BY <1>1, SMT
<1> HIDE DEF base
<1>3. ASSUME NEW i \in 1..n PROVE NameOf(st.files[i]) = KeyName(base + i)
  <2>1. st.files[i].text \in BOOLEAN
    BY <1>1 DEF Files, Binaries, Sidecars
  <2>2. QED BY <1>1, <2>1 DEF NameOf, KeyName
<1>4. QED BY <1>1, <1>2, <1>3 DEF n, base

\* The same of the capture's store.
LEMMA StoredKeys ==
  ASSUME CapInv
  PROVE  /\ fileSeq \in Nat /\ Base \in Nat /\ Base <= 2 * fileSeq
         /\ Len(store.files) \in Nat /\ Base + Len(store.files) = 2 * fileSeq
         /\ DOMAIN store.files = 1 .. Len(store.files)
         /\ \A i \in 1 .. Len(store.files) : NameOf(store.files[i]) = KeyName(Base + i)
<1>1. fileSeq \in Nat /\ Live \in BOOLEAN /\ Sound(store, fileSeq, Live)
  BY DEF CapInv, Live, Opens
<1>2. QED BY <1>1, SlotsAreKeys DEF Base

\* And of the next state's.
LEMMA NextKeys ==
  ASSUME CapInv, CaptureNext
  PROVE  /\ fileSeq' \in Nat /\ Base' \in Nat /\ Base' <= 2 * fileSeq'
         /\ Len(store'.files) \in Nat /\ Base' + Len(store'.files) = 2 * fileSeq'
         /\ DOMAIN store'.files = 1 .. Len(store'.files)
         /\ \A i \in 1 .. Len(store'.files) : NameOf(store'.files[i]) = KeyName(Base' + i)
<1>1. fileSeq' \in Nat /\ Live' \in BOOLEAN /\ Sound(store', fileSeq', Live')
  BY NextOK DEF CapInv, Live, Opens
<1>2. QED BY <1>1, SlotsAreKeys DEF Base

\* Every call of the main loop leaves as many files evicted or more, and never one that
\* it opens.
LEMMA BaseGrows ==
  ASSUME CapInv, CaptureNext
  PROVE  /\ Base \in Nat /\ Base' \in Nat /\ fileSeq \in Nat /\ fileSeq' \in Nat
         /\ Base <= Base' /\ Base' <= 2 * fileSeq /\ fileSeq <= fileSeq'
<1> DEFINE n == Len(store.files)
           m == Len(store'.files)
<1>2. /\ fileSeq \in Nat /\ n \in Nat /\ fileSeq' \in Nat /\ m \in Nat
      /\ Base \in Nat /\ Base' \in Nat
      /\ Base = 2 * fileSeq - n /\ Base' = 2 * fileSeq' - m
  BY StoredKeys, NextKeys DEF Base
<1>3. \/ fileSeq' = fileSeq /\ m <= n
      \/ fileSeq' = fileSeq + 1 /\ m <= n + 2 /\ m >= 2
  <2>1. CASE ~sessionActive /\ OnSessionStart
    <3>1. CASE Opens
      <4>1. fileSeq' = fileSeq + 1 /\ store' = OpenNewCapture(store, fileSeq + 1)
        BY <2>1, <3>1 DEF OnSessionStart
      <4>2. Sound(store, fileSeq, FALSE)
        BY <2>1 DEF CapInv, Live, Sound, Shaped
      <4>3. Sound(store', fileSeq + 1, TRUE) /\ m <= n + 2
        BY <1>2, <4>1, <4>2, OpenNewCaptureOK
      <4>4. QED BY <4>1, <4>3 DEF Sound, Shaped
    <3>2. CASE ~Opens
      <4>1. store' = store /\ fileSeq' = fileSeq
        BY <2>1, <3>2 DEF OnSessionStart
      <4>2. QED BY <1>2, <4>1
    <3>3. QED BY <3>1, <3>2
  <2>2. CASE OnSessionEnd \/ CaptureLoop
    <3> DEFINE to == Flush(store, evRing)
    <3>1. Sound(to, fileSeq, Live) /\ Follows(store, to) /\ Live \in BOOLEAN
      BY FlushOK DEF Live, Opens
    <3>2. fileSeq' = fileSeq /\ store' \in {to, CloseCurrent(to)}
      BY <2>2 DEF OnSessionEnd, CaptureLoop
    <3> HIDE DEF to
    <3>3. CloseCurrent(to).files = to.files
      BY <1>2, <3>1, CloseOK
    <3>4. QED BY <3>1, <3>2, <3>3 DEF Follows
  <2>3. ASSUME NEW dir \in 0..1, NEW data \in Payloads, Record(dir, data)
        PROVE  fileSeq' = fileSeq /\ m <= n
    <3>1. fileSeq' = fileSeq /\ store' \in {store, [store EXCEPT !.drops = @ + 1]}
      BY <2>3 DEF Record
    <3>2. store'.files = store.files
      BY <3>1 DEF CapInv, Sound, Stores
    <3>3. QED BY <1>2, <3>1, <3>2
  <2>4. QED BY <2>1, <2>2, <2>3 DEF CaptureNext
<1> DEFINE b == Base
           c == Base'
           s == fileSeq
           t == fileSeq'
<1>4. /\ s \in Nat /\ n \in Nat /\ t \in Nat /\ m \in Nat /\ b \in Nat /\ c \in Nat
      /\ b = 2 * s - n /\ c = 2 * t - m
      /\ (t = s /\ m <= n) \/ (t = s + 1 /\ m <= n + 2 /\ m >= 2)
  BY <1>2, <1>3
<1> HIDE DEF n, m, b, c, s, t
<1>5. b <= c /\ c <= 2 * s /\ s <= t
  BY <1>4, SMT
<1>6. QED BY <1>4, <1>5 DEF b, c, s, t

\* What a call of the main loop evicts, counted by names.
LEMMA GoneCounts ==
  ASSUME CapInv, CaptureNext
  PROVE  LET gone == {n \in Range(Stored(store.files)) : Gone(n)}
         IN  Cardinality(gone) \in Nat /\ Base' - Base <= Cardinality(gone)
<1> DEFINE gone == {n \in Range(Stored(store.files)) : Gone(n)}
           keys == Base + 1 .. Base'
           f == [k \in keys |-> KeyName(k)]
<1>1. /\ Base \in Nat /\ Base' \in Nat /\ Base <= Base' /\ Base' <= 2 * fileSeq
      /\ fileSeq \in Nat
  BY BaseGrows
<1>3. /\ Len(store.files) \in Nat /\ Base + Len(store.files) = 2 * fileSeq
      /\ \A i \in 1 .. Len(store.files) : NameOf(store.files[i]) = KeyName(Base + i)
  BY StoredKeys
<1>4. /\ DOMAIN store'.files = 1 .. Len(store'.files) /\ Len(store'.files) \in Nat
      /\ \A i \in 1 .. Len(store'.files) : NameOf(store'.files[i]) = KeyName(Base' + i)
  BY NextKeys
<1>5. ASSUME NEW k \in keys PROVE KeyName(k) \in gone
  <2>1. k - Base \in 1 .. Len(store.files) /\ Base + (k - Base) = k
    BY <1>1, <1>3, SMT
  <2>2. KeyName(k) = NameOf(store.files[k - Base])
    BY <1>3, <2>1
  <2>3. KeyName(k) \in Range(Stored(store.files))
    BY <2>1, <2>2, StoredInCapInv
  <2>4. ASSUME NEW i \in DOMAIN store'.files, NameOf(store'.files[i]) = KeyName(k) PROVE FALSE
    <3>1. i \in 1 .. Len(store'.files) /\ KeyName(Base' + i) = KeyName(k)
      BY <1>4, <2>4
    <3>2. i \in Nat /\ i >= 1 /\ Base' + i \in Nat /\ k \in Nat /\ k <= Base'
      BY <1>1, <1>4, <3>1, SMT
    <3>3. Base' + i = k
      BY <3>1, <3>2, KeyNames
    <3>4. QED BY <1>1, <3>2, <3>3, SMT
  <2>5. QED BY <2>3, <2>4 DEF Gone
<1>6. f \in [keys -> gone]
  BY <1>5
<1>7. \A k, l \in keys : f[k] = f[l] => k = l
  <2>1. \A k \in keys : k \in Nat
    BY <1>1, SMT
  <2>2. QED BY <2>1, KeyNames
<1>8. f \in Injection(keys, gone)
  BY <1>6, <1>7 DEF Injection, IsInjective
<1>9. IsFiniteSet(gone) /\ Cardinality(gone) \in Nat
  BY FewGone
<1>10. Cardinality(keys) <= Cardinality(gone)
  <2> HIDE DEF f, keys, gone
  <2>1. QED BY <1>8, <1>9, FS_Injection
<1>11. Base + 1 \in Int /\ Base' \in Int /\ (Base + 1 > Base' => Base' - Base = 0)
       /\ Base' - (Base + 1) + 1 = Base' - Base
  <2> DEFINE b == Base
             c == Base'
  <2>1. b \in Nat /\ c \in Nat /\ b <= c
    BY <1>1
  <2> HIDE DEF b, c
  <2>2. b + 1 \in Int /\ c \in Int /\ (b + 1 > c => c - b = 0) /\ c - (b + 1) + 1 = c - b
    BY <2>1, SMT
  <2>3. QED BY <2>2 DEF b, c
<1>12. Cardinality(keys) = Base' - Base
  BY <1>11, FS_Interval
<1>13. QED BY <1>9, <1>10, <1>12

LEMMA UnionIsSmall ==
  ASSUME NEW S, NEW T, IsFiniteSet(S), IsFiniteSet(T), NEW U, U \subseteq S \cup T
  PROVE  Cardinality(U) \in Nat /\ Cardinality(U) <= Cardinality(S) + Cardinality(T)
<1>1. /\ Cardinality(S) \in Nat /\ Cardinality(T) \in Nat
  BY FS_CardinalityType
<1>2. IsFiniteSet(S \cap T)
  BY FS_Intersection
<1>3. Cardinality(S \cap T) \in Nat
  BY <1>2, FS_CardinalityType
<1>4. /\ IsFiniteSet(S \cup T)
      /\ Cardinality(S \cup T) = Cardinality(S) + Cardinality(T) - Cardinality(S \cap T)
  BY FS_Union
<1>5. IsFiniteSet(U) /\ Cardinality(U) <= Cardinality(S \cup T)
  BY <1>4, FS_Subset
<1>6. Cardinality(U) \in Nat /\ Cardinality(S \cup T) \in Nat
  BY <1>4, <1>5, FS_CardinalityType
<1>7. QED BY <1>1, <1>3, <1>4, <1>5, <1>6, SMT

\* The files stored throughout that the page does not name, and those of them that the
\* iterator has passed.
Unlisted ==
  {k \in Base + 1 .. 2 * http.newest :
     \A i \in DOMAIN http.entries : http.entries[i].name # KeyName(k)}
Passed == {k \in Unlisted : k < Base + http.at}

HideInv ==
  http.pc \in {"list", "find", "head", "body", "chunks", "reply"} /\ ~http.lost =>
    /\ http.newest <= fileSeq
    /\ http.pc \in {"list", "find"} => 2 * http.newest <= Base + http.end
    /\ http.pc = "list" => http.want = NoName /\ Cardinality(Passed) <= http.evicted
    /\ http.pc = "find" /\ http.evicted = 0 =>
         \A k \in Base + 1 .. 2 * http.newest : k < Base + http.at => KeyName(k) # http.want
    /\ http.pc \in {"find", "head", "body", "chunks"} => http.want # NoName
    /\ http.pc \in {"body", "chunks"} => http.status = 200
    /\ http.pc = "reply" =>
         /\ http.status = 200 /\ http.want = NoName => Cardinality(Unlisted) <= http.evicted
         /\ http.status = 404 /\ IsSafe(http.want) /\ http.evicted = 0 =>
              \A k \in Base + 1 .. 2 * http.newest : KeyName(k) # http.want

LEMMA UnlistedIsFinite ==
  ASSUME CapInv, http \in Replies
  PROVE  /\ IsFiniteSet(Unlisted) /\ Cardinality(Unlisted) \in Nat
         /\ IsFiniteSet(Passed) /\ Cardinality(Passed) \in Nat
<1>1. Base + 1 \in Int /\ 2 * http.newest \in Int
  BY StoredKeys, SMT DEF Replies
<1>2. IsFiniteSet(Base + 1 .. 2 * http.newest)
  BY <1>1, FS_Interval
<1>3. IsFiniteSet(Unlisted)
  BY <1>2, FS_Subset DEF Unlisted
<1>4. IsFiniteSet(Passed)
  BY <1>3, FS_Subset DEF Passed
<1>5. QED BY <1>3, <1>4, FS_CardinalityType

\* As long as the array stays where it is, the iterator reads the file that is in its
\* slot, or finds no file stored throughout there.
LEMMA SlotIsRead ==
  ASSUME CapInv, http \in Replies, ~http.lost, http.newest <= fileSeq,
         NEW k \in Base + 1 .. 2 * http.newest, k = Base + http.at
  PROVE  NamesHere = {KeyName(k)}
<1>1. http.at \in Nat /\ http.newest \in Nat
  BY DEF Replies
<1>2. /\ fileSeq \in Nat /\ Base \in Nat /\ Len(store.files) \in Nat
      /\ Base + Len(store.files) = 2 * fileSeq
      /\ DOMAIN store.files = 1 .. Len(store.files)
      /\ \A i \in 1 .. Len(store.files) : NameOf(store.files[i]) = KeyName(Base + i)
  BY StoredKeys
<1> DEFINE b == Base
           n == Len(store.files)
           a == http.at
           w == http.newest
<1>3. /\ b \in Nat /\ n \in Nat /\ a \in Nat /\ w \in Nat /\ fileSeq \in Nat
      /\ b + n = 2 * fileSeq /\ w <= fileSeq /\ k \in b + 1 .. 2 * w /\ k = b + a
  BY <1>1, <1>2
<1> HIDE DEF b, n, a, w
<1>4. a \in 1..n
  BY <1>3, SMT
<1>5. InPlace /\ NameOf(store.files[http.at]) = KeyName(k)
  BY <1>2, <1>4 DEF a, n, InPlace
<1>6. QED BY <1>5 DEF NamesHere

LEMMA HideRequest ==
  ASSUME CapInv, NEW r \in Requests, Request(r) PROVE HideInv'
<1>1. /\ store' = store /\ fileSeq' = fileSeq
      /\ http'.want = r.name /\ http'.end = Len(store.files) /\ http'.newest = fileSeq
      /\ http'.at = 1 /\ http'.evicted = 0
      /\ http'.pc = IF r.path = "prefix" THEN "reply"
                    ELSE IF r.name = NoName THEN "list"
                    ELSE IF IsSafe(r.name) THEN "find" ELSE "reply"
      /\ http'.status = IF r.path = "prefix" THEN 302
                        ELSE IF r.name # NoName /\ ~IsSafe(r.name) THEN 404 ELSE 0
  BY DEF Request, Waiting, Slots, captureVars
<1>2. /\ fileSeq \in Nat /\ Base \in Nat /\ Len(store.files) \in Nat
      /\ Base + Len(store.files) = 2 * fileSeq
  BY StoredKeys
<1>3. Base' = Base
  BY <1>1 DEF Base
<1>4. fileSeq <= fileSeq /\ 2 * fileSeq <= Base + Len(store.files)
  BY <1>2, SMT
<1>5. \A k \in Base + 1 .. 2 * fileSeq : ~(k < Base + 1)
  BY <1>2, SMT
<1>6. Passed' = {}
  BY <1>1, <1>3, <1>5 DEF Passed, Unlisted
<1>7. Cardinality(Passed') <= 0
  BY <1>6, FS_EmptySet, SMT
<1>8. /\ http'.pc \notin {"head", "body", "chunks"}
      /\ http'.pc = "list" => http'.want = NoName
      /\ http'.pc = "find" => http'.want # NoName
      /\ http'.pc = "reply" => http'.status # 200 /\ (http'.status = 404 => ~IsSafe(http'.want))
  BY <1>1
<1>9. QED BY <1>1, <1>3, <1>4, <1>5, <1>7, <1>8 DEF HideInv

LEMMA HideListNext ==
  ASSUME CapInv, http \in Replies, HideInv, ListNext PROVE HideInv'
<1>1. PICK name \in NamesHere, size \in SizesHere :
        http' = [http EXCEPT !.entries = Append(@, [name |-> name, size |-> size]),
                             !.at = @ + 1]
  BY DEF ListNext
<1>2. /\ http.pc = "list" /\ store' = store /\ fileSeq' = fileSeq
      /\ http'.pc = "list" /\ http'.want = http.want /\ http'.end = http.end
      /\ http'.lost = http.lost /\ http'.newest = http.newest /\ http'.evicted = http.evicted
      /\ http'.at = http.at + 1
      /\ http'.entries = Append(http.entries, [name |-> name, size |-> size])
  BY <1>1 DEF ListNext, captureVars, Replies
<1> SUFFICES ASSUME ~http.lost PROVE Cardinality(Passed') <= http.evicted
  <2>1. Base' = Base
    BY <1>2 DEF Base
  <2>2. QED BY <1>2, <2>1 DEF HideInv
<1>3. http.newest <= fileSeq /\ Cardinality(Passed) <= http.evicted
  BY <1>2 DEF HideInv
<1>4. Base' = Base
  BY <1>2 DEF Base
<1>5. /\ \A i \in DOMAIN http.entries :
           i \in DOMAIN http'.entries /\ http'.entries[i].name = http.entries[i].name
      /\ \E i \in DOMAIN http'.entries : http'.entries[i].name = name
  <2> DEFINE x == [name |-> name, size |-> size]
             es == http.entries
             n == Len(es)
             fs == Append(es, x)
  <2>1. es \in Seq(Entries) /\ x \in Entries
    BY HereHasTypes DEF Replies, Entries
  <2> HIDE DEF x, es
  <2>2. /\ n \in Nat /\ DOMAIN es = 1..n /\ fs \in Seq(Entries) /\ Len(fs) = n + 1
        /\ \A i \in 1..n : fs[i] = es[i]
        /\ fs[n + 1] = x
    BY <2>1, AppendProperties, LenProperties
  <2>3. DOMAIN fs = 1 .. n + 1
    BY <2>2, LenProperties
  <2> HIDE DEF n, fs
  <2>4. n + 1 \in 1 .. n + 1 /\ \A i \in 1..n : i \in 1 .. n + 1
    BY <2>2, SMT
  <2>5. fs[n + 1].name = name
    BY <2>2 DEF x
  <2>6. http'.entries = fs
    BY <1>2 DEF fs, es, x
  <2>7. QED BY <2>2, <2>3, <2>4, <2>5, <2>6 DEF es
<1>6. Passed' \subseteq Passed
  <2> SUFFICES ASSUME NEW k \in Passed' PROVE k \in Passed
    OBVIOUS
  <2>1. /\ k \in Base + 1 .. 2 * http.newest /\ k < Base + (http.at + 1)
        /\ \A i \in DOMAIN http'.entries : http'.entries[i].name # KeyName(k)
    BY <1>2, <1>4 DEF Passed, Unlisted
  <2>2. k \in Unlisted
    BY <1>5, <2>1 DEF Unlisted
  <2>3. k # Base + http.at
    <3> SUFFICES ASSUME k = Base + http.at PROVE FALSE
      OBVIOUS
    <3>1. NamesHere = {KeyName(k)}
      BY <1>3, <2>1, SlotIsRead
    <3>2. QED BY <1>5, <2>1, <3>1
  <2>4. k < Base + http.at
    <3>1. Base \in Nat /\ http.at \in Nat /\ http.newest \in Nat
      BY StoredKeys DEF Replies
    <3>2. QED BY <2>1, <2>3, <3>1, SMT
  <2>5. QED BY <2>2, <2>4 DEF Passed
<1>7. IsFiniteSet(Passed) /\ Cardinality(Passed) \in Nat
  BY UnlistedIsFinite
<1> DEFINE P == Passed
           Q == Passed'
           e == http.evicted
<1>8. Q \in SUBSET P /\ IsFiniteSet(P) /\ Cardinality(P) \in Nat /\ e \in Nat /\ Cardinality(P) <= e
  BY <1>3, <1>6, <1>7 DEF Replies
<1> HIDE DEF P, Q, e
<1>9. IsFiniteSet(Q) /\ Cardinality(Q) <= Cardinality(P)
  BY <1>8, FS_Subset
<1>10. Cardinality(Q) \in Nat
  BY <1>9, FS_CardinalityType
<1>11. Cardinality(Q) <= e
  BY <1>8, <1>9, <1>10, SMT
<1>12. QED BY <1>11 DEF Q, e

LEMMA HideListDone ==
  ASSUME CapInv, http \in Replies, HideInv, ListDone PROVE HideInv'
<1>1. /\ http.pc = "list" /\ http.at > http.end /\ store' = store /\ fileSeq' = fileSeq
      /\ http'.pc = "reply" /\ http'.want = http.want /\ http'.status = 200
      /\ http'.lost = http.lost /\ http'.newest = http.newest /\ http'.evicted = http.evicted
      /\ http'.entries = http.entries
  BY DEF ListDone, captureVars, Replies
<1> SUFFICES ASSUME ~http.lost PROVE http'.newest <= fileSeq' /\ Cardinality(Unlisted') <= http'.evicted
  BY <1>1 DEF HideInv
<1>2. /\ http.newest <= fileSeq /\ 2 * http.newest <= Base + http.end
      /\ Cardinality(Passed) <= http.evicted
  BY <1>1 DEF HideInv
<1>3. Base' = Base
  BY <1>1 DEF Base
<1>4. Unlisted' = Unlisted
  BY <1>1, <1>3 DEF Unlisted
<1>5. \A k \in Base + 1 .. 2 * http.newest : k < Base + http.at
  <2>1. Base \in Nat /\ http.at \in Nat /\ http.end \in Nat /\ http.newest \in Nat
    BY StoredKeys DEF Replies
  <2>2. QED BY <1>1, <1>2, <2>1, SMT
<1>6. Unlisted = Passed
  BY <1>5 DEF Passed, Unlisted
<1>7. QED BY <1>1, <1>2, <1>4, <1>6

LEMMA HideFindNext ==
  ASSUME CapInv, http \in Replies, HideInv, FindNext PROVE HideInv'
<1>1. PICK name \in NamesHere :
        http' = IF name = http.want THEN [http EXCEPT !.pc = "head"]
                                    ELSE [http EXCEPT !.at = @ + 1]
  BY DEF FindNext
<1>2. /\ http.pc = "find" /\ store' = store /\ fileSeq' = fileSeq
      /\ http'.want = http.want /\ http'.end = http.end
      /\ http'.lost = http.lost /\ http'.newest = http.newest /\ http'.evicted = http.evicted
      /\ name = http.want => http'.pc = "head"
      /\ name # http.want => http'.pc = "find" /\ http'.at = http.at + 1
  BY <1>1 DEF FindNext, captureVars, Replies
<1>3. Base' = Base
  BY <1>2 DEF Base
<1> SUFFICES ASSUME ~http.lost, name # http.want, http.evicted = 0,
                    NEW k \in Base + 1 .. 2 * http.newest, k < Base + (http.at + 1)
             PROVE  KeyName(k) # http.want
  BY <1>2, <1>3 DEF HideInv
<1>4. /\ http.newest <= fileSeq
      /\ k < Base + http.at => KeyName(k) # http.want
  BY <1>2 DEF HideInv
<1>5. CASE k = Base + http.at
  <2>1. NamesHere = {KeyName(k)}
    BY <1>4, <1>5, SlotIsRead
  <2>2. QED BY <2>1
<1>6. CASE k # Base + http.at
  <2>1. Base \in Nat /\ http.at \in Nat /\ http.newest \in Nat
    BY StoredKeys DEF Replies
  <2>2. k < Base + http.at
    BY <1>6, <2>1, SMT
  <2>3. QED BY <1>4, <2>2
<1>7. QED BY <1>5, <1>6

LEMMA HideFindNothing ==
  ASSUME CapInv, http \in Replies, HideInv, FindNothing PROVE HideInv'
<1>1. /\ http.pc = "find" /\ http.at > http.end /\ store' = store /\ fileSeq' = fileSeq
      /\ http'.pc = "reply" /\ http'.want = http.want /\ http'.status = 404
      /\ http'.lost = http.lost /\ http'.newest = http.newest /\ http'.evicted = http.evicted
  BY DEF FindNothing, captureVars, Replies
<1>2. Base' = Base
  BY <1>1 DEF Base
<1> SUFFICES ASSUME ~http.lost
             PROVE  /\ http.newest <= fileSeq
                    /\ http.evicted = 0 =>
                         \A k \in Base + 1 .. 2 * http.newest : KeyName(k) # http.want
  BY <1>1, <1>2 DEF HideInv
<1>3. /\ http.newest <= fileSeq /\ 2 * http.newest <= Base + http.end
      /\ http.evicted = 0 =>
           \A k \in Base + 1 .. 2 * http.newest : k < Base + http.at => KeyName(k) # http.want
  BY <1>1 DEF HideInv
<1>4. \A k \in Base + 1 .. 2 * http.newest : k < Base + http.at
  <2>1. Base \in Nat /\ http.at \in Nat /\ http.end \in Nat /\ http.newest \in Nat
    BY StoredKeys DEF Replies
  <2>2. QED BY <1>1, <1>3, <2>1, SMT
<1>5. QED BY <1>3, <1>4

LEMMA HideSending ==
  ASSUME http \in Replies, HideInv,
         SendHeaders \/ StartBody \/ SendChunk \/ ChunkFails \/ BodySent
  PROVE  HideInv'
<1>1. /\ http.pc \in {"head", "body", "chunks"} /\ fileSeq' = fileSeq
      /\ http'.pc \in {"body", "chunks", "reply"} /\ http'.want = http.want
      /\ http'.lost = http.lost /\ http'.newest = http.newest
      /\ http'.status = IF http.pc = "head" THEN 200 ELSE http.status
  BY ZenonT(30) DEF SendHeaders, StartBody, SendChunk, ChunkFails, BodySent, captureVars, Replies
<1>2. QED BY <1>1 DEF HideInv

\* What a call of the main loop evicts moves the iterator by as many files.
LEMMA HideMainTask ==
  ASSUME CapInv, http \in Replies, HideInv, MainTask PROVE HideInv'
<1> SUFFICES ASSUME http'.pc \in {"list", "find", "head", "body", "chunks", "reply"}, ~http'.lost
             PROVE  HideInv'
  BY DEF HideInv
<1> DEFINE gone == {n \in Range(Stored(store.files)) : Gone(n)}
<1>1. http.pc \notin {"off", "idle", "crashed"} /\ CaptureNext
  BY DEF MainTask
<1>2. /\ http'.pc = http.pc /\ http'.want = http.want /\ http'.end = http.end
      /\ http'.at = http.at /\ http'.entries = http.entries /\ http'.status = http.status
      /\ http'.newest = http.newest /\ ~http.lost
      /\ http'.evicted = http.evicted + Cardinality(gone)
  BY <1>1 DEF MainTask, Replies
<1>3. /\ Base \in Nat /\ Base' \in Nat /\ fileSeq \in Nat /\ fileSeq' \in Nat
      /\ Base <= Base' /\ Base' <= 2 * fileSeq /\ fileSeq <= fileSeq'
      /\ Cardinality(gone) \in Nat /\ Base' - Base <= Cardinality(gone)
  BY <1>1, BaseGrows, GoneCounts
<1> DEFINE b == Base
           c == Base'
           g == Cardinality(gone)
           v == http.evicted
           a == http.at
           w == http.newest
           d == http.end
           s == fileSeq
           t == fileSeq'
<1>4. /\ b \in Nat /\ c \in Nat /\ g \in Nat /\ v \in Nat /\ a \in Nat /\ w \in Nat /\ d \in Nat
      /\ s \in Nat /\ t \in Nat /\ b <= c /\ s <= t /\ c - b <= g
  BY <1>3 DEF Replies
<1>5. /\ http'.evicted = v + g /\ w <= s
      /\ http.pc \in {"list", "find"} => 2 * w <= b + d
  BY <1>1, <1>2 DEF HideInv
<1>6. http'.newest <= fileSeq' /\ (http.pc \in {"list", "find"} => 2 * http.newest <= Base' + http.end)
  <2>1. http'.newest = w
    BY <1>2
  <2> HIDE DEF b, c, g, v, a, w, d, s, t
  <2>2. w <= t /\ (2 * w <= b + d => 2 * w <= c + d)
    BY <1>4, <1>5, SMT
  <2>3. QED BY <1>5, <2>1, <2>2 DEF c, w, d, t
<1>7. /\ IsFiniteSet(Unlisted) /\ Cardinality(Unlisted) \in Nat
      /\ IsFiniteSet(Passed) /\ Cardinality(Passed) \in Nat
  BY UnlistedIsFinite
<1>8. \A k : k \in c + 1 .. 2 * w => k \in b + 1 .. 2 * w
  <2> HIDE DEF b, c, g, v, a, w, d, s, t
  <2>1. QED BY <1>4, SMT
<1>9. Unlisted' \subseteq Unlisted
  BY <1>2, <1>8 DEF Unlisted
<1> DEFINE more == b + a .. c + a - 1
<1>10. Passed' \subseteq Passed \cup more
  <2> SUFFICES ASSUME NEW k \in Passed', k \notin Passed PROVE k \in more
    OBVIOUS
  <2>1. k \in Unlisted /\ k \in c + 1 .. 2 * w /\ k < c + a
    BY <1>2, <1>9 DEF Passed, Unlisted
  <2>2. ~(k < b + a)
    BY <2>1 DEF Passed
  <2> HIDE DEF b, c, g, v, a, w, d, s, t
  <2>3. QED BY <1>4, <2>1, <2>2, SMT
<1>11. IsFiniteSet(more) /\ Cardinality(more) = c - b
  <2> HIDE DEF b, c, g, v, a, w, d, s, t
  <2>1. /\ b + a \in Int /\ c + a - 1 \in Int
        /\ (c + a - 1) - (b + a) + 1 = c - b
        /\ b + a > c + a - 1 => c - b = 0
    BY <1>4, SMT
  <2>2. QED BY <2>1, FS_Interval
<1>12. ASSUME http.pc = "list" PROVE http.want = NoName /\ Cardinality(Passed') <= http'.evicted
  <2>1. http.want = NoName /\ Cardinality(Passed) <= v
    BY <1>2, <1>12 DEF HideInv
  <2>2. Cardinality(Passed') \in Nat /\ Cardinality(Passed') <= Cardinality(Passed) + Cardinality(more)
    <3> DEFINE S == Passed
               T == more
               U == Passed'
    <3>1. IsFiniteSet(S) /\ IsFiniteSet(T) /\ U \subseteq S \cup T
      BY <1>7, <1>10, <1>11
    <3> HIDE DEF S, T, U
    <3>2. Cardinality(U) \in Nat /\ Cardinality(U) <= Cardinality(S) + Cardinality(T)
      BY <3>1, UnionIsSmall
    <3>3. QED BY <3>2 DEF S, T, U
  <2> DEFINE p == Cardinality(Passed)
             q == Cardinality(Passed')
  <2>3. p \in Nat /\ q \in Nat /\ p <= v /\ q <= p + (c - b)
    BY <1>7, <1>11, <2>1, <2>2
  <2> HIDE DEF b, c, g, v, a, w, d, s, t, p, q
  <2>4. q <= v + g
    BY <1>4, <2>3, SMT
  <2>5. QED BY <1>5, <2>1, <2>4 DEF q
\* A request that nothing was evicted under stands where it stood.
<1>13. ASSUME http'.evicted = 0 PROVE http.evicted = 0 /\ Base' = Base
  <2>1. v + g = 0
    BY <1>5, <1>13
  <2> HIDE DEF b, c, g, v, a, w, d, s, t
  <2>2. v = 0 /\ c = b
    BY <1>4, <2>1, SMT
  <2>3. QED BY <2>2 DEF v, c, b
<1>14. ASSUME http.pc = "find", http'.evicted = 0,
              NEW k \in Base' + 1 .. 2 * http.newest, k < Base' + http.at
       PROVE  KeyName(k) # http.want
  BY <1>2, <1>13, <1>14 DEF HideInv
<1>15. ASSUME http.pc = "reply", http.status = 200, http.want = NoName
       PROVE  Cardinality(Unlisted') <= http'.evicted
  <2>1. Cardinality(Unlisted) <= v
    BY <1>2, <1>15 DEF HideInv
  <2> DEFINE S == Unlisted
             U == Unlisted'
  <2>2. IsFiniteSet(S) /\ U \in SUBSET S /\ Cardinality(S) \in Nat
    BY <1>7, <1>9
  <2> HIDE DEF b, c, g, v, a, w, d, s, t, S, U
  <2>3. IsFiniteSet(U) /\ Cardinality(U) <= Cardinality(S)
    BY <2>2, FS_Subset
  <2>4. Cardinality(U) \in Nat
    BY <2>3, FS_CardinalityType
  <2>5. Cardinality(S) <= v
    BY <2>1 DEF S
  <2>6. Cardinality(U) <= v + g
    BY <1>4, <2>2, <2>3, <2>4, <2>5, SMT
  <2>7. QED BY <1>5, <2>6 DEF U
<1>16. ASSUME http.pc = "reply", http.status = 404, IsSafe(http.want), http'.evicted = 0,
              NEW k \in Base' + 1 .. 2 * http.newest
       PROVE  KeyName(k) # http.want
  BY <1>2, <1>13, <1>16 DEF HideInv
<1>17. /\ http.pc \in {"find", "head", "body", "chunks"} => http.want # NoName
       /\ http.pc \in {"body", "chunks"} => http.status = 200
  BY <1>2 DEF HideInv
<1> HIDE DEF b, c, g, v, a, w, d, s, t, gone
<1>18. QED BY <1>2, <1>6, <1>12, <1>14, <1>15, <1>16, <1>17 DEF HideInv

LEMMA HideStep ==
  ASSUME CapInv, http \in Replies, HideInv, [HttpNext]_httpVars PROVE HideInv'
<1>1. CASE UNCHANGED httpVars
  BY <1>1 DEF httpVars, captureVars, HideInv, Passed, Unlisted, Base
<1>2. CASE Register
  <2>1. CASE http.pc = "off"
    BY <1>2, <2>1 DEF Register, Waiting, HideInv
  <2>2. CASE http.pc # "off"
    BY <1>2, <2>2 DEF Register, captureVars, HideInv, Passed, Unlisted, Base
  <2>3. QED BY <2>1, <2>2
<1>3. CASE Finish
  BY <1>3 DEF Finish, Waiting, HideInv
<1>4. CASE DeadRead
  BY <1>4 DEF DeadRead, HideInv, Replies
<1>5. CASE Down
  BY <1>1, <1>5 DEF Down
<1>6. CASE MainTask
  BY <1>6, HideMainTask
<1>7. CASE \E r \in Requests : Request(r)
  BY <1>7, HideRequest
<1>8. CASE ListNext \/ ListDone \/ FindNext \/ FindNothing
  BY <1>8, HideListNext, HideListDone, HideFindNext, HideFindNothing
<1>9. CASE SendHeaders \/ StartBody \/ SendChunk \/ ChunkFails \/ BodySent
  BY <1>9, HideSending
<1>10. QED
  BY <1>1, <1>2, <1>3, <1>4, <1>5, <1>6, <1>7, <1>8, <1>9 DEF HttpNext, Answer

\* list_captures() and get_capture_bytes() while captures are opened and evicted, the array
\* in its place: at most one file hidden for each evicted, none by an opening.
THEOREM FewHidden == HttpSpec => []EvictionsHideFew
<1>1. HttpInit => HideInv
  BY DEF HttpInit, Waiting, HideInv
<1>2. CapInv /\ http \in Replies /\ HideInv => EvictionsHideFew
  <2> SUFFICES ASSUME CapInv, http \in Replies, HideInv, http.pc = "reply", ~http.lost
               PROVE  EvictionsHideFew
    BY DEF EvictionsHideFew
  <2> DEFINE listed == {http.entries[i].name : i \in DOMAIN http.entries}
             named == {KeyName(k) : k \in Unlisted}
             f == [k \in Unlisted |-> KeyName(k)]
  <2>1. /\ Base \in Nat /\ Len(store.files) \in Nat /\ store \in Stores
        /\ \A i \in 1 .. Len(store.files) : NameOf(store.files[i]) = KeyName(Base + i)
    BY StoredKeys, NamesHaveTypes
  <2>2. ASSUME NEW name \in StoredThroughout
        PROVE  \E k \in Base + 1 .. 2 * http.newest : name = KeyName(k)
    <3>1. name \in Range(Stored(store.files)) /\ name.seq <= http.newest
      BY DEF StoredThroughout
    <3>2. PICK i \in 1 .. Len(store.files) : name = NameOf(store.files[i])
      BY <2>1, <3>1, NameIsStored
    <3>3. name = KeyName(Base + i)
      BY <2>1, <3>2
    <3>4. Base + i \in Nat /\ http.newest \in Nat /\ Base + i >= Base + 1
      BY <2>1, SMT DEF Replies
    <3>5. Base + i <= 2 * http.newest
      BY <3>1, <3>3, <3>4, KeyNames
    <3>6. Base + i \in Base + 1 .. 2 * http.newest
      BY <2>1, <3>4, <3>5, SMT
    <3>7. QED BY <3>3, <3>6
  <2>3. ASSUME http.status = 200, http.want = NoName
        PROVE  Cardinality(StoredThroughout \ listed) <= http.evicted
    <3>1. StoredThroughout \ listed \subseteq named
      BY <2>2 DEF Unlisted
    <3>2. f \in Surjection(Unlisted, named)
      BY DEF Surjection
    <3> DEFINE S == Unlisted
               U == StoredThroughout \ listed
               e == http.evicted
    <3>3. IsFiniteSet(S) /\ Cardinality(S) \in Nat /\ Cardinality(S) <= e /\ e \in Nat
      BY <2>3, UnlistedIsFinite DEF HideInv, Replies
    <3>4. f \in Surjection(S, named) /\ U \in SUBSET named
      BY <3>1, <3>2
    <3> HIDE DEF S, U, e, f, named
    <3>5. IsFiniteSet(named) /\ Cardinality(named) <= Cardinality(S)
      BY <3>3, <3>4, FS_Surjection
    <3>6. IsFiniteSet(U) /\ Cardinality(U) <= Cardinality(named)
      BY <3>4, <3>5, FS_Subset
    <3>7. Cardinality(named) \in Nat /\ Cardinality(U) \in Nat
      BY <3>5, <3>6, FS_CardinalityType
    <3>8. Cardinality(U) <= e
      BY <3>3, <3>5, <3>6, <3>7, SMT
    <3>9. QED BY <3>8 DEF U, e
  <2>4. ASSUME http.status = 404, IsSafe(http.want), http.want \in StoredThroughout
        PROVE  http.evicted > 0
    <3>1. http.evicted # 0
      BY <2>2, <2>4 DEF HideInv
    <3>2. QED BY <3>1, SMT DEF Replies
  <2>5. QED BY <2>3, <2>4 DEF EvictionsHideFew
<1>3. CapInv /\ http \in Replies /\ HideInv /\ [HttpNext]_httpVars => HideInv'
  BY HideStep
<1>4. QED BY <1>1, <1>2, <1>3, HttpInvariant, PTL DEF HttpSpec
=============================================================================
