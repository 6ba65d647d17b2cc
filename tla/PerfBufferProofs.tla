-------------------------- MODULE PerfBufferProofs --------------------------
(***************************************************************************)
(* Theorems about PerfBuffer, for every size of the data pages, every set  *)
(* of payload sizes and every number of samples.                           *)
(***************************************************************************)
EXTENDS PerfBuffer, SequenceTheorems, TLAPS

-----------------------------------------------------------------------------
(* The inductive invariant *)

Record == [pos : Nat, kind : {"sample", "lost"}, len : Nat]

Types ==
  /\ log \in Seq(Record)
  /\ outputs \in 0 .. MaxSamples /\ lost \in 0 .. outputs
  /\ written \in Nat /\ dataHead \in Nat /\ dataTail \in Nat
  /\ wakeup \in BOOLEAN /\ ready \in BOOLEAN
  /\ pc \in {"polling", "ready", "folding", "calling"}
  /\ limit \in Nat /\ tail \in Nat
  /\ seen \in 0 .. Len(log)

\* Where record i starts, or will start.
Start(i) == IF i \in DOMAIN log THEN log[i].pos ELSE written
Starts == 1 .. Len(log) + 1

\* The records follow one another without a gap.
Contiguous ==
  /\ Start(1) = 0
  /\ \A i \in DOMAIN log : Start(i + 1) = log[i].pos + RecordSize(log[i])
  /\ \A i, j \in Starts : i < j => Start(i) < Start(j)

\* What the kernel wrote and the reader has not released fits in the data pages.
Window == dataTail <= written /\ written - dataTail <= Size - 1

\* Every position that is passed between the two sides is where a record starts. Between
\* two folds the released position is that of the next record; during one it lags behind.
Positions ==
  IF pc \in {"polling", "ready"}
  THEN /\ dataTail = Start(seen + 1)
       /\ \E h \in Starts : seen + 1 <= h /\ dataHead = Start(h)
  ELSE /\ tail = Start(seen + 1)
       /\ dataTail <= (IF pc = "calling" THEN Start(seen) ELSE tail)
       /\ \E k, h \in Starts :
            seen + 1 <= k /\ k <= h /\ limit = Start(k) /\ dataHead = Start(h)

\* The event that the callback is looking at is the last one seen.
EventRight ==
  IF pc = "calling"
  THEN /\ seen \in DOMAIN log
       /\ event = [kind |-> log[seen].kind, units |-> Written(log[seen])]
  ELSE event = NoEvent

IInv == Types /\ Contiguous /\ Window /\ Positions /\ EventRight

-----------------------------------------------------------------------------
(* Arithmetic of the data pages *)

USE SizesAssumption

\* What is left of a sum, one part of which is a multiple of Size.
LEMMA ModOfSum ==
  ASSUME NEW d \in 0 .. Size - 1, NEW c \in Int, NEW x \in Int, x = d + Size * c
  PROVE  x % Size = d
<1>1. x = Size * (x \div Size) + (x % Size) /\ x \div Size \in Int /\ x % Size \in 0 .. Size - 1
  OBVIOUS
<1> DEFINE e == c - (x \div Size)
<1>2. e \in Int /\ (x % Size) - d = Size * e
  BY <1>1
<1> HIDE DEF e
<1>3. CASE e <= -1
  <2>1. Size * e <= -Size
    BY <1>2, <1>3
  <2> QED
    BY <1>1, <1>2, <2>1
<1>4. CASE e >= 1
  <2>1. Size * e >= Size
    BY <1>2, <1>4
  <2> QED
    BY <1>1, <1>2, <2>1
<1>5. CASE e = 0
  BY <1>1, <1>2, <1>5
<1> QED
  BY <1>2, <1>3, <1>4, <1>5

\* A field at distance n from position p is at distance n from its offset.
LEMMA FieldOffset ==
  ASSUME NEW p \in Nat, NEW n \in Nat
  PROVE  /\ ((p % Size) + n) % Size \in 0 .. Size - 1
         /\ \E c \in Int : p + n = (((p % Size) + n) % Size) + Size * c
<1> DEFINE x == (p % Size) + n
<1>1. /\ p = Size * (p \div Size) + (p % Size) /\ p \div Size \in Int
      /\ p % Size \in 0 .. Size - 1
  OBVIOUS
<1>2. x \in Int
  BY <1>1
<1> HIDE DEF x
<1>3. x = Size * (x \div Size) + (x % Size) /\ x \div Size \in Int /\ x % Size \in 0 .. Size - 1
  BY <1>2
<1>0. PICK a \in Int, b \in Int : a = x \div Size /\ b = p \div Size
  BY <1>1, <1>3
<1> DEFINE c == a + b
<1>4. c \in Int /\ Size * c = Size * (x \div Size) + Size * (p \div Size)
  <2>1. Size * (a + b) = Size * a + Size * b
    OBVIOUS
  <2> QED
    BY <1>0, <2>1
<1>5. p + n = (x % Size) + Size * c
  BY <1>1, <1>3, <1>4 DEF x
<1> HIDE DEF c
<1> QED
  BY <1>3, <1>4, <1>5 DEF x

\* The position last written at an offset is the one less than Size behind the end.
LEMMA UnitInWindow ==
  ASSUME written \in Nat, NEW p \in Nat, p < written, written <= p + Size,
         NEW o \in Int, NEW c \in Int, p = o + Size * c
  PROVE  Unit(o) = p
<1>1. written - 1 - p \in 0 .. Size - 1 /\ written - 1 - o \in Int
  OBVIOUS
<1>2. written - 1 - o = (written - 1 - p) + Size * c
  <2>1. Size * c \in Int
    OBVIOUS
  <2> QED
    BY <2>1
<1>3. (written - 1 - o) % Size = written - 1 - p
  BY <1>1, <1>2, ModOfSum
<1> QED
  BY <1>3 DEF Unit

LEMMA UnitAt ==
  ASSUME written \in Nat, NEW p \in Nat, p < written, written <= p + Size
  PROVE  Unit(p % Size) = p
<1>1. p = Size * (p \div Size) + (p % Size) /\ p \div Size \in Int /\ p % Size \in Int
  OBVIOUS
<1>2. p = (p % Size) + Size * (p \div Size)
  <2>1. Size * (p \div Size) \in Int
    BY <1>1
  <2> QED
    BY <1>1, <2>1
<1> QED
  BY <1>1, <1>2, UnitInWindow

\* Sequences that count up.
LEMMA CountedUp ==
  ASSUME NEW q \in Int, NEW n \in Nat, NEW s \in Seq(Int), Len(s) = n,
         \A k \in 1 .. n : s[k] = q + k - 1
  PROVE  s = [k \in 1 .. n |-> q + k - 1]
<1>1. DOMAIN s = 1 .. n /\ s = [k \in DOMAIN s |-> s[k]]
  BY LenProperties
<1> QED
  BY <1>1

LEMMA UnitsFacts ==
  ASSUME written \in Nat, NEW o \in Int, NEW n \in Nat
  PROVE  /\ Units(o, n) \in Seq(Int) /\ Len(Units(o, n)) = n
         /\ \A k \in 1 .. n : Units(o, n)[k] = Unit(o + k - 1)
<1>1. \A i \in Int : Unit(i) \in Int
  BY DEF Unit
<1>2. Units(o, n) \in [1 .. n -> Int]
  BY <1>1 DEF Units
<1>3. Units(o, n) \in Seq(Int)
  BY <1>2, SeqDef
<1>4. DOMAIN Units(o, n) = 1 .. n
  BY DEF Units
<1>5. Len(Units(o, n)) \in Nat /\ 1 .. Len(Units(o, n)) = 1 .. n
  BY <1>3, <1>4, LenProperties
<1>6. Len(Units(o, n)) = n
  BY <1>5
<1> QED
  BY <1>3, <1>6 DEF Units

\* The slices hold the units of the positions from q on, also around the end of the pages.
LEMMA SlicesFacts ==
  ASSUME written \in Nat, NEW q \in Nat, NEW len \in Nat, NEW start \in 0 .. Size - 1,
         NEW c \in Int, q = start + Size * c,
         q + len <= written, written <= q + Size
  PROVE  Slices(start, len) = [k \in 1 .. len |-> q + k - 1]
<1>1. ASSUME NEW k \in 1 .. len PROVE Unit(start + k - 1) = q + k - 1
  <2>1. /\ q + k - 1 \in Nat /\ q + k - 1 < written /\ written <= (q + k - 1) + Size
        /\ start + k - 1 \in Int /\ q + k - 1 = (start + k - 1) + Size * c
    <3>1. Size * c \in Int
      OBVIOUS
    <3> QED
      BY <3>1
  <2> QED
    BY <2>1, UnitInWindow
<1>2. CASE start + len < Size
  <2>1. Slices(start, len) = Units(start, len)
    BY <1>2 DEF Slices
  <2>2. /\ Units(start, len) \in Seq(Int) /\ Len(Units(start, len)) = len
        /\ \A k \in 1 .. len : Units(start, len)[k] = Unit(start + k - 1)
    BY UnitsFacts
  <2>3. \A k \in 1 .. len : Units(start, len)[k] = q + k - 1
    BY <1>1, <2>2
  <2>4. PICK s \in Seq(Int) : s = Units(start, len)
    BY <2>2
  <2>5. s = [k \in 1 .. len |-> q + k - 1]
    BY <2>2, <2>3, <2>4, CountedUp
  <2> QED
    BY <2>1, <2>4, <2>5
<1>3. CASE start + len >= Size
  <2> DEFINE m == Size - start
             s == Units(start, m)
             u == Units(0, start + len - Size)
  <2>1. m \in Nat /\ start + len - Size \in Nat /\ start + len - Size = len - m
    BY <1>3
  <2>2. /\ s \in Seq(Int) /\ Len(s) = m /\ \A k \in 1 .. m : s[k] = Unit(start + k - 1)
        /\ u \in Seq(Int) /\ Len(u) = len - m /\ \A k \in 1 .. len - m : u[k] = Unit(0 + k - 1)
    <3>1. s \in Seq(Int) /\ Len(s) = m /\ \A k \in 1 .. m : s[k] = Unit(start + k - 1)
      <4>1. PICK l \in Nat : l = Size - start
        BY <2>1
      <4>2. /\ Units(start, l) \in Seq(Int) /\ Len(Units(start, l)) = l
            /\ \A k \in 1 .. l : Units(start, l)[k] = Unit(start + k - 1)
        BY UnitsFacts
      <4> QED
        BY <4>1, <4>2
    <3>2. PICK n \in Nat : n = start + len - Size
      BY <2>1
    <3>3. /\ Units(0, n) \in Seq(Int) /\ Len(Units(0, n)) = n
          /\ \A k \in 1 .. n : Units(0, n)[k] = Unit(0 + k - 1)
      BY UnitsFacts
    <3> QED
      BY <2>1, <3>1, <3>2, <3>3
  <2>3. \A k \in 1 .. m : k \in 1 .. len => s[k] = q + k - 1
    BY <1>1, <2>2
  <2>4. ASSUME NEW k \in 1 .. len - m PROVE u[k] = q + (k + m) - 1
    <3>1. c + 1 \in Int /\ Size * (c + 1) = Size * c + Size /\ Size * c \in Int
      OBVIOUS
    <3>2. /\ q + (k + m) - 1 \in Nat /\ q + (k + m) - 1 < written
          /\ written <= (q + (k + m) - 1) + Size
          /\ 0 + k - 1 \in Int
          /\ q + (k + m) - 1 = (0 + k - 1) + Size * (c + 1)
      BY <2>1, <3>1
    <3>3. Unit(0 + k - 1) = q + (k + m) - 1
      BY <3>1, <3>2, UnitInWindow
    <3> QED
      BY <2>2, <3>3
  <2>5. m <= len
    BY <1>3
  <2> HIDE DEF m, s, u
  <2>7. /\ s \o u \in Seq(Int) /\ Len(s \o u) = len
        /\ \A k \in 1 .. len : (s \o u)[k] = IF k <= m THEN s[k] ELSE u[k - m]
    <3>1. /\ s \o u \in Seq(Int) /\ Len(s \o u) = Len(s) + Len(u)
          /\ \A k \in 1 .. Len(s) + Len(u) :
               (s \o u)[k] = IF k <= Len(s) THEN s[k] ELSE u[k - Len(s)]
      BY <2>2, ConcatProperties
    <3>2. m + (len - m) = len
      BY <2>1
    <3> QED
      BY <2>2, <3>1, <3>2
  <2>8. \A k \in 1 .. len : (s \o u)[k] = q + k - 1
    <3>1. SUFFICES ASSUME NEW k \in 1 .. len PROVE (s \o u)[k] = q + k - 1
      OBVIOUS
    <3>2. CASE k <= m
      BY <2>1, <2>3, <2>7, <3>2
    <3>3. CASE k > m
      <4>1. k - m \in 1 .. len - m /\ (k - m) + m = k
        BY <2>1, <3>3
      <4> QED
        BY <2>1, <2>4, <2>7, <3>3, <4>1
    <3>4. k <= m \/ k > m
      BY <2>1
    <3> QED
      BY <3>2, <3>3, <3>4
  <2>9. s \o u = [k \in 1 .. len |-> q + k - 1]
    <3>1. PICK t \in Seq(Int) : t = s \o u
      BY <2>7
    <3>2. Len(t) = len /\ \A k \in 1 .. len : t[k] = q + k - 1
      BY <2>7, <2>8, <3>1
    <3>3. t = [k \in 1 .. len |-> q + k - 1]
      BY <3>2, CountedUp
    <3> QED
      BY <3>1, <3>3
  <2> QED
    BY <1>3, <2>9 DEF Slices, m, s, u
<1> QED
  BY <1>2, <1>3

-----------------------------------------------------------------------------
(* Facts about the records *)

LEMMA SampleLensAreNat == \A len \in SampleLens : len \in Nat
OBVIOUS

LEMMA RecordFacts ==
  ASSUME NEW r \in Record
  PROVE  /\ r.pos \in Nat /\ r.len \in Nat /\ r.kind \in {"sample", "lost"}
         /\ RecordSize(r) \in Nat /\ RecordSize(r) > 0
BY DEF Record, RecordSize, SampleSize

LEMMA LogFacts ==
  ASSUME Types
  PROVE  /\ Len(log) \in Nat /\ DOMAIN log = 1 .. Len(log)
         /\ \A i \in DOMAIN log : log[i] \in Record
         /\ Start(Len(log) + 1) = written
         /\ \A i \in Starts : Start(i) \in Nat
<1>1. /\ log \in Seq(Record) /\ Len(log) \in Nat /\ DOMAIN log = 1 .. Len(log) /\ written \in Nat
      /\ \A i \in DOMAIN log : log[i] \in Record
  BY DEF Types
<1>2. Len(log) + 1 \notin DOMAIN log
  BY <1>1
<1>3. \A i \in DOMAIN log : log[i].pos \in Nat
  BY <1>1 DEF Record
<1> QED
  BY <1>1, <1>2, <1>3 DEF Start, Starts

\* No record starts behind the end.
LEMMA StartsInOrder ==
  ASSUME Types, Contiguous
  PROVE  \A i \in Starts : Start(i) <= written
<1>1. \A i \in Starts : i = Len(log) + 1 \/ i < Len(log) + 1
  BY LogFacts DEF Starts
<1>2. Len(log) + 1 \in Starts
  BY LogFacts DEF Starts
<1> QED
  BY <1>1, <1>2, LogFacts DEF Contiguous

\* A record that the reader has not released is all there.
LEMMA RecordInWindow ==
  ASSUME Types, Contiguous, Window, NEW i \in DOMAIN log, dataTail <= log[i].pos
  PROVE  /\ log[i].pos + RecordSize(log[i]) <= written
         /\ written - log[i].pos <= Size - 1
<1>1. i + 1 \in Starts /\ Start(i + 1) = log[i].pos + RecordSize(log[i])
  BY LogFacts DEF Contiguous, Starts
<1>2. Start(i + 1) <= written
  BY <1>1, StartsInOrder
<1>3. log[i].pos \in Nat
  BY LogFacts, RecordFacts
<1> QED
  BY <1>1, <1>2, <1>3 DEF Window, Types

\* The reader finds the header of that record at its position, and of no other.
LEMMA HeaderFacts ==
  ASSUME Types, Contiguous, Window, NEW i \in DOMAIN log, dataTail <= log[i].pos,
         NEW j, IsHeader(Unit(log[i].pos % Size), j)
  PROVE  j = i
<1>1. log[i].pos \in Nat /\ written \in Nat /\ RecordSize(log[i]) \in Nat /\ RecordSize(log[i]) > 0
  BY LogFacts, RecordFacts DEF Types
<1>2. log[i].pos < written /\ written <= log[i].pos + Size
  BY <1>1, RecordInWindow
<1>3. Unit(log[i].pos % Size) = log[i].pos
  BY <1>1, <1>2, UnitAt
<1>4. j \in DOMAIN log /\ log[j].pos = log[i].pos
  BY <1>3 DEF IsHeader
<1>5. i \in Starts /\ j \in Starts /\ Start(i) = Start(j)
  BY <1>4, LogFacts DEF Start, Starts
<1>6. i \in Nat /\ j \in Nat /\ Start(i) \in Nat
  BY <1>4, <1>5, LogFacts
<1> QED
  BY <1>5, <1>6 DEF Contiguous

\* And what it reads there is what the kernel wrote.
LEMMA ParseFacts ==
  ASSUME Types, Contiguous, Window, NEW i \in DOMAIN log, dataTail <= log[i].pos
  PROVE  Parse(i, log[i].pos % Size) = [kind |-> log[i].kind, units |-> Written(log[i])]
<1> PICK p, len : p = log[i].pos /\ len = log[i].len
  OBVIOUS
<1>1. /\ p \in Nat /\ len \in Nat /\ written \in Nat /\ log[i].kind \in {"sample", "lost"}
      /\ p + RecordSize(log[i]) <= written /\ written - p <= Size - 1
  BY LogFacts, RecordFacts, RecordInWindow DEF Types
<1>2. CASE log[i].kind = "sample"
  <2>1. RecordSize(log[i]) = HdrSz + 1 + len
    BY <1>2 DEF RecordSize, SampleSize
  <2> PICK q \in Nat : q = p + (HdrSz + 1)
    BY <1>1
  <2>2. q + len <= written /\ written <= q + Size
    BY <1>1, <2>1
  <2>3. PICK n \in Nat : n = HdrSz + 1
    OBVIOUS
  <2>4. PICK start \in 0 .. Size - 1, c \in Int :
          start = ((p % Size) + n) % Size /\ p + n = start + Size * c
    <3>1. p \in Nat
      BY <1>1
    <3>2. /\ ((p % Size) + n) % Size \in 0 .. Size - 1
          /\ \E c \in Int : p + n = (((p % Size) + n) % Size) + Size * c
      BY <3>1, FieldOffset
    <3> QED
      BY <3>2
  <2>5. Slices(start, len) = [k \in 1 .. len |-> q + k - 1]
    <3>1. q = start + Size * c
      BY <2>3, <2>4
    <3> QED
      <4>1. written \in Nat /\ len \in Nat
        BY <1>1
      <4> HIDE SizesAssumption
      <4> QED
        BY <2>2, <3>1, <4>1, SlicesFacts
  <2>6. \A k \in 1 .. len : q + k - 1 = p + HdrSz + k
    BY <1>1
  <2>7. Slices(start, len) = Written(log[i])
    BY <1>2, <2>5, <2>6 DEF Written
  <2>8. start = ((p % Size) + HdrSz + 1) % Size
    <3>1. p % Size \in Int
      BY <1>1
    <3>2. (p % Size) + n = (p % Size) + HdrSz + 1
      BY <2>3, <3>1
    <3> QED
      BY <2>4, <3>2
  <2> QED
    BY <1>2, <2>7, <2>8 DEF Parse
<1>3. CASE log[i].kind = "lost"
  <2>1. RecordSize(log[i]) = LostSz
    BY <1>3 DEF RecordSize
  <2> PICK q \in Nat : q = p + (LostSz - 2)
    BY <1>1
  <2>2. q < written /\ written <= q + Size
    BY <1>1, <2>1
  <2>3. PICK n \in Nat : n = LostSz - 2
    OBVIOUS
  <2>4. PICK start \in 0 .. Size - 1, c \in Int :
          start = ((p % Size) + n) % Size /\ p + n = start + Size * c
    <3>1. p \in Nat
      BY <1>1
    <3>2. /\ ((p % Size) + n) % Size \in 0 .. Size - 1
          /\ \E c \in Int : p + n = (((p % Size) + n) % Size) + Size * c
      BY <3>1, FieldOffset
    <3> QED
      BY <3>2
  <2>5. Unit(start) = q
    <3>1. q = start + Size * c
      BY <2>3, <2>4
    <3>2. written \in Nat /\ start \in Int /\ c \in Int
      BY <1>1, <2>4 DEF Types
    <3> QED
      BY <2>2, <3>1, <3>2, UnitInWindow, Zenon
  <2>6. start = ((p % Size) + LostSz - 2) % Size /\ q = p + LostSz - 2
    <3>1. p % Size \in Int
      BY <1>1
    <3>2. (p % Size) + n = (p % Size) + LostSz - 2
      BY <2>3, <3>1
    <3> QED
      BY <1>1, <2>4, <3>2
  <2> QED
    BY <1>3, <2>5, <2>6 DEF Parse, Written
<1> QED
  BY <1>1, <1>2, <1>3

\* The units of that record are in the data pages.
LEMMA WrittenFacts ==
  ASSUME Types, Contiguous, Window, NEW i \in DOMAIN log, dataTail <= log[i].pos
  PROVE  LET units == Written(log[i]) IN
           \A k \in DOMAIN units : units[k] \in Nat /\ Unit(units[k] % Size) = units[k]
<1> DEFINE units == Written(log[i])
<1>1. /\ log[i].pos \in Nat /\ log[i].len \in Nat /\ written \in Nat
      /\ log[i].kind \in {"sample", "lost"}
      /\ log[i].pos + RecordSize(log[i]) <= written /\ written - log[i].pos <= Size - 1
  BY LogFacts, RecordFacts, RecordInWindow DEF Types
<1>2. ASSUME NEW k \in DOMAIN units
      PROVE  units[k] \in Nat /\ units[k] < written /\ written <= units[k] + Size
  <2>1. CASE log[i].kind = "sample"
    <3>1. k \in 1 .. log[i].len /\ units[k] = log[i].pos + HdrSz + k
      BY <2>1 DEF Written
    <3> QED
      BY <1>1, <2>1, <3>1 DEF RecordSize, SampleSize
  <2>2. CASE log[i].kind = "lost"
    <3>1. units[k] = log[i].pos + LostSz - 2
      BY <2>2 DEF Written
    <3> QED
      BY <1>1, <2>2, <3>1 DEF RecordSize
  <2> QED
    BY <1>1, <2>1, <2>2
<1>3. ASSUME NEW k \in DOMAIN units PROVE units[k] \in Nat /\ Unit(units[k] % Size) = units[k]
  <2>1. PICK p : p = units[k]
    OBVIOUS
  <2>2. p \in Nat /\ p < written /\ written <= p + Size
    BY <1>2, <1>3, <2>1
  <2>3. Unit(p % Size) = p
    BY <1>1, <2>2, UnitAt
  <2> QED
    BY <2>1, <2>2, <2>3
<1> QED
  BY <1>3

-----------------------------------------------------------------------------
(* The initial states *)

LEMMA InitInvariant == Init => IInv
<1> SUFFICES ASSUME Init PROVE IInv
  OBVIOUS
<1>0. log = <<>> /\ log \in Seq(Record) /\ Len(log) = 0
  BY DEF Init
<1>1. Types
  <2>1. seen \in 0 .. Len(log) /\ lost \in 0 .. outputs /\ outputs \in 0 .. MaxSamples
    BY <1>0 DEF Init
  <2> QED
    BY <1>0, <2>1 DEF Init, Types
<1>2. Starts = {1} /\ DOMAIN log = {} /\ Start(1) = 0
  BY DEF Init, Starts, Start
<1>3. Contiguous
  BY <1>2 DEF Contiguous
<1> QED
  BY <1>1, <1>2, <1>3 DEF Init, IInv, Window, Positions, EventRight

-----------------------------------------------------------------------------
(* The steps of the kernel *)

\* The indices of a sequence that one or two elements are appended to.
LEMMA NewIndices ==
  ASSUME NEW n \in Nat, NEW m \in Nat, m = 1 \/ m = 2
  PROVE  /\ n + 1 \notin 1 .. n /\ n + 1 \in 1 .. n + m
         /\ m = 1 => n + 2 \notin 1 .. n + m
         /\ m = 2 => n + 2 \in 1 .. n + m /\ n + 3 \notin 1 .. n + m
         /\ \A i \in 1 .. n + m : i \in 1 .. n \/ i = n + 1 \/ (m = 2 /\ i = n + 2)
         /\ \A i \in 1 .. n + m + 1 : i \in 1 .. n + 1 \/ i = n + 2 \/ (m = 2 /\ i = n + 3)
<1>1. CASE m = 1
  BY <1>1
<1>2. CASE m = 2
  BY <1>2
<1> QED
  BY <1>1, <1>2

\* One or two records are appended at the end.
LEMMA LogGrows ==
  ASSUME Types, Contiguous, written' \in Nat,
         NEW s \in Seq(Record), log' = log \o s, Len(s) \in {1, 2}, s[1].pos = written,
         Len(s) = 1 => written' = s[1].pos + RecordSize(s[1]),
         Len(s) = 2 => /\ s[2].pos = s[1].pos + RecordSize(s[1])
                       /\ written' = s[2].pos + RecordSize(s[2])
  PROVE  /\ log' \in Seq(Record) /\ Contiguous'
         /\ Len(log) <= Len(log')
         /\ \A i \in DOMAIN log : i \in DOMAIN log' /\ log'[i] = log[i]
         /\ \A i \in Starts : i \in Starts' /\ Start(i)' = Start(i)
<1> PICK n \in Nat, m \in Nat : n = Len(log) /\ m = Len(s) /\ (m = 1 \/ m = 2)
  <2>1. Len(s) \in Nat /\ Len(log) \in Nat
    BY LogFacts
  <2> QED
    BY <2>1
<1>1. log \in Seq(Record) /\ written \in Nat
  BY DEF Types
<1>2. /\ log' \in Seq(Record) /\ Len(log') = n + m
      /\ \A i \in 1 .. n + m : log'[i] = IF i <= n THEN log[i] ELSE s[i - n]
  BY <1>1, ConcatProperties
<1>3. /\ DOMAIN log = 1 .. n /\ DOMAIN log' = 1 .. n + m
      /\ Starts = 1 .. n + 1 /\ Starts' = 1 .. n + m + 1
  BY <1>1, <1>2 DEF Starts
<1>4. \A i \in DOMAIN log : i \in DOMAIN log' /\ log'[i] = log[i]
  BY <1>2, <1>3
<1>5. log'[n + 1] = s[1] /\ (m = 2 => log'[n + 2] = s[2])
  BY <1>2
<1>6. /\ \A i \in 1 .. n : Start(i)' = Start(i)
      /\ Start(n + 1) = written /\ Start(n + 1)' = written
      /\ m = 1 => Start(n + 2)' = written'
      /\ m = 2 => Start(n + 2)' = s[2].pos /\ Start(n + 3)' = written'
  <2>1. /\ n + 1 \notin DOMAIN log /\ n + 1 \in DOMAIN log'
        /\ m = 1 => n + 2 \notin DOMAIN log'
        /\ m = 2 => n + 2 \in DOMAIN log' /\ n + 3 \notin DOMAIN log'
    BY <1>3, NewIndices, SMTT(30)
  <2>2. \A i \in 1 .. n : Start(i)' = Start(i)
    <3>1. ASSUME NEW i \in 1 .. n PROVE Start(i)' = Start(i)
      <4>1. i \in DOMAIN log /\ i \in DOMAIN log' /\ log'[i] = log[i]
        BY <1>3, <1>4, <3>1, Zenon
      <4> QED
        BY <4>1, Zenon DEF Start
    <3> QED
      BY <3>1, Zenon
  <2>3. Start(n + 1) = written /\ Start(n + 1)' = written
    BY <1>5, <2>1 DEF Start
  <2>4. m = 1 => Start(n + 2)' = written'
    BY <2>1 DEF Start
  <2>5. m = 2 => Start(n + 2)' = s[2].pos /\ Start(n + 3)' = written'
    BY <1>5, <2>1 DEF Start
  <2> QED
    BY <2>2, <2>3, <2>4, <2>5
<1>7. \A i \in Starts : i \in Starts' /\ Start(i)' = Start(i)
  <2>1. \A i \in Starts : i \in 1 .. n \/ i = n + 1
    BY <1>3
  <2> QED
    BY <1>3, <1>6, <2>1
<1>8. /\ 1 \in DOMAIN s /\ s[1] \in Record /\ RecordSize(s[1]) \in Nat /\ RecordSize(s[1]) > 0
      /\ m = 2 => s[2] \in Record /\ RecordSize(s[2]) \in Nat /\ RecordSize(s[2]) > 0
  BY RecordFacts
<1>9. Start(1)' = 0
  BY <1>3, <1>7 DEF Contiguous
<1>10. ASSUME NEW i \in DOMAIN log' PROVE Start(i + 1)' = log'[i].pos + RecordSize(log'[i])
  <2>1. CASE i \in 1 .. n
    <3>1. i + 1 \in Starts /\ Start(i + 1) = log[i].pos + RecordSize(log[i])
      BY <1>3, <2>1 DEF Contiguous
    <3>2. Start(i + 1)' = Start(i + 1)
      BY <1>7, <3>1
    <3> QED
      BY <1>3, <1>4, <2>1, <3>1, <3>2
  <2>2. CASE i = n + 1
    <3>1. i + 1 = n + 2
      BY <2>2
    <3> QED
      BY <1>5, <1>6, <2>2, <3>1
  <2>3. CASE m = 2 /\ i = n + 2
    <3>1. i + 1 = n + 3
      BY <2>3
    <3> QED
      BY <1>5, <1>6, <2>3, <3>1
  <2>4. i \in 1 .. n \/ i = n + 1 \/ (m = 2 /\ i = n + 2)
    <3>1. \A k \in 1 .. n + m : k \in 1 .. n \/ k = n + 1 \/ (m = 2 /\ k = n + 2)
      BY NewIndices
    <3> QED
      BY <1>3, <1>10, <3>1
  <2> QED
    BY <2>1, <2>2, <2>3, <2>4
<1>11. ASSUME NEW i \in Starts', NEW j \in Starts', i < j PROVE Start(i)' < Start(j)'
  <2>1. \A k \in 1 .. n + 1 : Start(k)' = Start(k) /\ Start(k) <= written /\ Start(k) \in Nat
    BY <1>3, <1>7, StartsInOrder, LogFacts
  <2>2. CASE j \in 1 .. n + 1
    <3>1. i \in 1 .. n + 1 /\ j \in 1 .. n + 1
      BY <1>3, <1>11, <2>2
    <3>2. Start(i) < Start(j)
      BY <1>3, <1>11, <3>1 DEF Contiguous
    <3> QED
      BY <2>1, <3>1, <3>2
  <2>3. CASE j = n + 2
    <3>1. i \in 1 .. n + 1 /\ Start(i)' <= written /\ Start(i)' \in Nat
      BY <1>3, <1>11, <2>1, <2>3
    <3>2. Start(j)' = written + RecordSize(s[1])
      BY <1>6, <2>3
    <3> QED
      BY <1>1, <1>8, <3>1, <3>2
  <2>4. CASE m = 2 /\ j = n + 3
    <3>1. Start(j)' = written + RecordSize(s[1]) + RecordSize(s[2])
      BY <1>6, <2>4
    <3>2. CASE i = n + 2
      <4>1. Start(i)' = written + RecordSize(s[1])
        BY <1>6, <2>4, <3>2
      <4> QED
        BY <1>1, <1>8, <2>4, <3>1, <4>1
    <3>3. CASE i \in 1 .. n + 1
      <4>1. Start(i)' <= written /\ Start(i)' \in Nat
        BY <2>1, <3>3
      <4> QED
        BY <1>1, <1>8, <2>4, <3>1, <4>1
    <3>4. i = n + 2 \/ i \in 1 .. n + 1
      BY <1>3, <1>11, <2>4
    <3> QED
      BY <3>2, <3>3, <3>4
  <2>5. j \in 1 .. n + 1 \/ j = n + 2 \/ (m = 2 /\ j = n + 3)
    <3>1. \A k \in 1 .. n + m + 1 : k \in 1 .. n + 1 \/ k = n + 2 \/ (m = 2 /\ k = n + 3)
      BY NewIndices
    <3> QED
      BY <1>3, <1>11, <3>1
  <2> QED
    BY <2>2, <2>3, <2>4, <2>5
<1> QED
  BY <1>2, <1>4, <1>7, <1>9, <1>10, <1>11 DEF Contiguous

\* The kernel writes what is due, or counts the sample as lost.
LEMMA OutputStep ==
  ASSUME IInv, NEW len \in SampleLens, Output(len)
  PROVE  IInv'
<1>1. /\ outputs < MaxSamples /\ outputs' = outputs + 1
      /\ UNCHANGED <<dataHead, wakeup, dataTail, ready, pc, limit, tail, event, seen>>
      /\ len \in Nat /\ written \in Nat /\ lost \in 0 .. outputs /\ outputs \in Nat
  BY DEF IInv, Types, Output, foldVars
<1>2. CASE HasSpace(DueSize(len))
  <2> DEFINE s == Due(len)
  <2>1. /\ s \in Seq(Record) /\ Len(s) \in {1, 2} /\ s[1].pos = written
        /\ Len(s) = 1 => s[1].pos + RecordSize(s[1]) = written + DueSize(len)
        /\ Len(s) = 2 => /\ s[2].pos = s[1].pos + RecordSize(s[1])
                         /\ s[2].pos + RecordSize(s[2]) = written + DueSize(len)
    <3>1. CASE lost = 0
      <4>1. [pos |-> written, kind |-> "sample", len |-> len] \in Record
        BY <1>1 DEF Record
      <4> QED
        BY <1>1, <3>1, <4>1 DEF Due, DueSize, RecordSize, SampleSize
    <3>2. CASE lost # 0
      <4>1. /\ [pos |-> written, kind |-> "lost", len |-> lost] \in Record
            /\ [pos |-> written + LostSz, kind |-> "sample", len |-> len] \in Record
        BY <1>1 DEF Record
      <4> QED
        BY <1>1, <3>2, <4>1 DEF Due, DueSize, RecordSize, SampleSize
    <3> QED
      BY <3>1, <3>2
  <2>2. log' = log \o s /\ written' = written + DueSize(len) /\ lost' = 0
    BY <1>2 DEF Output
  <2>3. DueSize(len) \in Nat
    BY <1>1 DEF DueSize, SampleSize
  <2> HIDE DEF s
  <2>4. /\ log' \in Seq(Record) /\ Contiguous'
        /\ Len(log) <= Len(log')
        /\ \A i \in DOMAIN log : i \in DOMAIN log' /\ log'[i] = log[i]
        /\ \A i \in Starts : i \in Starts' /\ Start(i)' = Start(i)
    <3>1. written' \in Nat
      BY <1>1, <2>2, <2>3
    <3> QED
      BY <2>1, <2>2, <3>1, LogGrows DEF IInv
  <2>5. Types'
    <3>1. seen' \in 0 .. Len(log')
      <4>1. Len(log) \in Nat /\ Len(log') \in Nat
        BY <2>4 DEF IInv, Types
      <4> QED
        BY <1>1, <2>4, <4>1 DEF IInv, Types
    <3>2. outputs' \in 0 .. MaxSamples /\ lost' \in 0 .. outputs' /\ written' \in Nat
      BY <1>1, <2>2, <2>3
    <3> QED
      BY <1>1, <2>4, <3>1, <3>2 DEF IInv, Types
  <2>6. Window'
    BY <1>1, <1>2, <2>2, <2>3 DEF IInv, Types, Window, HasSpace
  <2>7. /\ seen + 1 \in Starts /\ (pc = "calling" => seen \in Starts)
    BY LogFacts DEF IInv, Types, EventRight, Starts
  <2>8. Positions'
    BY <1>1, <2>4, <2>7 DEF IInv, Positions
  <2>9. EventRight'
    BY <1>1, <2>4 DEF IInv, EventRight, Written
  <2> QED
    BY <2>4, <2>5, <2>6, <2>8, <2>9 DEF IInv
<1>3. CASE ~HasSpace(DueSize(len))
  <2>1. lost' = lost + 1 /\ UNCHANGED <<log, written>>
    BY <1>3 DEF Output
  <2>2. Types'
    BY <1>1, <2>1 DEF IInv, Types
  <2> QED
    BY <1>1, <2>1, <2>2 DEF IInv, Contiguous, Start, Starts, Window, Positions, EventRight, Written
<1> QED
  BY <1>2, <1>3

LEMMA PublishStep ==
  ASSUME IInv, Publish
  PROVE  IInv'
<1>1. /\ dataHead' = written /\ wakeup' = TRUE
      /\ UNCHANGED <<log, outputs, lost, written, dataTail, ready, pc, limit, tail, event, seen>>
  BY DEF Publish, foldVars
<1>2. Types'
  BY <1>1 DEF IInv, Types
<1>3. /\ Contiguous' /\ Window' /\ EventRight'
  BY <1>1 DEF IInv, Contiguous, Start, Starts, Window, EventRight, Written
<1>4. PICK h \in Starts : h = Len(log) + 1 /\ Start(h) = written
  BY LogFacts DEF IInv, Starts
<1>5. \A k \in Starts : k <= h
  BY <1>4, LogFacts DEF IInv, Starts
<1>6. seen + 1 \in Starts
  BY LogFacts DEF IInv, Types, Starts
<1>7. /\ Starts' = Starts /\ \A i \in Starts : Start(i)' = Start(i)
      /\ Start(seen + 1)' = Start(seen + 1) /\ Start(seen)' = Start(seen)
  BY <1>1 DEF Starts, Start
<1>8. Positions'
  <2>1. CASE pc \in {"polling", "ready"}
    BY <1>1, <1>4, <1>5, <1>6, <1>7, <2>1 DEF IInv, Positions
  <2>2. CASE pc \notin {"polling", "ready"}
    <3>1. PICK k \in Starts : seen + 1 <= k /\ limit = Start(k)
      BY <2>2 DEF IInv, Positions
    <3> QED
      BY <1>1, <1>4, <1>5, <1>7, <2>2, <3>1 DEF IInv, Positions
  <2> QED
    BY <2>1, <2>2
<1> QED
  BY <1>2, <1>3, <1>8 DEF IInv


LEMMA WakeReaderStep ==
  ASSUME IInv, WakeReader
  PROVE  IInv'
<1>1. /\ wakeup' = FALSE /\ ready' = TRUE
      /\ UNCHANGED <<log, outputs, lost, written, dataHead, dataTail, pc, limit, tail, event, seen>>
  BY DEF WakeReader, foldVars
<1>2. Types'
  BY <1>1 DEF IInv, Types
<1> QED
  BY <1>1, <1>2 DEF IInv, Contiguous, Start, Starts, Window, Positions, EventRight, Written

-----------------------------------------------------------------------------
(* The steps of the reader *)

\* None of them changes what the kernel wrote.
LEMMA LogKept ==
  ASSUME IInv, UNCHANGED kernelVars
  PROVE  /\ UNCHANGED <<log, outputs, lost, written, dataHead, wakeup>>
         /\ Contiguous' /\ Starts' = Starts /\ \A i \in Starts : Start(i)' = Start(i)
<1>1. UNCHANGED <<log, outputs, lost, written, dataHead, wakeup>>
  BY DEF kernelVars
<1> QED
  BY <1>1 DEF IInv, Contiguous, Start, Starts

LEMMA WakeStep ==
  ASSUME IInv, Wake
  PROVE  IInv'
<1>1. /\ pc = "polling" /\ pc' = "ready" /\ ready' = FALSE /\ UNCHANGED kernelVars
      /\ UNCHANGED <<dataTail, limit, tail, event, seen>>
  BY DEF Wake, foldVars
<1>2. /\ UNCHANGED <<log, outputs, lost, written, dataHead, wakeup>>
      /\ Contiguous'
  BY <1>1, LogKept
<1>3. Types'
  BY <1>1, <1>2 DEF IInv, Types
<1> QED
  BY <1>1, <1>2, <1>3 DEF IInv, Window, Positions, Start, Starts, EventRight

\* The fold takes the positions as they are now.
LEMMA BeginStep ==
  ASSUME IInv, Begin
  PROVE  IInv'
<1>1. /\ pc = "ready" /\ pc' = "folding" /\ limit' = dataHead /\ tail' = dataTail
      /\ UNCHANGED kernelVars /\ UNCHANGED <<dataTail, ready, event, seen>>
  BY DEF Begin
<1>2. /\ UNCHANGED <<log, outputs, lost, written, dataHead, wakeup>>
      /\ Contiguous' /\ Starts' = Starts /\ \A i \in Starts : Start(i)' = Start(i)
  BY <1>1, LogKept
<1>3. Types'
  BY <1>1, <1>2 DEF IInv, Types
<1>4. Window' /\ EventRight'
  BY <1>1, <1>2 DEF IInv, Window, EventRight
<1>5. Positions'
  <2>1. /\ dataTail = Start(seen + 1) /\ seen + 1 \in Starts /\ dataTail \in Nat
        /\ \E h \in Starts : seen + 1 <= h /\ dataHead = Start(h)
    BY <1>1, LogFacts DEF IInv, Types, Positions, Starts
  <2>2. PICK n \in Starts : n = seen + 1
    BY <2>1
  <2>3. PICK h \in Starts : n <= h /\ dataHead = Start(h)
    BY <2>1, <2>2
  <2>4. tail' = Start(n)' /\ dataTail' <= tail'
    BY <1>1, <1>2, <2>1, <2>2
  <2>5. /\ h \in Starts' /\ seen' + 1 <= h /\ h <= h
        /\ limit' = Start(h)' /\ dataHead' = Start(h)'
    <3>1. h \in Nat
      BY LogFacts DEF IInv, Starts
    <3> QED
      BY <1>1, <1>2, <2>2, <2>3, <3>1
  <2>6. seen' + 1 = n
    BY <1>1, <2>2
  <2> QED
    BY <1>1, <2>4, <2>5, <2>6 DEF Positions
<1> QED
  BY <1>2, <1>3, <1>4, <1>5 DEF IInv

\* Behind the position is a record, and the callback is given what it holds.
LEMMA NextEventStep ==
  ASSUME IInv, NextEvent
  PROVE  IInv'
<1>1. /\ pc = "folding" /\ tail # limit /\ pc' = "calling" /\ seen' = seen + 1
      /\ UNCHANGED kernelVars /\ UNCHANGED <<dataTail, ready, limit>>
  BY DEF NextEvent
<1>2. /\ UNCHANGED <<log, outputs, lost, written, dataHead, wakeup>>
      /\ Contiguous' /\ Starts' = Starts /\ \A i \in Starts : Start(i)' = Start(i)
  BY <1>1, LogKept
<1>3. PICK n : n = seen + 1
  OBVIOUS
<1>4. /\ n \in Nat /\ n >= 1 /\ n \in Starts /\ tail = Start(n) /\ dataTail <= tail
  BY <1>1, <1>3, LogFacts DEF IInv, Types, Positions, Starts
<1>5. PICK k \in Starts, h \in Starts :
        n <= k /\ k <= h /\ limit = Start(k) /\ dataHead = Start(h)
  BY <1>1, <1>3 DEF IInv, Positions
<1>6. n < k
  <2>1. n # k
    BY <1>1, <1>4, <1>5
  <2>2. k \in Nat
    BY LogFacts DEF IInv, Starts
  <2> QED
    BY <1>4, <1>5, <2>1, <2>2
<1>7. n \in DOMAIN log /\ n + 1 \in Starts /\ n + 1 <= k
  BY <1>4, <1>6, LogFacts DEF IInv, Starts
<1>8. tail = log[n].pos /\ Start(n + 1) = tail + RecordSize(log[n]) /\ dataTail <= log[n].pos
  BY <1>4, <1>7 DEF IInv, Start, Contiguous
<1>9. PICK i \in DOMAIN log :
        /\ IsHeader(Unit(tail % Size), i)
        /\ tail' = tail + RecordSize(log[i])
        /\ event' = Parse(i, tail % Size)
  BY DEF NextEvent
<1>10. i = n
  BY <1>7, <1>8, <1>9, HeaderFacts DEF IInv
<1>11. event' = [kind |-> log[n].kind, units |-> Written(log[n])] /\ tail' = Start(n + 1)
  BY <1>7, <1>8, <1>9, <1>10, ParseFacts DEF IInv
<1>12. Types'
  <2>1. seen' \in 0 .. Len(log') /\ tail' \in Nat
    BY <1>1, <1>2, <1>3, <1>4, <1>7, <1>11, LogFacts DEF IInv
  <2> QED
    BY <1>1, <1>2, <2>1 DEF IInv, Types
<1>13. Window'
  BY <1>1, <1>2 DEF IInv, Window
<1>14. EventRight'
  BY <1>1, <1>2, <1>3, <1>7, <1>11 DEF EventRight, Written
<1>15. Positions'
  <2>1. tail' = Start(n + 1)' /\ Start(n)' = Start(n)
    BY <1>2, <1>4, <1>7, <1>11
  <2>2. dataTail' <= Start(n)'
    BY <1>1, <1>4, <2>1
  <2>3. k \in Starts' /\ h \in Starts' /\ limit' = Start(k)' /\ dataHead' = Start(h)'
    BY <1>1, <1>2, <1>5
  <2>4. seen' = n /\ seen' + 1 = n + 1
    BY <1>1, <1>3
  <2> QED
    BY <1>1, <1>5, <1>7, <2>1, <2>2, <2>3, <2>4 DEF Positions
<1> QED
  BY <1>2, <1>12, <1>13, <1>14, <1>15 DEF IInv

\* Released or not, the local position is where the next record starts.
LEMMA ContinueStep ==
  ASSUME IInv, Continue
  PROVE  IInv'
<1>1. /\ pc = "calling" /\ pc' = "folding" /\ event' = NoEvent
      /\ UNCHANGED kernelVars /\ UNCHANGED <<dataTail, ready, limit, tail, seen>>
  BY DEF Continue
<1>2. /\ UNCHANGED <<log, outputs, lost, written, dataHead, wakeup>>
      /\ Contiguous' /\ Starts' = Starts /\ \A i \in Starts : Start(i)' = Start(i)
  BY <1>1, LogKept
<1>3. Types'
  BY <1>1, <1>2 DEF IInv, Types
<1>4. Window' /\ EventRight'
  BY <1>1, <1>2 DEF IInv, Window, EventRight
<1>5. dataTail <= tail
  <2>1. PICK n : n = seen
    OBVIOUS
  <2>2. n \in Starts /\ n + 1 \in Starts /\ n < n + 1 /\ tail = Start(n + 1) /\ dataTail <= Start(n)
    BY <1>1, <2>1, LogFacts DEF IInv, Positions, EventRight, Starts
  <2>3. Start(n) < Start(n + 1) /\ Start(n) \in Nat /\ Start(n + 1) \in Nat /\ dataTail \in Nat
    BY <2>2, LogFacts DEF IInv, Contiguous, Types
  <2> QED
    BY <2>2, <2>3
<1>6. Positions'
  <2>1. PICK n \in Starts : n = seen + 1
    BY LogFacts DEF IInv, Types, Starts
  <2>2. PICK k \in Starts, h \in Starts :
          n <= k /\ k <= h /\ limit = Start(k) /\ dataHead = Start(h) /\ tail = Start(n)
    BY <1>1, <2>1 DEF IInv, Positions
  <2>3. tail' = Start(n)' /\ dataTail' <= tail'
    BY <1>1, <1>2, <1>5, <2>2
  <2>4. k \in Starts' /\ h \in Starts' /\ limit' = Start(k)' /\ dataHead' = Start(h)'
    BY <1>1, <1>2, <2>2
  <2> QED
    BY <1>1, <2>1, <2>2, <2>3, <2>4 DEF Positions
<1> QED
  BY <1>2, <1>3, <1>4, <1>6 DEF IInv

\* Both ways of leaving the fold release the local position.
LEMMA ReleaseStep ==
  ASSUME IInv, pc \in {"folding", "calling"}, pc' \in {"polling", "ready"},
         Commit, event' = NoEvent, UNCHANGED kernelVars, UNCHANGED <<ready, limit, tail, seen>>
  PROVE  IInv'
<1>1. /\ UNCHANGED <<log, outputs, lost, written, dataHead, wakeup>>
      /\ Contiguous' /\ Starts' = Starts /\ \A i \in Starts : Start(i)' = Start(i)
  BY LogKept
<1>2. dataTail' = tail
  BY DEF Commit
<1>3. Types'
  BY <1>1, <1>2 DEF IInv, Types
<1>4. PICK n \in Starts : n = seen + 1
  BY LogFacts DEF IInv, Types, Starts
<1>5. PICK k \in Starts, h \in Starts :
        n <= k /\ k <= h /\ dataHead = Start(h) /\ tail = Start(n)
  BY <1>4 DEF IInv, Positions
<1>6. Window'
  <2>1. dataTail <= tail
    <3>1. CASE pc = "calling"
      <4>1. PICK m : m = seen
        OBVIOUS
      <4>2. m \in Starts /\ n = m + 1 /\ m < n /\ dataTail <= Start(m)
        BY <1>4, <3>1, <4>1, LogFacts DEF IInv, Positions, EventRight, Starts
      <4>3. Start(m) < Start(n) /\ Start(m) \in Nat /\ Start(n) \in Nat /\ dataTail \in Nat
        BY <1>4, <4>2, LogFacts DEF IInv, Contiguous, Types
      <4> QED
        BY <1>5, <4>2, <4>3
    <3>2. CASE pc # "calling"
      BY <3>2 DEF IInv, Positions
    <3> QED
      BY <3>1, <3>2
  <2>2. tail <= written
    BY <1>4, <1>5, StartsInOrder DEF IInv
  <2> QED
    BY <1>1, <1>2, <2>1, <2>2 DEF IInv, Types, Window
<1>7. Positions'
  <2>1. h \in Nat /\ n \in Nat /\ k \in Nat
    BY LogFacts DEF IInv, Starts
  <2>2. dataTail' = Start(n)' /\ h \in Starts' /\ n <= h /\ dataHead' = Start(h)'
    BY <1>1, <1>2, <1>5, <2>1
  <2> QED
    BY <1>4, <2>2 DEF Positions
<1>8. EventRight'
  BY DEF EventRight
<1> QED
  BY <1>1, <1>3, <1>6, <1>7, <1>8 DEF IInv

LEMMA BreakStep ==
  ASSUME IInv, Break
  PROVE  IInv'
<1>1. /\ pc = "calling" /\ pc' = "ready" /\ Commit /\ event' = NoEvent
      /\ UNCHANGED kernelVars /\ UNCHANGED <<ready, limit, tail, seen>>
  BY DEF Break
<1> QED
  BY <1>1, ReleaseStep

LEMMA FinishStep ==
  ASSUME IInv, Finish
  PROVE  IInv'
<1>1. /\ pc = "folding" /\ pc' = "polling" /\ Commit
      /\ UNCHANGED kernelVars /\ UNCHANGED <<ready, limit, tail, event, seen>>
  BY DEF Finish, foldVars
<1>2. event = NoEvent
  BY <1>1 DEF IInv, EventRight
<1> QED
  BY <1>1, <1>2, ReleaseStep

-----------------------------------------------------------------------------
(* The theorems *)

LEMMA StepInvariant == IInv /\ [Next]_vars => IInv'
<1> SUFFICES ASSUME IInv, [Next]_vars PROVE IInv'
  OBVIOUS
<1>1. ASSUME NEW len \in SampleLens, Output(len) PROVE IInv'
  BY <1>1, OutputStep
<1>2. CASE Publish
  BY <1>2, PublishStep
<1>3. CASE WakeReader
  BY <1>3, WakeReaderStep
<1>4. CASE ReaderStep
  BY <1>4, WakeStep, BeginStep, NextEventStep, ContinueStep, BreakStep, FinishStep DEF ReaderStep
<1>5. CASE UNCHANGED vars
  <2>1. UNCHANGED <<log, outputs, lost, written, dataHead, wakeup, dataTail, ready, pc,
                    limit, tail, event, seen>>
    BY <1>5 DEF vars, kernelVars, foldVars
  <2>2. Types'
    BY <2>1 DEF IInv, Types
  <2> QED
    BY <2>1, <2>2 DEF IInv, Contiguous, Start, Starts, Window, Positions, EventRight, Written
<1> QED
  BY <1>1, <1>2, <1>3, <1>4, <1>5 DEF Next

\* The records of the log follow one another, what is not released fits in the data pages,
\* and every position that the kernel and the fold pass to each other is where a record
\* starts: the kernel's side of bpf_perf_event_output with PerfBuffer::try_fold.
THEOREM InductiveInvariant == Spec => []IInv
BY InitInvariant, StepInvariant, PTL DEF Spec

\* What the fold has released is never ahead of what it has parsed, and the event that a
\* callback looks at holds only units that the kernel wrote.
THEOREM TypeCorrect == Spec => []TypeOK
<1>1. IInv => TypeOK
  <2> SUFFICES ASSUME IInv PROVE TypeOK
    OBVIOUS
  <2>1. lost \in 0 .. MaxSamples /\ seen \in Nat
    BY LogFacts DEF IInv, Types
  <2>2. /\ event.kind \in {"none", "sample", "lost"}
        /\ \A k \in DOMAIN event.units : event.units[k] \in Nat
    <3>1. CASE pc = "calling"
      <4>1. PICK n : n = seen
        OBVIOUS
      <4>2. /\ n \in DOMAIN log /\ dataTail <= log[n].pos
            /\ event = [kind |-> log[n].kind, units |-> Written(log[n])]
        BY <3>1, <4>1 DEF IInv, EventRight, Positions, Start
      <4>3. log[n].kind \in {"sample", "lost"}
        BY <4>2, LogFacts, RecordFacts DEF IInv
      <4>4. \A k \in DOMAIN Written(log[n]) : Written(log[n])[k] \in Nat
        BY <4>2, WrittenFacts DEF IInv
      <4> QED
        BY <4>2, <4>3, <4>4
    <3>2. CASE pc # "calling"
      BY <3>2 DEF IInv, EventRight, NoEvent
    <3> QED
      BY <3>1, <3>2
  <2> QED
    BY <2>1, <2>2 DEF IInv, Types, TypeOK, Record
<1> QED
  BY <1>1, InductiveInvariant, PTL

\* The slices that PerfBuffer::try_fold lends to the callback hold the next record in
\* order, all of it, and the kernel does not write over it before the callback is done,
\* wherever the data pages wrap and however often the kernel writes meanwhile.
THEOREM EventsAreIntact == Spec => []EventIntact
<1>1. IInv => EventIntact
  <2> SUFFICES ASSUME IInv, pc = "calling"
               PROVE  /\ seen \in DOMAIN log
                      /\ event = [kind |-> log[seen].kind, units |-> Written(log[seen])]
                      /\ \A k \in DOMAIN event.units : Unit(event.units[k] % Size) = event.units[k]
    BY DEF EventIntact
  <2>1. PICK n : n = seen
    OBVIOUS
  <2>2. /\ n \in DOMAIN log /\ dataTail <= log[n].pos
        /\ event = [kind |-> log[n].kind, units |-> Written(log[n])]
    BY <2>1 DEF IInv, EventRight, Positions, Start
  <2>3. \A k \in DOMAIN Written(log[n]) : Unit(Written(log[n])[k] % Size) = Written(log[n])[k]
    BY <2>2, WrittenFacts DEF IInv
  <2> QED
    BY <2>1, <2>2, <2>3
<1> QED
  BY <1>1, InductiveInvariant, PTL

\* Whether a fold of PerfBuffer::try_fold ended at the last record, by a break or by a
\* panic, the position it left is where the first record that no callback was given starts.
THEOREM NextFoldStartsRight == Spec => []NextFoldContinues
<1>1. IInv => NextFoldContinues
  BY DEF IInv, Positions, NextFoldContinues, Start
<1> QED
  BY <1>1, InductiveInvariant, PTL
=============================================================================
