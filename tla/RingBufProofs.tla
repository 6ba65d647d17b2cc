--------------------------- MODULE RingBufProofs ---------------------------
(***************************************************************************)
(* Theorems about RingBuf, for every set of producers, ring size, payload  *)
(* sizes and bounds. They assume that masking a length clears the discard  *)
(* bit, which holds for every ring of at most 1 GiB: DiscardBit is 2^30    *)
(* and Size a power of two.                                                *)
(***************************************************************************)
EXTENDS RingBuf, SequenceTheorems, TLAPS

MaskClearsDiscardBit == DiscardBit % Size = 0

-----------------------------------------------------------------------------
(* Arithmetic of the layout *)

\* Two positions less than a ring apart fall on different offsets.
LEMMA ModWindow ==
  ASSUME NEW p \in Nat, NEW q \in Nat, p < q, q < p + Size
  PROVE  p % Size # q % Size
<1> DEFINE d == (q \div Size) - (p \div Size)
<1>1. Size \in Nat \ {0}
  BY LayoutAssumption
<1>2. /\ p = Size * (p \div Size) + (p % Size)
      /\ q = Size * (q \div Size) + (q % Size)
      /\ p \div Size \in Int
      /\ q \div Size \in Int
  BY <1>1
<1>3. SUFFICES ASSUME p % Size = q % Size PROVE FALSE
  OBVIOUS
<1>4. d \in Int /\ q - p = Size * d
  BY <1>1, <1>2, <1>3
<1> HIDE DEF d
<1>5. CASE d <= 0
  BY <1>1, <1>4, <1>5
<1>6. CASE d >= 1
  BY <1>1, <1>4, <1>6
<1> QED
  BY <1>4, <1>5, <1>6

\* Payload sizes are natural numbers.
LEMMA PayloadLensAreNat == \A len \in PayloadLens : len \in Nat
<1>1. \A n \in 0 .. Size - 1 : n \in Nat
  BY LayoutAssumption
<1> QED
  BY <1>1, LayoutAssumption

\* Every position falls on an offset of the data pages.
LEMMA OffsetInPages ==
  ASSUME NEW p \in Nat
  PROVE  p % Size \in Offsets
BY LayoutAssumption DEF Offsets

\* A record takes at least its header.
LEMMA RecordSizeFacts ==
  ASSUME NEW len \in Nat
  PROVE  /\ RecordSize(len) \in Nat
         /\ RecordSize(len) > 0
         /\ NextMultipleOf(HdrSz + len, Align) = RecordSize(len)
<1>1. HdrSz + len \in Nat /\ HdrSz + len > 0 /\ Align \in Nat \ {0}
  BY LayoutAssumption
<1>2. (HdrSz + len) % Align \in 0 .. Align - 1
  BY <1>1
<1> QED
  BY <1>1, <1>2 DEF RecordSize, NextMultipleOf

\* A record's span starts at its first byte and misses every position that is
\* less than a ring behind its end.
LEMMA SpanFacts ==
  ASSUME NEW p \in Nat, NEW n \in Nat, NEW a \in Nat, a < p, p + n <= a + Size
  PROVE  a % Size \notin Span(p, n)
<1>1. SUFFICES ASSUME NEW b \in p .. p + n - 1, a % Size = b % Size PROVE FALSE
  BY DEF Span
<1>2. b \in Nat /\ a < b /\ b < a + Size
  BY LayoutAssumption
<1> QED
  BY <1>1, <1>2, ModWindow

\* The mask leaves the length of a record alone.
LEMMA MaskedLenFacts ==
  ASSUME MaskClearsDiscardBit,
         NEW len \in PayloadLens, NEW st \in {"busy", "data", "discard"}
  PROVE  MaskedLen([st |-> st, len |-> len]) = len
<1>1. Size \in Nat \ {0} /\ len \in 0 .. Size - 1 /\ DiscardBit \in Nat /\ DiscardBit % Size = 0
  BY LayoutAssumption DEF MaskClearsDiscardBit
<1>2. len % Size = len /\ (len + DiscardBit) % Size = len /\ (len + 0) % Size = len
  BY <1>1
<1> QED
  BY <1>2 DEF MaskedLen

-----------------------------------------------------------------------------
(* Facts that hold in every state of the invariant *)

USE DEF Closed, NoItem, Idle

\* The types of a record that was reserved.
LEMMA LogTypes ==
  ASSUME TypeOK, NEW i \in DOMAIN log
  PROVE  /\ i \in 1 .. Len(log)
         /\ log[i] \in Record
         /\ log[i].pos \in Nat
         /\ log[i].len \in Nat
         /\ RecordSize(log[i].len) \in Nat
         /\ RecordSize(log[i].len) > 0
         /\ End(i) \in Nat
         /\ log[i].pos < End(i)
<1>1. i \in 1 .. Len(log) /\ log[i] \in Record
  BY DEF TypeOK
<1>2. log[i].pos \in Nat /\ log[i].len \in PayloadLens
  BY <1>1 DEF Record
<1>3. log[i].len \in Nat
  BY <1>2, PayloadLensAreNat
<1>4. RecordSize(log[i].len) \in Nat /\ RecordSize(log[i].len) > 0
  BY <1>3, RecordSizeFacts
<1> QED
  BY <1>1, <1>2, <1>3, <1>4 DEF End

\* What producers see of the reader's position is never ahead of it.
LEMMA StoreFacts ==
  ASSUME TypeOK, StoreInv
  PROVE  consumerPos <= pos
<1>1. CASE storeBuffer = <<>>
  BY <1>1 DEF TypeOK, StoreInv
<1>2. CASE storeBuffer # <<>>
  BY <1>2 DEF TypeOK, StoreInv
<1> QED
  BY <1>1, <1>2

\* What the reader finds at its position is the header of the next record.
LEMMA HeadFacts ==
  ASSUME MaskClearsDiscardBit, IInv, pc \in {"reading", "holding"}
  PROVE  /\ head + 1 \in DOMAIN log
         /\ pos = log[head + 1].pos
         /\ mem[pos % Size] = head + 1
         /\ Header(pos % Size) = [st |-> log[head + 1].st, len |-> log[head + 1].len]
         /\ MaskedLen(Header(pos % Size)) = log[head + 1].len
         /\ log[head + 1].len \in Nat
         /\ NextMultipleOf(HdrSz + log[head + 1].len, Align) = RecordSize(log[head + 1].len)
         /\ pos + RecordSize(log[head + 1].len) = Start(head + 2)
         /\ \E k \in head + 2 .. Len(log) + 1 : posCache = Start(k)
<1> USE DEF IInv
<1>1. head \in Nat /\ Len(log) \in Nat /\ DOMAIN log = 1 .. Len(log)
  BY DEF TypeOK
<1>2. PICK k \in head + 1 .. Len(log) + 1 : posCache = Start(k)
  BY DEF ReaderInv
<1>3. pos # posCache /\ pos = Start(head + 1)
  BY DEF ReaderInv
<1>4. k # head + 1
  BY <1>2, <1>3
<1>5. k \in head + 2 .. Len(log) + 1 /\ head + 1 \in DOMAIN log
  BY <1>1, <1>2, <1>4
<1>6. pos = log[head + 1].pos
  BY <1>3, <1>5 DEF Start
<1>7. mem[pos % Size] = head + 1
  BY <1>5, <1>6, StoreFacts DEF MemInv
<1>8. /\ log[head + 1].len \in PayloadLens
      /\ log[head + 1].len \in Nat
      /\ log[head + 1].st \in {"busy", "data", "discard"}
  BY <1>5, LogTypes DEF Record
<1>9. Header(pos % Size) = [st |-> log[head + 1].st, len |-> log[head + 1].len]
  BY <1>5, <1>7 DEF Header
<1>10. MaskedLen(Header(pos % Size)) = log[head + 1].len
  BY <1>8, <1>9, MaskedLenFacts
<1>11. pos + RecordSize(log[head + 1].len) = Start(head + 2)
  <2>1. End(head + 1) = Start((head + 1) + 1)
    BY <1>5 DEF LogInv
  <2>2. (head + 1) + 1 = head + 2
    BY <1>1
  <2> QED
    BY <2>1, <2>2, <1>6 DEF End
<1> QED
  BY <1>2, <1>5, <1>6, <1>7, <1>8, <1>9, <1>10, <1>11, RecordSizeFacts

-----------------------------------------------------------------------------
(* The invariant holds at first and is preserved by every action *)

\* The invariant holds of an empty ring that nobody reads.
LEMMA InitInv == Init => IInv
<1> SUFFICES ASSUME Init PROVE IInv
  OBVIOUS
<1> USE DEF Init
<1>1. DOMAIN log = {} /\ Len(log) = 0 /\ DOMAIN storeBuffer = {}
  OBVIOUS
<1>2. TypeOK
  <2>1. log \in Seq(Record)
    OBVIOUS
  <2>2. mem \in [Offsets -> Int] /\ storeBuffer \in Seq(Nat)
    BY DEF Zero
  <2>3. producer \in [Producers -> ProducerState]
    BY DEF ProducerState
  <2>4. /\ notified \in BOOLEAN /\ needsWakeup \in BOOLEAN
        /\ item \in [rec : Nat, len : Nat]
        /\ pc \in Closed \union {"asleep", "checking", "reading", "holding"}
    OBVIOUS
  <2> QED
    BY <2>1, <2>2, <2>3, <2>4 DEF TypeOK
<1>3. LogInv /\ ProducerInv /\ MemInv
  BY <1>1 DEF LogInv, ProducerInv, MemInv
<1>4. StoreInv
  BY <1>1, LayoutAssumption DEF StoreInv
<1>5. ReaderInv /\ NoLostWakeup
  BY <1>1 DEF ReaderInv, NoLostWakeup, Start
<1> QED
  BY <1>2, <1>3, <1>4, <1>5 DEF IInv

\* Most steps of the reader leave the log, the data pages and the producers alone.
LEMMA KernelUnchanged ==
  ASSUME IInv, UNCHANGED <<kernelVars, consumerPos>>
  PROVE  LogInv' /\ ProducerInv' /\ MemInv'
<1> USE DEF kernelVars, IInv
<1>1. LogInv'
  BY DEF LogInv, Start, End, RecordSize
<1>2. ProducerInv'
  BY DEF ProducerInv
<1>3. MemInv'
  BY DEF MemInv
<1> QED
  BY <1>1, <1>2, <1>3

\* A step that moves none of the stored positions either.
LEMMA StoresUnchanged ==
  ASSUME IInv, UNCHANGED <<kernelVars, consumerPos, storeBuffer, pos, needsWakeup>>
  PROVE  StoreInv'
BY DEF IInv, StoreInv, kernelVars

\* reserve: there is room for the record, so it overwrites nothing that is still needed.
LEMMA ReserveInv ==
  ASSUME IInv, NEW p \in Producers, NEW len \in PayloadLens, Reserve(p, len)
  PROVE  IInv'
<1> USE DEF IInv
<1>0. PICK r \in Nat : r = Len(log) + 1   \* a rigid name, also under a prime
  BY DEF TypeOK
<1> USE <1>0
<1> DEFINE n == RecordSize(len)
           new == [pos |-> producerPos, len |-> len, st |-> "busy", flag |-> "default"]
<1>1. n \in Nat /\ n > 0
  BY PayloadLensAreNat, RecordSizeFacts
<1>2. /\ log' = Append(log, new)
      /\ producerPos' = producerPos + n
      /\ producerPos + n - consumerPos <= Size - 1
      /\ producer[p].st = "idle"
      /\ producer' = [producer EXCEPT ![p] = [st |-> "reserved", rec |-> r]]
      /\ mem' = [o \in Offsets |-> IF o = producerPos % Size THEN r
                                   ELSE IF o \in Span(producerPos, n) THEN Payload
                                   ELSE mem[o]]
      /\ UNCHANGED <<consumerPos, notified, storeBuffer, pos, needsWakeup, posCache,
                     pc, item, head, opens>>
  BY <1>0 DEF Reserve, readerVars
<1> HIDE DEF n
<1>3. new \in Record /\ log \in Seq(Record) /\ Len(log) \in Nat
  BY DEF Record, TypeOK
<1>4. /\ log' \in Seq(Record)
      /\ Len(log') = r
      /\ DOMAIN log = 1 .. Len(log)
      /\ DOMAIN log' = 1 .. r
      /\ r \notin DOMAIN log
      /\ log'[r] = new
      /\ \A i \in DOMAIN log : i \in DOMAIN log' /\ log'[i] = log[i] /\ i < r /\ i \in Nat
  BY <1>0, <1>2, <1>3
<1>5. TypeOK'
  <2>1. producer' \in [Producers -> ProducerState]
    BY <1>2, <1>3 DEF TypeOK, ProducerState
  <2>2. mem' \in [Offsets -> Int]
    BY <1>2, <1>3 DEF TypeOK, Payload
  <2> QED
    BY <1>1, <1>2, <1>4, <2>1, <2>2 DEF TypeOK
<1>6. ASSUME NEW i \in DOMAIN log
      PROVE  /\ log[i].pos \in Nat /\ End(i) \in Nat /\ log[i].pos < End(i)
             /\ End(i) <= producerPos
             /\ End(i)' = End(i)
             /\ Start(i + 1) = End(i)
  BY <1>4, LogTypes DEF LogInv, End, RecordSize
<1>7. End(r)' = producerPos'
  BY <1>2, <1>4 DEF End, n, RecordSize
<1>8. \A k \in 1 .. r : Start(k)' = Start(k)
  BY <1>2, <1>4 DEF Start
<1>9. Start(r + 1)' = producerPos' /\ Start(r) = producerPos
  BY <1>3, <1>4 DEF Start
<1>10. LogInv'
  <2>1. ASSUME NEW i \in DOMAIN log'
        PROVE  End(i)' = Start(i + 1)' /\ End(i)' <= producerPos'
    <3>1. CASE i = r
      BY <1>1, <1>2, <1>7, <1>9, <3>1 DEF TypeOK
    <3>2. CASE i # r
      <4>1. i \in DOMAIN log /\ i + 1 \in 1 .. r
        BY <1>3, <1>4, <3>2
      <4> QED
        BY <4>1, <1>1, <1>2, <1>6, <1>8 DEF TypeOK
    <3> QED
      BY <3>1, <3>2
  <2>2. ASSUME NEW i \in DOMAIN log', NEW j \in DOMAIN log', i < j
        PROVE  End(i)' <= log'[j].pos
    <3>1. i \in DOMAIN log
      BY <1>3, <1>4, <2>2
    <3>2. CASE j = r
      BY <3>1, <3>2, <1>4, <1>6
    <3>3. CASE j # r
      <4>1. j \in DOMAIN log
        BY <3>3, <1>4
      <4>2. End(i) <= log[j].pos
        BY <2>2, <3>1, <4>1 DEF LogInv
      <4> QED
        BY <3>1, <4>1, <4>2, <1>4, <1>6
    <3> QED
      BY <3>2, <3>3
  <2> QED
    BY <2>1, <2>2 DEF LogInv
<1>11. ProducerInv'
  <2>1. ASSUME NEW q \in Producers, producer'[q].st # "idle"
        PROVE  /\ producer'[q].rec \in DOMAIN log'
               /\ producer'[q].st = "reserved" <=> log'[producer'[q].rec].st = "busy"
    <3>1. CASE q = p
      BY <3>1, <1>2, <1>3, <1>4 DEF TypeOK
    <3>2. CASE q # p
      <4>1. producer'[q] = producer[q]
        BY <3>2, <1>2 DEF TypeOK
      <4> QED
        BY <4>1, <2>1, <1>4 DEF ProducerInv
    <3> QED
      BY <3>1, <3>2
  <2>2. ASSUME NEW q \in Producers, NEW s \in Producers, q # s,
               producer'[q].st = "reserved", producer'[s].st = "reserved"
        PROVE  producer'[q].rec # producer'[s].rec
    <3>1. \A t \in Producers : t # p => producer'[t] = producer[t]
      BY <1>2 DEF TypeOK
    <3>2. \A t \in Producers : producer[t].st = "reserved" => producer[t].rec # r
      BY <1>4 DEF ProducerInv
    <3>3. producer'[p].rec = r
      BY <1>2 DEF TypeOK
    <3> QED
      BY <2>2, <3>1, <3>2, <3>3 DEF ProducerInv
  <2> QED
    BY <2>1, <2>2 DEF ProducerInv
<1>12. StoreInv'
  BY <1>1, <1>2 DEF StoreInv, TypeOK
<1>13. MemInv'
  <2>1. SUFFICES ASSUME NEW i \in DOMAIN log', consumerPos' <= log'[i].pos
                 PROVE  mem'[log'[i].pos % Size] = i
    BY DEF MemInv
  <2>2. CASE i = r
    BY <2>2, <1>2, <1>4, OffsetInPages DEF TypeOK
  <2>3. CASE i # r
    <3> DEFINE a == log[i].pos
    <3>1. i \in DOMAIN log /\ a = log'[i].pos /\ consumerPos <= a
      BY <2>1, <2>3, <1>2, <1>3, <1>4
    <3>2. /\ a \in Nat /\ a < producerPos
          /\ consumerPos \in Nat /\ producerPos \in Nat /\ Size \in Nat
      BY <3>1, <1>6, LayoutAssumption, SMTT(30) DEF TypeOK
    <3>3. producerPos + n <= a + Size /\ producerPos < a + Size
      BY <1>1, <1>2, <3>1, <3>2, SMTT(30)
    <3>4. a % Size # producerPos % Size
      BY <3>2, <3>3, ModWindow
    <3>5. a % Size \notin Span(producerPos, n)
      BY <1>1, <3>2, <3>3, SpanFacts
    <3>6. mem[a % Size] = i
      BY <3>1 DEF MemInv
    <3>7. a % Size \in Offsets
      BY <3>2, OffsetInPages
    <3> QED
      BY <1>2, <3>1, <3>4, <3>5, <3>6, <3>7
  <2> QED
    BY <2>2, <2>3
<1>14. ReaderInv'
  <2>0. head \in Nat /\ head <= Len(log)
    BY DEF ReaderInv, TypeOK
  <2>1. head \in 0 .. Len(log) /\ head + 1 \in 1 .. r
    BY <2>0, <1>0, <1>3
  <2>2. (pos = Start(head + 1))'
    <3>1. PICK h \in 1 .. r : h = head + 1
      BY <2>1
    <3>2. pos = Start(h) /\ h = head' + 1
      BY <3>1, <1>2 DEF ReaderInv
    <3>3. Start(h)' = Start(head + 1)'
      BY <3>2
    <3> QED
      BY <3>2, <3>3, <1>2, <1>8
  <2>3. ASSUME pc' \notin {"closed", "opening"}
        PROVE  \E k \in head' + 1 .. Len(log') + 1 : posCache' = Start(k)'
    <3>1. PICK k \in head + 1 .. r : posCache = Start(k)
      BY <2>3, <1>0, <1>2 DEF ReaderInv
    <3>2. k \in 1 .. r /\ k \in head' + 1 .. Len(log') + 1
      BY <2>1, <1>2, <1>3, <1>4, <3>1
    <3> QED
      BY <3>1, <3>2, <1>2, <1>8
  <2>4. ASSUME pc' = "holding"
        PROVE  /\ item' = [rec |-> head' + 1, len |-> log'[head' + 1].len]
               /\ log'[head' + 1].st = "data"
    <3>1. /\ item = [rec |-> head + 1, len |-> log[head + 1].len]
          /\ log[head + 1].st = "data"
          /\ pos # posCache
      BY <2>4, <1>2 DEF ReaderInv
    <3>2. PICK k \in head + 1 .. r : posCache = Start(k)
      BY <2>4, <1>0, <1>2 DEF ReaderInv
    <3>3. k # head + 1
      BY <3>1, <3>2 DEF ReaderInv
    <3>4. head + 1 \in DOMAIN log
      BY <2>1, <3>2, <3>3, <1>3, <1>4
    <3> QED
      BY <3>1, <3>4, <1>2, <1>4
  <2>5. head' <= Len(log')
    BY <2>1, <1>2, <1>3, <1>4
  <2>6. /\ pc' \in {"reading", "holding"} => pos' # posCache'
        /\ pc' \in {"opening", "opened", "asleep"} => ~needsWakeup'
    BY <1>2 DEF ReaderInv
  <2> QED
    BY <2>2, <2>3, <2>4, <2>5, <2>6 DEF ReaderInv
<1>15. NoLostWakeup'
  <2>1. SUFFICES ASSUME pc' = "asleep", ~notified', head' < Len(log'),
                        log'[head' + 1].st # "busy", log'[head' + 1].flag # "no_wakeup"
                 PROVE  \E q \in Producers : producer'[q] = [st |-> "committed", rec |-> head' + 1]
    BY DEF NoLostWakeup
  <2>2. head \in Nat /\ head + 1 \in DOMAIN log
    BY <2>1, <1>2, <1>3, <1>4 DEF TypeOK
  <2>3. PICK q \in Producers : producer[q] = [st |-> "committed", rec |-> head + 1]
    BY <2>1, <2>2, <1>2, <1>3, <1>4 DEF NoLostWakeup
  <2>4. q # p
    BY <2>3, <1>2
  <2> QED
    BY <2>3, <2>4, <1>2 DEF TypeOK
<1> QED
  BY <1>5, <1>10, <1>11, <1>12, <1>13, <1>14, <1>15

\* The header after a commit, field by field.
LEMMA CommittedRecord ==
  ASSUME NEW x \in Record, NEW st \in {"busy", "data", "discard"}, NEW flag \in Flags
  PROVE  [[x EXCEPT !.st = st] EXCEPT !.flag = flag]
           = [pos |-> x.pos, len |-> x.len, st |-> st, flag |-> flag]
<1>1. [x EXCEPT !.st = st] \in Record
  BY DEF Record
<1>2. [x EXCEPT !.st = st] = [pos |-> x.pos, len |-> x.len, st |-> st, flag |-> x.flag]
  BY DEF Record
<1>3. ASSUME NEW y \in Record
      PROVE  [y EXCEPT !.flag = flag] = [pos |-> y.pos, len |-> y.len, st |-> y.st, flag |-> flag]
  BY DEF Record
<1> QED
  BY <1>1, <1>2, <1>3

\* submit and discard: the record of a context that has it open is no longer busy,
\* and the context still owes the reader a look.
LEMMA CommitInv ==
  ASSUME IInv, NEW p \in Producers, CommitStep(p)
  PROVE  IInv'
<1> USE DEF IInv
<1>0. PICK r \in DOMAIN log : r = producer[p].rec
  BY DEF CommitStep, Commit, ProducerInv
<1>1. PICK outcome \in {"data", "discard"}, flag \in Flags : Commit(p, outcome, flag)
  BY DEF CommitStep
<1>2. /\ log' = [log EXCEPT ![r].st = outcome, ![r].flag = flag]
      /\ producer[p].st = "reserved"
      /\ producer' = [producer EXCEPT ![p].st = "committed"]
      /\ UNCHANGED <<mem, producerPos, consumerPos, notified, storeBuffer,
                     pos, needsWakeup, posCache, pc, item, head, opens>>
  BY <1>0, <1>1 DEF Commit, readerVars
<1>3. /\ log \in Seq(Record) /\ Len(log) \in Nat /\ DOMAIN log = 1 .. Len(log)
      /\ log[r] \in Record
  BY <1>0, LogTypes DEF TypeOK
<1>4. /\ log' \in Seq(Record)
      /\ Len(log') = Len(log)
      /\ DOMAIN log' = DOMAIN log
      /\ \A i \in DOMAIN log : i # r => log'[i] = log[i]
      /\ log'[r] = [pos |-> log[r].pos, len |-> log[r].len, st |-> outcome, flag |-> flag]
  <2> DEFINE new == [pos |-> log[r].pos, len |-> log[r].len, st |-> outcome, flag |-> flag]
  <2>1. new \in Record
    BY <1>3 DEF Record
  <2>2. [[log[r] EXCEPT !.st = outcome] EXCEPT !.flag = flag] = new
    BY <1>3, CommittedRecord
  <2>3. log' = [log EXCEPT ![r] = new]
    BY <1>0, <1>2, <1>3, <2>2
  <2> HIDE DEF new
  <2>4. log' \in Seq(Record) /\ Len(log') = Len(log) /\ DOMAIN log' = DOMAIN log
    BY <1>0, <1>3, <2>1, <2>3
  <2>5. \A i \in DOMAIN log : log'[i] = IF i = r THEN new ELSE log[i]
    BY <1>0, <2>3
  <2> QED
    BY <1>0, <2>4, <2>5 DEF new
<1>5. \A i \in DOMAIN log : log'[i].pos = log[i].pos /\ log'[i].len = log[i].len
  BY <1>4
<1>6. /\ \A q \in Producers : q # p => producer'[q] = producer[q]
      /\ producer'[p] = [st |-> "committed", rec |-> r]
      /\ producer' \in [Producers -> ProducerState]
  BY <1>0, <1>2 DEF TypeOK, ProducerState
<1>7. log[r].st = "busy"
  BY <1>0, <1>2 DEF ProducerInv
<1>8. TypeOK'
  BY <1>2, <1>4, <1>6 DEF TypeOK
<1>9. /\ \A k \in Nat : Start(k)' = Start(k)
      /\ \A i \in DOMAIN log : End(i)' = End(i)
  BY <1>2, <1>4, <1>5 DEF Start, End, RecordSize
<1>10. LogInv'
  <2>1. ASSUME NEW i \in DOMAIN log
        PROVE  End(i)' = Start(i + 1)' /\ End(i)' <= producerPos'
    <3>1. i + 1 \in Nat
      BY <1>3
    <3> QED
      BY <3>1, <1>2, <1>9 DEF LogInv
  <2>2. ASSUME NEW i \in DOMAIN log, NEW j \in DOMAIN log, i < j
        PROVE  End(i)' <= log'[j].pos
    BY <2>2, <1>5, <1>9 DEF LogInv
  <2> QED
    BY <2>1, <2>2, <1>4 DEF LogInv
<1>11. ProducerInv'
  <2>1. ASSUME NEW q \in Producers, producer'[q].st # "idle"
        PROVE  /\ producer'[q].rec \in DOMAIN log'
               /\ producer'[q].st = "reserved" <=> log'[producer'[q].rec].st = "busy"
    <3>1. CASE q = p
      BY <3>1, <1>0, <1>4, <1>6
    <3>2. CASE q # p
      <4>1. /\ producer[q].rec \in DOMAIN log
            /\ producer[q].st = "reserved" <=> log[producer[q].rec].st = "busy"
        BY <3>2, <2>1, <1>6 DEF ProducerInv
      <4>2. CASE producer[q].rec = r
        <5>1. producer[q].st # "reserved"
          BY <3>2, <4>2, <1>0, <1>2 DEF ProducerInv
        <5> QED
          BY <5>1, <4>1, <4>2, <1>7
      <4>3. CASE producer[q].rec # r
        BY <4>1, <4>3, <3>2, <1>4, <1>6
      <4> QED
        BY <4>2, <4>3
    <3> QED
      BY <3>1, <3>2
  <2>2. ASSUME NEW q \in Producers, NEW s \in Producers, q # s,
               producer'[q].st = "reserved", producer'[s].st = "reserved"
        PROVE  producer'[q].rec # producer'[s].rec
    BY <2>2, <1>6 DEF ProducerInv
  <2> QED
    BY <2>1, <2>2 DEF ProducerInv
<1>12. StoreInv'
  BY <1>2 DEF StoreInv
<1>13. MemInv'
  BY <1>2, <1>4, <1>5 DEF MemInv
<1>14. ReaderInv'
  <2>1. head + 1 \in Nat /\ head \in Nat
    BY DEF TypeOK
  <2>2. (pos = Start(head + 1))'
    <3>1. PICK h \in Nat : h = head + 1
      BY <2>1
    <3>2. pos = Start(h) /\ h = head' + 1
      BY <3>1, <1>2 DEF ReaderInv
    <3>3. Start(h)' = Start(head + 1)'
      BY <3>2
    <3> QED
      BY <3>2, <3>3, <1>2, <1>9
  <2>3. ASSUME pc' \notin {"closed", "opening"}
        PROVE  \E k \in head' + 1 .. Len(log') + 1 : posCache' = Start(k)'
    <3>1. PICK k \in head + 1 .. Len(log) + 1 : posCache = Start(k)
      BY <2>3, <1>2 DEF ReaderInv
    <3>2. k \in Nat
      BY <2>1, <3>1, <1>3
    <3> QED
      BY <3>1, <3>2, <1>2, <1>4, <1>9
  <2>4. ASSUME pc' = "holding"
        PROVE  /\ item' = [rec |-> head' + 1, len |-> log'[head' + 1].len]
               /\ log'[head' + 1].st = "data"
    <3>1. /\ item = [rec |-> head + 1, len |-> log[head + 1].len]
          /\ log[head + 1].st = "data"
          /\ pos # posCache
      BY <2>4, <1>2 DEF ReaderInv
    <3>2. PICK k \in head + 1 .. Len(log) + 1 : posCache = Start(k)
      BY <2>4, <1>2 DEF ReaderInv
    <3>3. k # head + 1
      BY <3>1, <3>2 DEF ReaderInv
    <3>4. head + 1 \in DOMAIN log
      BY <2>1, <3>2, <3>3, <1>3
    <3>5. head + 1 # r
      BY <3>1, <1>7
    <3> QED
      BY <3>1, <3>4, <3>5, <1>2, <1>4
  <2>5. head' <= Len(log')
    BY <1>2, <1>4 DEF ReaderInv
  <2>6. /\ pc' \in {"reading", "holding"} => pos' # posCache'
        /\ pc' \in {"opening", "opened", "asleep"} => ~needsWakeup'
    BY <1>2 DEF ReaderInv
  <2> QED
    BY <2>2, <2>3, <2>4, <2>5, <2>6 DEF ReaderInv
<1>15. NoLostWakeup'
  <2>1. SUFFICES ASSUME pc' = "asleep", ~notified', head' < Len(log'),
                        log'[head' + 1].st # "busy", log'[head' + 1].flag # "no_wakeup"
                 PROVE  \E q \in Producers : producer'[q] = [st |-> "committed", rec |-> head' + 1]
    BY DEF NoLostWakeup
  <2>2. head \in Nat /\ head + 1 \in DOMAIN log
    BY <2>1, <1>2, <1>3, <1>4 DEF TypeOK
  <2>3. CASE head + 1 = r
    BY <2>3, <1>2, <1>6
  <2>4. CASE head + 1 # r
    <3>1. PICK q \in Producers : producer[q] = [st |-> "committed", rec |-> head + 1]
      BY <2>1, <2>2, <2>4, <1>2, <1>3, <1>4 DEF NoLostWakeup
    <3>2. q # p
      BY <3>1, <1>2
    <3> QED
      BY <3>1, <3>2, <1>2, <1>6
  <2> QED
    BY <2>3, <2>4
<1> QED
  BY <1>8, <1>10, <1>11, <1>12, <1>13, <1>14, <1>15

\* A context that looked at the consumer position is done with its record. If the
\* reader sleeps before that record, the two positions agree and the edge is sent.
LEMMA NotifyInv ==
  ASSUME IInv, NEW p \in Producers, Notify(p)
  PROVE  IInv'
<1> USE DEF IInv
<1>1. /\ producer[p].st = "committed"
      /\ producer' = [producer EXCEPT ![p] = Idle]
      /\ notified' = (notified \/ (pc \notin Closed /\ WakesReader(producer[p].rec)))
      /\ UNCHANGED <<log, mem, producerPos, consumerPos, storeBuffer, pos, needsWakeup,
                     posCache, pc, item, head, opens>>
  BY DEF Notify, readerVars
<1>2. /\ \A q \in Producers : q # p => producer'[q] = producer[q]
      /\ producer'[p] = [st |-> "idle", rec |-> 0]
      /\ producer' \in [Producers -> ProducerState]
  BY <1>1 DEF TypeOK, ProducerState
<1>3. TypeOK'
  BY <1>1, <1>2 DEF TypeOK
<1>4. LogInv'
  BY <1>1 DEF LogInv, Start, End, RecordSize
<1>5. ProducerInv'
  BY <1>1, <1>2 DEF ProducerInv
<1>6. StoreInv' /\ MemInv'
  BY <1>1 DEF StoreInv, MemInv
<1>7. ReaderInv'
  BY <1>1 DEF ReaderInv, Start
<1>8. NoLostWakeup'
  <2>1. SUFFICES ASSUME pc = "asleep", ~notified', head < Len(log),
                        log[head + 1].st # "busy", log[head + 1].flag # "no_wakeup"
                 PROVE  \E q \in Producers : producer'[q] = [st |-> "committed", rec |-> head + 1]
    BY <1>1 DEF NoLostWakeup
  <2>2. ~notified
    BY <2>1, <1>1
  <2>3. PICK q \in Producers : producer[q] = [st |-> "committed", rec |-> head + 1]
    BY <2>1, <2>2 DEF NoLostWakeup
  <2>4. q # p
    <3>1. SUFFICES ASSUME q = p PROVE FALSE
      OBVIOUS
    <3>2. producer[p].rec = head + 1 /\ pc \notin Closed
      BY <2>1, <2>3, <3>1
    <3>3. head \in Nat /\ head + 1 \in DOMAIN log
      BY <2>1 DEF TypeOK
    <3>4. storeBuffer = <<>> /\ pos = Start(head + 1)
      BY <2>1 DEF ReaderInv, StoreInv
    <3>5. consumerPos = log[head + 1].pos
      BY <3>3, <3>4 DEF StoreInv, Start
    <3>6. log[head + 1].flag \in {"default", "no_wakeup", "force_wakeup"}
      BY <3>3, LogTypes, FlagsAssumption DEF Record
    <3>7. WakesReader(head + 1)
      BY <2>1, <3>5, <3>6 DEF WakesReader
    <3> QED
      BY <1>1, <2>1, <3>2, <3>7
  <2> QED
    BY <2>3, <2>4, <1>2
<1> QED
  BY <1>3, <1>4, <1>5, <1>6, <1>7, <1>8

\* The oldest store becomes visible: producers see a later position, never past
\* the reader's own.
LEMMA DrainInv ==
  ASSUME IInv, Drain
  PROVE  IInv'
<1> USE DEF IInv
<1>1. /\ storeBuffer # <<>>
      /\ consumerPos' = Head(storeBuffer)
      /\ storeBuffer' = Tail(storeBuffer)
      /\ UNCHANGED <<log, mem, producerPos, producer, notified, pos, needsWakeup,
                     posCache, pc, item, head, opens>>
  BY DEF Drain, kernelVars, readerVars
<1>2. /\ storeBuffer \in Seq(Nat)
      /\ Len(storeBuffer) \in Nat \ {0}
      /\ 1 \in DOMAIN storeBuffer
      /\ consumerPos' = storeBuffer[1]
      /\ storeBuffer' \in Seq(Nat)
      /\ Len(storeBuffer') = Len(storeBuffer) - 1
      /\ \A i \in DOMAIN storeBuffer' :
           i + 1 \in DOMAIN storeBuffer /\ storeBuffer'[i] = storeBuffer[i + 1]
  BY <1>1 DEF TypeOK
<1>20. /\ \A i \in DOMAIN storeBuffer : consumerPos <= storeBuffer[i]
       /\ \A i, j \in DOMAIN storeBuffer : i <= j => storeBuffer[i] <= storeBuffer[j]
  BY DEF StoreInv
<1>3. consumerPos' \in Nat /\ consumerPos <= consumerPos'
  BY <1>2, <1>20, SMTT(30)
<1>4. TypeOK'
  BY <1>1, <1>2, <1>3 DEF TypeOK
<1>5. LogInv'
  BY <1>1 DEF LogInv, Start, End, RecordSize
<1>6. ProducerInv'
  BY <1>1 DEF ProducerInv
<1>7. StoreInv'
  <2>1. \A i \in DOMAIN storeBuffer' : consumerPos' <= storeBuffer'[i]
    <3>1. SUFFICES ASSUME NEW i \in DOMAIN storeBuffer' PROVE storeBuffer[1] <= storeBuffer[i + 1]
      BY <1>2
    <3>2. i \in Nat /\ 1 <= i + 1 /\ i + 1 \in DOMAIN storeBuffer
      BY <1>2
    <3> QED
      BY <3>2, <1>2, <1>20
  <2>2. \A i, j \in DOMAIN storeBuffer' : i <= j => storeBuffer'[i] <= storeBuffer'[j]
    <3>1. SUFFICES ASSUME NEW i \in DOMAIN storeBuffer', NEW j \in DOMAIN storeBuffer', i <= j
                   PROVE  storeBuffer[i + 1] <= storeBuffer[j + 1]
      BY <1>2
    <3>2. i \in Nat /\ j \in Nat
      BY <1>2, SMTT(30)
    <3>3. i + 1 <= j + 1
      BY <3>1, <3>2
    <3> QED
      BY <3>1, <3>3, <1>2, <1>20
  <2>3. pos' = (IF storeBuffer' = <<>> THEN consumerPos' ELSE storeBuffer'[Len(storeBuffer')])
    <3>1. pos = storeBuffer[Len(storeBuffer)]
      BY <1>1 DEF StoreInv
    <3>2. CASE Len(storeBuffer) = 1
      BY <3>1, <3>2, <1>1, <1>2
    <3>3. CASE Len(storeBuffer) # 1
      <4>1. storeBuffer' # <<>> /\ Len(storeBuffer') \in DOMAIN storeBuffer'
        BY <3>3, <1>2
      <4>2. storeBuffer'[Len(storeBuffer')] = storeBuffer[Len(storeBuffer)]
        BY <4>1, <1>2
      <4> QED
        BY <3>1, <4>1, <4>2, <1>1
    <3> QED
      BY <3>2, <3>3
  <2>4. needsWakeup'
    BY <1>1 DEF StoreInv
  <2>5. producerPos' - consumerPos' <= Size - 1
    BY <1>1, <1>3, LayoutAssumption DEF StoreInv, TypeOK
  <2> QED
    BY <2>1, <2>2, <2>3, <2>4, <2>5 DEF StoreInv
<1>8. MemInv'
  <2>1. ASSUME NEW i \in DOMAIN log, consumerPos' <= log[i].pos
        PROVE  mem[log[i].pos % Size] = i
    <3>1. consumerPos <= log[i].pos
      BY <2>1, <1>3, LogTypes, SMTT(30) DEF TypeOK
    <3> QED
      BY <3>1 DEF MemInv
  <2> QED
    BY <2>1, <1>1 DEF MemInv
<1>9. ReaderInv'
  BY <1>1 DEF ReaderInv, Start
<1>10. NoLostWakeup'
  BY <1>1 DEF NoLostWakeup
<1> QED
  BY <1>4, <1>5, <1>6, <1>7, <1>8, <1>9, <1>10

\* Opening: the new reader starts where the stores of the last one ended.
LEMMA OpenInv ==
  ASSUME IInv, OpenStep
  PROVE  IInv'
<1> USE DEF IInv, kernelVars
<1>1. CASE OpenConsumer
  <2> USE <1>1 DEF OpenConsumer
  <2>1. TypeOK'
    <3>0. opens \in Nat /\ consumerPos \in Nat
      BY DEF TypeOK
    <3>1. pos' \in Nat /\ needsWakeup' \in BOOLEAN
      BY <3>0
    <3>4. opens' \in Nat
      BY <3>0
    <3>2. pc' \in Closed \union {"asleep", "checking", "reading", "holding"}
      OBVIOUS
    <3>3. UNCHANGED <<log, mem, producerPos, producer, consumerPos, notified, storeBuffer,
                      posCache, item, head>>
      OBVIOUS
    <3> QED
      BY <3>1, <3>2, <3>3, <3>4 DEF TypeOK
  <2>2. pos' = pos
    BY DEF StoreInv
  <2>3. StoreInv'
    BY <2>2 DEF StoreInv
  <2>4. ReaderInv'
    BY <2>2 DEF ReaderInv, Start
  <2>5. NoLostWakeup'
    BY DEF NoLostWakeup
  <2> QED
    BY <2>1, <2>3, <2>4, <2>5, KernelUnchanged
<1>2. CASE OpenProducer
  <2> USE <1>2 DEF OpenProducer
  <2>1. TypeOK'
    BY DEF TypeOK
  <2>2. StoreInv'
    BY StoresUnchanged
  <2>3. ReaderInv'
    <3>1. /\ Len(log) \in Nat /\ head \in Nat /\ head <= Len(log)
          /\ Len(log) + 1 \notin DOMAIN log
      BY DEF ReaderInv, TypeOK
    <3>2. PICK k \in head + 1 .. Len(log) + 1 : k = Len(log) + 1
      BY <3>1
    <3>3. posCache' = Start(k) /\ Start(k)' = Start(k)
      BY <3>1, <3>2 DEF Start
    <3>4. (pos = Start(head + 1))'
      BY DEF ReaderInv, Start
    <3>5. \E i \in head' + 1 .. Len(log') + 1 : posCache' = Start(i)'
      BY <3>2, <3>3
    <3> QED
      BY <3>1, <3>4, <3>5 DEF ReaderInv
  <2>4. NoLostWakeup'
    BY DEF NoLostWakeup
  <2> QED
    BY <2>1, <2>2, <2>3, <2>4, KernelUnchanged
<1>3. CASE Register
  <2> USE <1>3 DEF Register
  <2>1. TypeOK'
    BY DEF TypeOK
  <2>2. StoreInv'
    BY StoresUnchanged
  <2>3. ReaderInv'
    BY DEF ReaderInv, Start
  <2>4. NoLostWakeup'
    <3>1. SUFFICES ASSUME head < Len(log), consumerPos = producerPos PROVE FALSE
      BY DEF NoLostWakeup
    <3>2. head + 1 \in DOMAIN log
      BY <3>1 DEF TypeOK
    <3>3. pos = log[head + 1].pos /\ storeBuffer = <<>>
      BY <3>2 DEF ReaderInv, StoreInv, Start
    <3>4. log[head + 1].pos < producerPos
      BY <3>2, LogTypes DEF LogInv, TypeOK
    <3> QED
      BY <3>1, <3>3, <3>4 DEF StoreInv, TypeOK
  <2> QED
    BY <2>1, <2>2, <2>3, <2>4, KernelUnchanged
<1> QED
  BY <1>1, <1>2, <1>3 DEF OpenStep

\* Waking up and looking for data. The reader goes to sleep without owing a fence,
\* so every producer that commits from then on sees where it sleeps; whatever was
\* committed before, it has just looked at.
LEMMA LookInv ==
  ASSUME MaskClearsDiscardBit, IInv,
         \/ Wake \/ CachedAvailable \/ FenceBeforeRefresh \/ Refresh
         \/ BusyGiveUp \/ BusyRetry
  PROVE  IInv'
<1> USE DEF IInv, kernelVars
<1>1. CASE Wake
  <2> USE <1>1 DEF Wake
  <2>1. TypeOK'
    BY DEF TypeOK
  <2>2. StoreInv'
    BY StoresUnchanged
  <2>3. ReaderInv'
    BY DEF ReaderInv, Start
  <2>4. NoLostWakeup'
    BY DEF NoLostWakeup
  <2> QED
    BY <2>1, <2>2, <2>3, <2>4, KernelUnchanged
<1>2. CASE CachedAvailable
  <2> USE <1>2 DEF CachedAvailable
  <2>1. TypeOK'
    BY DEF TypeOK
  <2>2. StoreInv'
    BY StoresUnchanged
  <2>3. ReaderInv'
    BY DEF ReaderInv, Start
  <2>4. NoLostWakeup'
    BY DEF NoLostWakeup
  <2> QED
    BY <2>1, <2>2, <2>3, <2>4, KernelUnchanged
<1>3. CASE FenceBeforeRefresh
  <2> USE <1>3 DEF FenceBeforeRefresh, Fence
  <2>1. TypeOK'
    BY DEF TypeOK
  <2>2. StoreInv'
    BY DEF StoreInv
  <2>3. ReaderInv'
    BY DEF ReaderInv, Start
  <2>4. NoLostWakeup'
    BY DEF NoLostWakeup
  <2> QED
    BY <2>1, <2>2, <2>3, <2>4, KernelUnchanged
<1>4. CASE Refresh
  <2> USE <1>4 DEF Refresh
  <2>1. TypeOK'
    BY DEF TypeOK
  <2>2. StoreInv'
    BY StoresUnchanged
  <2>3. /\ Len(log) \in Nat /\ head \in Nat /\ head <= Len(log)
        /\ Len(log) + 1 \notin DOMAIN log /\ DOMAIN log = 1 .. Len(log)
    BY DEF ReaderInv, TypeOK
  <2>4. ReaderInv'
    <3>1. PICK k \in head + 1 .. Len(log) + 1 : k = Len(log) + 1
      BY <2>3
    <3>2. posCache' = Start(k) /\ Start(k)' = Start(k)
      BY <2>3, <3>1 DEF Start
    <3>3. (pos = Start(head + 1))'
      BY DEF ReaderInv, Start
    <3>4. \E i \in head' + 1 .. Len(log') + 1 : posCache' = Start(i)'
      BY <3>1, <3>2
    <3> QED
      BY <2>3, <3>3, <3>4 DEF ReaderInv
  <2>5. NoLostWakeup'
    <3>1. SUFFICES ASSUME head < Len(log), pos = producerPos PROVE FALSE
      BY DEF NoLostWakeup
    <3>2. head + 1 \in DOMAIN log
      BY <2>3, <3>1
    <3>3. pos = log[head + 1].pos
      BY <3>2 DEF ReaderInv, Start
    <3>4. log[head + 1].pos < producerPos
      BY <3>2, LogTypes, SMTT(30) DEF LogInv, TypeOK
    <3> QED
      BY <3>1, <3>3, <3>4 DEF TypeOK
  <2> QED
    BY <2>1, <2>2, <2>4, <2>5, KernelUnchanged
<1>5. CASE BusyGiveUp
  <2> USE <1>5 DEF BusyGiveUp
  <2>1. TypeOK'
    BY DEF TypeOK
  <2>2. StoreInv'
    BY StoresUnchanged
  <2>3. ReaderInv'
    BY DEF ReaderInv, Start, AtHeader
  <2>4. NoLostWakeup'
    <3>1. pc = "reading" /\ Header(pos % Size).st = "busy"
      BY DEF AtHeader
    <3>2. log[head + 1].st = "busy"
      BY <3>1, HeadFacts
    <3> QED
      BY <3>2 DEF NoLostWakeup
  <2> QED
    BY <2>1, <2>2, <2>3, <2>4, KernelUnchanged
<1>6. CASE BusyRetry
  <2> USE <1>6 DEF BusyRetry, Fence
  <2>1. TypeOK'
    BY DEF TypeOK
  <2>2. StoreInv'
    BY DEF StoreInv
  <2>3. ReaderInv'
    BY DEF ReaderInv, Start, AtHeader
  <2>4. NoLostWakeup'
    BY DEF NoLostWakeup
  <2> QED
    BY <2>1, <2>2, <2>3, <2>4, KernelUnchanged
<1> QED
  BY <1>1, <1>2, <1>3, <1>4, <1>5, <1>6

\* Consuming the record at the head: the reader's position and its last store move
\* to the start of the next record together.
LEMMA ConsumeInv ==
  ASSUME MaskClearsDiscardBit, IInv, pc \in {"reading", "holding"},
         Consume(log[head + 1].len),
         pc' = "checking",
         UNCHANGED <<kernelVars, consumerPos, notified, posCache, opens>>,
         item' \in {item, NoItem}
  PROVE  IInv'
<1> USE DEF IInv, kernelVars
<1>1. PICK h \in Nat : h = head + 1
  BY DEF TypeOK
<1>2. /\ h \in DOMAIN log
      /\ pos = log[h].pos
      /\ log[h].len \in Nat
      /\ NextMultipleOf(HdrSz + log[h].len, Align) = RecordSize(log[h].len)
      /\ RecordSize(log[h].len) \in Nat
      /\ pos + RecordSize(log[h].len) = Start(h + 1)
      /\ \E k \in h + 1 .. Len(log) + 1 : posCache = Start(k)
  <2>1. head + 2 = h + 1
    BY <1>1 DEF TypeOK
  <2>2. log[h].len \in Nat /\ h \in DOMAIN log
    BY <1>1, HeadFacts
  <2> QED
    BY <1>1, <2>1, <2>2, HeadFacts, RecordSizeFacts
<1> DEFINE n == RecordSize(log[h].len)
<1> HIDE DEF n
<1>3. /\ pos' = pos + n
      /\ storeBuffer' = Append(storeBuffer, pos')
      /\ needsWakeup' = TRUE
      /\ head' = h
  BY <1>1, <1>2 DEF Consume, n
<1>4. n \in Nat /\ pos \in Nat /\ pos' \in Nat /\ pos <= pos'
  <2>1. n \in Nat
    BY <1>2 DEF n
  <2>2. pos \in Nat
    BY DEF TypeOK
  <2> QED
    BY <2>1, <2>2, <1>3
<1>5. TypeOK'
  <2>1. storeBuffer' \in Seq(Nat)
    BY <1>3, <1>4 DEF TypeOK
  <2>2. item' \in [rec : Nat, len : Nat]
    BY DEF TypeOK
  <2> QED
    BY <1>3, <1>4, <2>1, <2>2 DEF TypeOK
<1>6. StoreInv'
  <2>1. storeBuffer \in Seq(Nat) /\ Len(storeBuffer) \in Nat /\ consumerPos \in Nat
    BY DEF TypeOK
  <2>2. /\ Len(storeBuffer') = Len(storeBuffer) + 1
        /\ storeBuffer' # <<>>
        /\ storeBuffer'[Len(storeBuffer')] = pos'
        /\ DOMAIN storeBuffer' = 1 .. Len(storeBuffer) + 1
        /\ \A i \in DOMAIN storeBuffer : storeBuffer'[i] = storeBuffer[i]
    BY <1>3, <1>4, <2>1
  <2>3. \A i \in DOMAIN storeBuffer : storeBuffer[i] <= pos
    <3>1. SUFFICES ASSUME NEW i \in DOMAIN storeBuffer PROVE storeBuffer[i] <= pos
      OBVIOUS
    <3>2. /\ i <= Len(storeBuffer) /\ Len(storeBuffer) \in DOMAIN storeBuffer
          /\ storeBuffer # <<>>
      BY <2>1
    <3>3. pos = storeBuffer[Len(storeBuffer)]
      BY <3>2 DEF StoreInv
    <3> QED
      BY <3>2, <3>3 DEF StoreInv
  <2>4. \A i \in DOMAIN storeBuffer : storeBuffer[i] \in Nat /\ storeBuffer[i] <= pos'
    BY <1>4, <2>1, <2>3
  <2>5. \A i \in DOMAIN storeBuffer' : consumerPos' <= storeBuffer'[i]
    <3>1. consumerPos <= pos'
      BY <1>4, <2>1, StoreFacts
    <3>2. \A i \in DOMAIN storeBuffer : consumerPos <= storeBuffer[i]
      BY DEF StoreInv
    <3> QED
      BY <2>1, <2>2, <3>1, <3>2
  <2>6. \A i, j \in DOMAIN storeBuffer' : i <= j => storeBuffer'[i] <= storeBuffer'[j]
    <3>1. \A i, j \in DOMAIN storeBuffer : i <= j => storeBuffer[i] <= storeBuffer[j]
      BY DEF StoreInv
    <3> QED
      BY <1>4, <2>1, <2>2, <2>4, <3>1, SMTT(30)
  <2> QED
    BY <1>3, <2>2, <2>5, <2>6 DEF StoreInv
<1>7. ReaderInv'
  <2>1. (pos = Start(head + 1))'
    <3>1. PICK m \in Nat : m = h + 1
      OBVIOUS
    <3>2. Start(m)' = Start(m) /\ pos' = Start(m)
      BY <3>1, <1>2, <1>3 DEF Start, n
    <3>3. Start(m)' = Start(head + 1)'
      BY <3>1, <1>3
    <3> QED
      BY <3>2, <3>3
  <2>2. \E k \in head' + 1 .. Len(log') + 1 : posCache' = Start(k)'
    BY <1>2, <1>3 DEF Start
  <2>3. head' <= Len(log')
    BY <1>2, <1>3 DEF TypeOK
  <2> QED
    BY <2>1, <2>2, <2>3 DEF ReaderInv
<1>8. NoLostWakeup'
  BY DEF NoLostWakeup
<1> QED
  BY <1>5, <1>6, <1>7, <1>8, KernelUnchanged

\* Skipping a discarded record.
LEMMA DiscardInv ==
  ASSUME MaskClearsDiscardBit, IInv, Discard
  PROVE  IInv'
<1>1. pc \in {"reading", "holding"}
  BY DEF Discard, AtHeader
<1>2. Consume(log[head + 1].len)
  BY <1>1, HeadFacts DEF Discard
<1>3. /\ pc' = "checking"
      /\ UNCHANGED <<kernelVars, consumerPos, notified, posCache, opens>>
      /\ item' \in {item, NoItem}
  BY DEF Discard
<1> QED
  BY <1>1, <1>2, <1>3, ConsumeInv

\* Handing out a record: the item is the record at the head, with its own length.
LEMMA DataInv ==
  ASSUME MaskClearsDiscardBit, IInv, Data
  PROVE  IInv'
<1> USE DEF IInv, kernelVars
<1>1. /\ pc = "reading"
      /\ Header(pos % Size).st = "data"
      /\ item' = [rec |-> mem[pos % Size], len |-> MaskedLen(Header(pos % Size))]
      /\ pc' = "holding"
      /\ UNCHANGED <<log, mem, producerPos, producer, consumerPos, notified, storeBuffer,
                     pos, needsWakeup, posCache, head, opens>>
  BY DEF Data, AtHeader
<1>2. /\ item' = [rec |-> head + 1, len |-> log[head + 1].len]
      /\ log[head + 1].st = "data"
      /\ log[head + 1].len \in Nat
  BY <1>1, HeadFacts
<1>3. TypeOK'
  <2>1. head + 1 \in Nat
    BY DEF TypeOK
  <2>2. item' \in [rec : Nat, len : Nat]
    BY <1>2, <2>1
  <2> QED
    BY <1>1, <2>2 DEF TypeOK
<1>4. StoreInv'
  BY <1>1, StoresUnchanged
<1>5. ReaderInv'
  BY <1>1, <1>2 DEF ReaderInv, Start
<1>6. NoLostWakeup'
  BY <1>1 DEF NoLostWakeup
<1> QED
  BY <1>1, <1>3, <1>4, <1>5, <1>6, KernelUnchanged

\* Releasing it.
LEMMA DropItemInv ==
  ASSUME MaskClearsDiscardBit, IInv, DropItem
  PROVE  IInv'
<1>1. /\ pc \in {"reading", "holding"}
      /\ item.len = log[head + 1].len
  BY DEF DropItem, IInv, ReaderInv
<1>2. Consume(log[head + 1].len)
  BY <1>1 DEF DropItem
<1>3. /\ pc' = "checking"
      /\ UNCHANGED <<kernelVars, consumerPos, notified, posCache, opens>>
      /\ item' \in {item, NoItem}
  BY DEF DropItem
<1> QED
  BY <1>1, <1>2, <1>3, ConsumeInv

\* The reader dies; its position stays where its stores end.
LEMMA CloseInv ==
  ASSUME IInv, Close
  PROVE  IInv'
<1> USE DEF IInv, kernelVars, Close
<1>1. TypeOK'
  BY DEF TypeOK
<1>2. StoreInv'
  BY StoresUnchanged
<1>3. ReaderInv'
  BY DEF ReaderInv, Start
<1>4. NoLostWakeup'
  BY DEF NoLostWakeup
<1> QED
  BY <1>1, <1>2, <1>3, <1>4, KernelUnchanged

\* A step that changes nothing keeps the invariant.
LEMMA StutterInv ==
  ASSUME IInv, UNCHANGED vars
  PROVE  IInv'
<1> USE DEF IInv, vars, kernelVars, readerVars
<1>1. TypeOK'
  BY DEF TypeOK
<1>2. StoreInv'
  BY StoresUnchanged
<1>3. ReaderInv'
  BY DEF ReaderInv, Start
<1>4. NoLostWakeup'
  BY DEF NoLostWakeup
<1> QED
  BY <1>1, <1>2, <1>3, <1>4, KernelUnchanged

\* Every step keeps the invariant.
LEMMA NextInv ==
  ASSUME MaskClearsDiscardBit
  PROVE  IInv /\ [Next]_vars => IInv'
<1> SUFFICES ASSUME IInv, [Next]_vars PROVE IInv'
  OBVIOUS
<1>1. ASSUME NEW p \in Producers, NEW len \in PayloadLens, Reserve(p, len) PROVE IInv'
  BY <1>1, ReserveInv
<1>2. ASSUME NEW p \in Producers, CommitStep(p) PROVE IInv'
  BY <1>2, CommitInv DEF CommitStep
<1>3. ASSUME NEW p \in Producers, Notify(p) PROVE IInv'
  BY <1>3, NotifyInv
<1>4. CASE Drain
  BY <1>4, DrainInv
<1>5. CASE OpenStep
  BY <1>5, OpenInv
<1>6. CASE NextStep
  BY <1>6, LookInv, DiscardInv, DataInv, DropItemInv DEF NextStep
<1>7. CASE Close
  BY <1>7, CloseInv
<1>8. CASE UNCHANGED vars
  BY <1>8, StutterInv
<1> QED
  BY <1>1, <1>2, <1>3, <1>4, <1>5, <1>6, <1>7, <1>8 DEF Next

-----------------------------------------------------------------------------
(* The safety theorems *)

\* The inductive invariant holds in every reachable state.
THEOREM InductiveInvariant ==
  ASSUME MaskClearsDiscardBit
  PROVE  Spec => []IInv
<1>1. Init => IInv
  BY InitInv
<1>2. IInv /\ [Next]_vars => IInv'
  BY NextInv
<1> QED
  BY <1>1, <1>2, PTL DEF Spec

\* Every variable keeps its type: in particular no payload is taken for a header.
THEOREM TypeCorrect ==
  ASSUME MaskClearsDiscardBit
  PROVE  Spec => []TypeOK
<1>1. IInv => TypeOK
  BY DEF IInv
<1> QED
  BY <1>1, InductiveInvariant, PTL

\* A sleeping reader with a committed record in front of it has a notification
\* pending or one that a producer is about to send.
THEOREM NoWakeupIsLost ==
  ASSUME MaskClearsDiscardBit
  PROVE  Spec => []NoLostWakeup
<1>1. IInv => NoLostWakeup
  BY DEF IInv
<1> QED
  BY <1>1, InductiveInvariant, PTL

\* The reader never passes the producer.
THEOREM ConsumerStaysBehind ==
  ASSUME MaskClearsDiscardBit
  PROVE  Spec => []ConsumerBehindProducer
<1>1. IInv => ConsumerBehindProducer
  <2> SUFFICES ASSUME IInv PROVE ConsumerBehindProducer
    OBVIOUS
  <2> USE DEF IInv
  <2>1. consumerPos <= pos
    BY StoreFacts
  <2>2. /\ Len(log) \in Nat /\ head \in Nat /\ head <= Len(log)
        /\ pos = Start(head + 1)
        /\ producerPos \in Nat
    BY DEF TypeOK, ReaderInv
  <2>3. CASE head + 1 \in DOMAIN log
    <3>1. pos = log[head + 1].pos
      BY <2>2, <2>3 DEF Start
    <3>2. log[head + 1].pos < End(head + 1) /\ End(head + 1) <= producerPos
      BY <2>3, LogTypes DEF LogInv
    <3>3. log[head + 1].pos \in Nat /\ End(head + 1) \in Nat
      BY <2>3, LogTypes
    <3> QED
      BY <2>1, <2>2, <3>1, <3>2, <3>3 DEF ConsumerBehindProducer
  <2>4. CASE head + 1 \notin DOMAIN log
    <3>1. pos = producerPos
      BY <2>2, <2>4 DEF Start
    <3> QED
      BY <2>1, <2>2, <3>1 DEF ConsumerBehindProducer
  <2> QED
    BY <2>3, <2>4
<1> QED
  BY <1>1, InductiveInvariant, PTL

\* No record that is still to be read, or is being read, is overwritten.
THEOREM UnconsumedStaysIntact ==
  ASSUME MaskClearsDiscardBit
  PROVE  Spec => []UnconsumedIntact
<1>1. IInv => UnconsumedIntact
  <2> SUFFICES ASSUME IInv, NEW i \in head + 1 .. Len(log)
               PROVE  mem[log[i].pos % Size] = i
    BY DEF UnconsumedIntact
  <2> USE DEF IInv
  <2>1. /\ Len(log) \in Nat /\ head \in Nat
        /\ i \in DOMAIN log /\ head + 1 \in DOMAIN log
    BY DEF TypeOK
  <2>2. consumerPos <= log[head + 1].pos
    BY <2>1, StoreFacts DEF ReaderInv, Start
  <2>3. log[head + 1].pos <= log[i].pos
    <3>1. CASE i = head + 1
      BY <3>1, <2>1, LogTypes
    <3>2. CASE i # head + 1
      <4>1. head + 1 < i
        BY <2>1, <3>2
      <4>2. End(head + 1) <= log[i].pos
        BY <2>1, <4>1 DEF LogInv
      <4>3. /\ log[head + 1].pos < End(head + 1)
            /\ log[head + 1].pos \in Nat /\ End(head + 1) \in Nat /\ log[i].pos \in Nat
        BY <2>1, LogTypes
      <4> QED
        BY <4>2, <4>3
    <3> QED
      BY <3>1, <3>2
  <2>4. consumerPos \in Nat /\ log[head + 1].pos \in Nat /\ log[i].pos \in Nat
    BY <2>1, LogTypes DEF TypeOK
  <2> QED
    BY <2>1, <2>2, <2>3, <2>4 DEF MemInv
<1> QED
  BY <1>1, InductiveInvariant, PTL

-----------------------------------------------------------------------------
(* Refinement of the abstract queue *)

\* The statuses of the records, as a sequence.
Status == [i \in DOMAIN log |-> log[i].st]

\* The abstract queue's records are those of the log.
LEMMA StatusFacts ==
  ASSUME TypeOK
  PROVE  /\ Status \in Seq({"busy", "data", "discard"})
         /\ Len(Status) = Len(log)
         /\ DOMAIN Status = DOMAIN log
<1>1. log \in Seq(Record) /\ DOMAIN log = 1 .. Len(log) /\ Len(log) \in Nat
  BY DEF TypeOK
<1>2. \A i \in 1 .. Len(log) : log[i].st \in {"busy", "data", "discard"}
  <2>1. \A i \in 1 .. Len(log) : log[i] \in Record
    BY <1>1
  <2> QED
    BY <2>1 DEF Record
<1> QED
  BY <1>1, <1>2 DEF Status

\* The steps that are invisible to the queue.
LEMMA QueueStutter ==
  ASSUME UNCHANGED <<log, head>>, HeldRecord' = HeldRecord
  PROVE  UNCHANGED Queue!vars
BY DEF Queue!vars

\* reserve is the queue's Reserve.
LEMMA ReserveRefines ==
  ASSUME IInv, NEW p \in Producers, NEW len \in PayloadLens, Reserve(p, len)
  PROVE  Queue!Reserve
<1> USE DEF IInv
<1>1. PICK new \in Record : log' = Append(log, new) /\ new.st = "busy"
  <2> DEFINE r == [pos |-> producerPos, len |-> len, st |-> "busy", flag |-> "default"]
  <2>1. r \in Record /\ r.st = "busy"
    BY DEF TypeOK, Record
  <2>2. log' = Append(log, r)
    BY DEF Reserve
  <2> QED
    BY <2>1, <2>2
<1>2. log \in Seq(Record) /\ log' \in Seq(Record) /\ Len(log') = Len(log) + 1 /\ Len(log) \in Nat
  BY <1>1 DEF TypeOK
<1>3. Status' = Append(Status, "busy")
  <2>1. /\ Len(Status) = Len(log) /\ DOMAIN Status = 1 .. Len(log)
        /\ Status \in Seq({"busy", "data", "discard"})
    BY <1>2, StatusFacts
  <2>2. DOMAIN log' = 1 .. Len(log) + 1
    BY <1>2
  <2>3. /\ \A i \in 1 .. Len(log) : log'[i] = log[i]
        /\ log'[Len(log) + 1] = new
    BY <1>1, <1>2
  <2> DEFINE S == {"busy", "data", "discard"}
  <2>4. /\ Append(Status, "busy") \in Seq(S)
        /\ Len(Append(Status, "busy")) = Len(log) + 1
        /\ \A i \in 1 .. Len(log) : Append(Status, "busy")[i] = Status[i]
        /\ Append(Status, "busy")[Len(log) + 1] = "busy"
    BY <2>1, AppendProperties
  <2>5. /\ \A i \in 1 .. Len(log) : Status'[i] = Status[i]
        /\ Status'[Len(log) + 1] = "busy"
        /\ DOMAIN Status' = 1 .. Len(log) + 1
    BY <1>1, <1>2, <2>2, <2>3 DEF Status
  <2>6. Status' \in Seq(S) /\ Len(Status') = Len(log) + 1
    <3>1. \A i \in 1 .. Len(log) + 1 : Status'[i] \in S
      BY <1>2, <2>1, <2>5
    <3> QED
      BY <1>2, <2>2, <3>1 DEF Status
  <2>7. \A i \in 1 .. Len(log) + 1 : Status'[i] = Append(Status, "busy")[i]
    BY <1>2, <2>4, <2>5
  <2> HIDE DEF S
  <2> QED
    BY <2>4, <2>6, <2>7, SeqEqual
<1>4. UNCHANGED <<head, pc, item>>
  BY DEF Reserve, readerVars
<1> QED
  BY <1>3, <1>4 DEF Queue!Reserve, Status, HeldRecord

\* submit and discard are the queue's Commit.
LEMMA CommitRefines ==
  ASSUME IInv, NEW p \in Producers, CommitStep(p)
  PROVE  \E i \in DOMAIN Status : Queue!Commit(i)
<1> USE DEF IInv
<1>1. PICK outcome \in {"data", "discard"}, flag \in Flags : Commit(p, outcome, flag)
  BY DEF CommitStep
<1>2. PICK r : r = producer[p].rec
  OBVIOUS
<1>3. /\ r \in DOMAIN log
      /\ log[r].st = "busy"
  BY <1>1, <1>2 DEF Commit, ProducerInv
<1>4. /\ log' = [log EXCEPT ![r].st = outcome, ![r].flag = flag]
      /\ UNCHANGED <<head, pc, item>>
  BY <1>1, <1>2 DEF Commit, readerVars
<1>5. Status' = [Status EXCEPT ![r] = outcome]
  <2>1. DOMAIN log' = DOMAIN log
    BY <1>4
  <2>2. log[r] \in Record
    BY <1>3, LogTypes
  <2>3. \A i \in DOMAIN log : i # r => log'[i] = log[i]
    BY <1>4
  <2>4. log'[r] = [[log[r] EXCEPT !.st = outcome] EXCEPT !.flag = flag]
    BY <1>3, <1>4
  <2>5. log'[r].st = outcome
    <3>1. [[log[r] EXCEPT !.st = outcome] EXCEPT !.flag = flag]
            = [pos |-> log[r].pos, len |-> log[r].len, st |-> outcome, flag |-> flag]
      BY <2>2, CommittedRecord
    <3> QED
      BY <2>4, <3>1
  <2> QED
    BY <2>1, <2>3, <2>5 DEF Status
<1>6. Queue!Commit(r)
  BY <1>3, <1>4, <1>5 DEF Queue!Commit, Status, HeldRecord
<1> QED
  BY <1>3, <1>6 DEF Status

\* The reader's steps on a record whose status it has seen.
LEMMA ReadRefines ==
  ASSUME MaskClearsDiscardBit, IInv, Discard \/ Data \/ DropItem
  PROVE  Queue!Skip \/ Queue!Take \/ Queue!Release
<1> USE DEF IInv, kernelVars
<1>0. pc \in {"reading", "holding"}
  BY DEF Discard, Data, DropItem, AtHeader
<1>1. /\ head + 1 \in DOMAIN log
      /\ mem[pos % Size] = head + 1
      /\ Header(pos % Size).st = log[head + 1].st
  BY <1>0, HeadFacts
<1>2. /\ head \in Nat /\ head < Len(Status)
      /\ Status[head + 1] = log[head + 1].st
  <2>1. head \in Nat /\ DOMAIN log = 1 .. Len(log) /\ Len(Status) = Len(log)
    BY StatusFacts DEF TypeOK
  <2> QED
    BY <2>1, <1>1 DEF Status
<1>3. CASE Discard
  <2>1. /\ HeldRecord = 0 /\ HeldRecord' = 0
        /\ Status[head + 1] = "discard"
        /\ head' = head + 1
        /\ UNCHANGED log
    BY <1>1, <1>2, <1>3 DEF Discard, AtHeader, Consume, HeldRecord
  <2> QED
    BY <1>2, <2>1 DEF Queue!Skip, Queue!AtHead, Status
<1>4. CASE Data
  <2>1. /\ HeldRecord = 0 /\ HeldRecord' = head + 1
        /\ Status[head + 1] = "data"
        /\ UNCHANGED <<log, head>>
    BY <1>1, <1>2, <1>4 DEF Data, AtHeader, HeldRecord
  <2> QED
    BY <1>2, <2>1 DEF Queue!Take, Queue!AtHead, Status
<1>5. CASE DropItem
  <2>1. /\ HeldRecord = head + 1 /\ HeldRecord' = 0
        /\ head' = head + 1
        /\ UNCHANGED log
    BY <1>5 DEF DropItem, Consume, HeldRecord, ReaderInv
  <2> QED
    BY <1>2, <2>1 DEF Queue!Release, Status
<1> QED
  BY <1>3, <1>4, <1>5

\* Every step is a step of the queue or leaves it unchanged.
LEMMA NextRefines ==
  ASSUME MaskClearsDiscardBit
  PROVE  IInv /\ [Next]_vars => [Queue!Next]_(Queue!vars)
<1> SUFFICES ASSUME IInv, [Next]_vars PROVE Queue!Next \/ UNCHANGED Queue!vars
  OBVIOUS
<1>1. ASSUME NEW p \in Producers, NEW len \in PayloadLens, Reserve(p, len)
      PROVE  Queue!Next
  BY <1>1, ReserveRefines DEF Queue!Next
<1>2. ASSUME NEW p \in Producers, CommitStep(p)
      PROVE  Queue!Next
  BY <1>2, CommitRefines DEF Queue!Next, Status
<1>3. ASSUME NEW p \in Producers, Notify(p)
      PROVE  UNCHANGED Queue!vars
  BY <1>3, QueueStutter DEF Notify, readerVars, HeldRecord
<1>4. CASE Drain
  BY <1>4, QueueStutter DEF Drain, kernelVars, readerVars, HeldRecord
<1>5. CASE OpenStep
  BY <1>5, QueueStutter
     DEF OpenStep, OpenConsumer, OpenProducer, Register, kernelVars, HeldRecord
<1>6. CASE NextStep
  <2>1. CASE Discard \/ Data \/ DropItem
    BY <2>1, ReadRefines DEF Queue!Next
  <2>2. CASE Wake \/ CachedAvailable \/ FenceBeforeRefresh \/ Refresh \/ BusyGiveUp \/ BusyRetry
    BY <2>2, QueueStutter
       DEF Wake, CachedAvailable, FenceBeforeRefresh, Refresh, BusyGiveUp, BusyRetry,
           AtHeader, kernelVars, HeldRecord
  <2> QED
    BY <1>6, <2>1, <2>2 DEF NextStep
<1>7. CASE Close
  <2>1. HeldRecord' = 0 /\ UNCHANGED <<log, head>>
    BY <1>7 DEF Close, kernelVars, HeldRecord
  <2>2. CASE HeldRecord = 0
    BY <2>1, <2>2, QueueStutter
  <2>3. CASE HeldRecord # 0
    BY <2>1, <2>3 DEF Queue!Next, Queue!Abandon
  <2> QED
    BY <2>2, <2>3
<1>8. CASE UNCHANGED vars
  BY <1>8, QueueStutter DEF vars, kernelVars, readerVars, HeldRecord
<1> QED
  BY <1>1, <1>2, <1>3, <1>4, <1>5, <1>6, <1>7, <1>8 DEF Next

\* The ring buffer implements the queue: its reader is handed the records in the order
\* in which they were reserved, each data record until it is released.
THEOREM RingBufImplementsQueue ==
  ASSUME MaskClearsDiscardBit
  PROVE  Spec => QueueSpec
<1>1. Init => Queue!Init
  BY DEF Init, Queue!Init, HeldRecord
<1>2. IInv /\ [Next]_vars => [Queue!Next]_(Queue!vars)
  BY NextRefines
<1>3. Spec => []IInv
  BY InductiveInvariant
<1> QED
  BY <1>1, <1>2, <1>3, PTL DEF Spec, QueueSpec, Queue!Spec
=============================================================================
