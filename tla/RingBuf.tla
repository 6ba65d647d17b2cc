------------------------------ MODULE RingBuf ------------------------------
(***************************************************************************)
(* The BPF ring buffer: eBPF programs on several CPUs reserve and commit   *)
(* records (ebpf/aya-ebpf/src/maps/ring_buf.rs, and the kernel behind its  *)
(* helpers), and one user-space reader consumes them through two shared    *)
(* memory words and the data pages (aya/src/maps/ring_buf.rs).             *)
(*                                                                         *)
(* The reader sleeps on the map's file descriptor when `next` returns      *)
(* None. It is told once, by the producer that commits the record the      *)
(* reader is waiting for, and that producer decides from the consumer      *)
(* position it can see. The reader's store to that position may linger in  *)
(* its CPU's store buffer past its later loads: storeBuffer models that    *)
(* reordering, and a SeqCst fence waits for it to empty.                   *)
(*                                                                         *)
(* Positions are byte counts since the map was created. The word-sized     *)
(* wrap-around of the real counters is not modelled.                       *)
(***************************************************************************)
EXTENDS Integers, Sequences

CONSTANTS
  Producers,    \* contexts that run eBPF programs, each with one open record
  Size,         \* the map's max_entries: the bytes of the data pages
  HdrSz,        \* BPF_RINGBUF_HDR_SZ
  Align,        \* the alignment of records, 8 in the code
  DiscardBit,   \* BPF_RINGBUF_DISCARD_BIT, as a number
  PayloadLens,  \* the payload sizes programs ask for
  Flags,        \* how commits wake the reader: "default", "no_wakeup", "force_wakeup"
  MaxRecords,   \* bound: records ever reserved
  MaxOpens      \* bound: readers ever opened; the last one does not die

ASSUME ProducersAssumption == 0 \notin Producers
ASSUME LayoutAssumption ==
  /\ Size \in Nat \ {0}
  /\ HdrSz \in Nat \ {0}
  /\ Align \in Nat \ {0}
  /\ DiscardBit \in Nat
  /\ PayloadLens \subseteq 0 .. Size - 1
ASSUME FlagsAssumption == Flags \subseteq {"default", "no_wakeup", "force_wakeup"}
ASSUME BoundsAssumption == MaxRecords \in Nat /\ MaxOpens \in Nat \ {0}

VARIABLES
  log,          \* every record ever reserved, in order (a history of the data pages)
  mem,          \* the data pages: what each offset holds
  producerPos,  \* shared word: end of the last reservation
  consumerPos,  \* shared word: the reader's position as producers see it
  producer,     \* what each context is doing
  notified,     \* the file descriptor has an edge the reader has not taken yet
  storeBuffer,  \* the reader's stores to consumerPos that are not visible yet
  pos,          \* ConsumerPos::pos
  needsWakeup,  \* ConsumerPos::needs_wakeup
  posCache,     \* ProducerData::pos_cache
  pc,           \* where the reader is
  item,         \* the outstanding RingBufItem
  head,         \* history: records the reader has consumed
  opens         \* readers opened so far

kernelVars == <<log, mem, producerPos, producer>>
readerVars == <<pos, needsWakeup, posCache, pc, item, head, opens>>
vars == <<kernelVars, consumerPos, notified, storeBuffer, readerVars>>

-----------------------------------------------------------------------------
(* Layout. An offset of the data pages holds the header of a record (the   *)
(* record's number in the log), payload bytes, or what the kernel's        *)
(* zeroed pages held.                                                      *)

Zero == 0
Payload == -1
Offsets == 0 .. Size - 1

\* usize::next_multiple_of.
NextMultipleOf(n, m) == IF n % m = 0 THEN n ELSE n + (m - (n % m))

\* The bytes a record with a payload of len bytes takes, as the kernel counts them.
RecordSize(len) == NextMultipleOf(HdrSz + len, Align)

\* The offsets that n bytes from position p on occupy.
Span(p, n) == {a % Size : a \in p .. p + n - 1}

\* The header word at an offset. Anything but a header reads as a committed
\* record of no length.
Header(o) ==
  IF mem[o] \in DOMAIN log
  THEN [st |-> log[mem[o]].st, len |-> log[mem[o]].len]
  ELSE [st |-> "data", len |-> 0]

\* Seeded fault: the discard bit stays in the length.
UnmaskedLen(h) == h.len + (IF h.st = "discard" THEN DiscardBit ELSE 0)

\* `header & mask`, with mask = Size - 1. The mask clears the discard bit only
\* when the bit is a multiple of Size.
MaskedLen(h) == (h.len + (IF h.st = "discard" THEN DiscardBit ELSE 0)) % Size

NoItem == [rec |-> 0, len |-> 0]
Idle == [st |-> "idle", rec |-> 0]
Closed == {"closed", "opening", "opened"}

-----------------------------------------------------------------------------
(* Producers: the kernel side of bpf_ringbuf_reserve, _submit, _discard     *)

\* Reserve a record, or do nothing when the ring is full. The header is written
\* busy before the producer position that covers it is released.
Reserve(p, len) ==
  /\ producer[p].st = "idle"
  /\ Len(log) < MaxRecords
  /\ producerPos + RecordSize(len) - consumerPos <= Size - 1
  /\ log' = Append(log, [pos |-> producerPos, len |-> len, st |-> "busy", flag |-> "default"])
  /\ mem' = [o \in Offsets |->
               IF o = producerPos % Size THEN Len(log) + 1
               ELSE IF o \in Span(producerPos, RecordSize(len)) THEN Payload
               ELSE mem[o]]
  /\ producerPos' = producerPos + RecordSize(len)
  /\ producer' = [producer EXCEPT ![p] = [st |-> "reserved", rec |-> Len(log) + 1]]
  /\ UNCHANGED <<consumerPos, notified, storeBuffer, readerVars>>

\* submit or discard: a fully ordered exchange clears the busy bit.
Commit(p, outcome, flag) ==
  /\ producer[p].st = "reserved"
  /\ log' = [log EXCEPT ![producer[p].rec].st = outcome, ![producer[p].rec].flag = flag]
  /\ producer' = [producer EXCEPT ![p].st = "committed"]
  /\ UNCHANGED <<mem, producerPos, consumerPos, notified, storeBuffer, readerVars>>

\* Only then is the consumer position read. The reader is woken if it is at this
\* record's offset, unless the flags decide.
WakesReader(r) ==
  \/ log[r].flag = "force_wakeup"
  \/ log[r].flag = "default" /\ consumerPos % Size = log[r].pos % Size

Notify(p) ==
  /\ producer[p].st = "committed"
  /\ producer' = [producer EXCEPT ![p] = Idle]
  /\ notified' = (notified \/ (pc \notin Closed /\ WakesReader(producer[p].rec)))
  /\ UNCHANGED <<log, mem, producerPos, consumerPos, storeBuffer, readerVars>>

-----------------------------------------------------------------------------
(* The reader's CPU *)

\* The oldest delayed store becomes visible.
Drain ==
  /\ storeBuffer # <<>>
  /\ consumerPos' = Head(storeBuffer)
  /\ storeBuffer' = Tail(storeBuffer)
  /\ UNCHANGED <<kernelVars, notified, readerVars>>

\* Seeded fault: the flag is cleared without a fence.
FenceOmitted == needsWakeup' = FALSE

\* atomic::fence(SeqCst), then needs_wakeup = false.
Fence ==
  /\ storeBuffer = <<>>
  /\ needsWakeup' = FALSE

-----------------------------------------------------------------------------
(* The reader *)

\* Seeded fault: a reader assumes that the map was never used.
OpenConsumerAtZero ==
  /\ pc = "closed"
  /\ storeBuffer = <<>>
  /\ pos' = 0
  /\ needsWakeup' = FALSE
  /\ opens' = opens + 1
  /\ pc' = "opening"
  /\ UNCHANGED <<kernelVars, consumerPos, notified, storeBuffer, posCache, item, head>>

\* ConsumerPos::new. The mmap it follows orders it after the stores of a reader
\* that is gone.
OpenConsumer ==
  /\ pc = "closed"
  /\ storeBuffer = <<>>
  /\ pos' = consumerPos
  /\ needsWakeup' = FALSE
  /\ opens' = opens + 1
  /\ pc' = "opening"
  /\ UNCHANGED <<kernelVars, consumerPos, notified, storeBuffer, posCache, item, head>>

\* ProducerData::new.
OpenProducer ==
  /\ pc = "opening"
  /\ posCache' = producerPos
  /\ pc' = "opened"
  /\ UNCHANGED <<kernelVars, consumerPos, notified, storeBuffer,
                 pos, needsWakeup, item, head, opens>>

\* Registering the file descriptor for edges reports at once a ring that is not empty.
Register ==
  /\ pc = "opened"
  /\ notified' = (consumerPos # producerPos)
  /\ pc' = "asleep"
  /\ UNCHANGED <<kernelVars, consumerPos, storeBuffer,
                 pos, needsWakeup, posCache, item, head, opens>>

\* `readable` returns. An edge that arrives from here on survives `clear_ready`,
\* which only clears the readiness this guard saw.
Wake ==
  /\ pc = "asleep"
  /\ notified
  /\ notified' = FALSE
  /\ pc' = "checking"
  /\ UNCHANGED <<kernelVars, consumerPos, storeBuffer,
                 pos, needsWakeup, posCache, item, head, opens>>

\* data_available with a cached producer position ahead of the reader.
CachedAvailable ==
  /\ pc = "checking"
  /\ pos # posCache
  /\ pc' = "reading"
  /\ UNCHANGED <<kernelVars, consumerPos, notified, storeBuffer,
                 pos, needsWakeup, posCache, item, head, opens>>

\* data_available when the reader looks caught up and consumed since the last fence.
FenceBeforeRefresh ==
  /\ pc = "checking"
  /\ pos = posCache
  /\ needsWakeup
  /\ Fence
  /\ UNCHANGED <<kernelVars, consumerPos, notified, storeBuffer,
                 pos, posCache, pc, item, head, opens>>

\* data_available reloads the producer position. Equality alone decides; at
\* equality `next` returns None and the application waits.
Refresh ==
  /\ pc = "checking"
  /\ pos = posCache
  /\ ~needsWakeup
  /\ posCache' = producerPos
  /\ pc' = IF pos # producerPos THEN "reading" ELSE "asleep"
  /\ UNCHANGED <<kernelVars, consumerPos, notified, storeBuffer,
                 pos, needsWakeup, item, head, opens>>

\* Seeded fault: the busy bit is not looked at.
AtHeaderIgnoringBusy(st) ==
  /\ pc = "reading"
  /\ st # "busy"
  /\ Header(pos % Size).st \in (IF st = "data" THEN {"data", "busy"} ELSE {st})

AtHeader(st) ==
  /\ pc = "reading"
  /\ Header(pos % Size).st = st

\* A busy record, and nothing was consumed since the last fence: `next` returns None.
BusyGiveUp ==
  /\ AtHeader("busy")
  /\ ~needsWakeup
  /\ pc' = "asleep"
  /\ UNCHANGED <<kernelVars, consumerPos, notified, storeBuffer,
                 pos, needsWakeup, posCache, item, head, opens>>

\* A busy record after consuming: fence and look at it once more.
BusyRetry ==
  /\ AtHeader("busy")
  /\ needsWakeup
  /\ Fence
  /\ pc' = "checking"
  /\ UNCHANGED <<kernelVars, consumerPos, notified, storeBuffer,
                 pos, posCache, item, head, opens>>

\* Seeded fault: the reader does not round the record up.
ConsumeUnaligned(len) ==
  /\ pos' = pos + HdrSz + len
  /\ storeBuffer' = Append(storeBuffer, pos')
  /\ needsWakeup' = TRUE
  /\ head' = head + 1

\* Seeded fault: consuming does not ask for a fence.
ConsumeWithoutWakeup(len) ==
  /\ pos' = pos + NextMultipleOf(HdrSz + len, Align)
  /\ storeBuffer' = Append(storeBuffer, pos')
  /\ head' = head + 1
  /\ UNCHANGED needsWakeup

\* ConsumerPos::consume.
Consume(len) ==
  /\ pos' = pos + NextMultipleOf(HdrSz + len, Align)
  /\ storeBuffer' = Append(storeBuffer, pos')
  /\ needsWakeup' = TRUE
  /\ head' = head + 1

Discard ==
  /\ AtHeader("discard")
  /\ Consume(MaskedLen(Header(pos % Size)))
  /\ pc' = "checking"
  /\ UNCHANGED <<kernelVars, consumerPos, notified, posCache, item, opens>>

\* Seeded fault: the position is published while the item still borrows the record.
DataReleasedEarly ==
  /\ AtHeader("data")
  /\ item' = [rec |-> mem[pos % Size], len |-> MaskedLen(Header(pos % Size))]
  /\ storeBuffer' = Append(storeBuffer, pos + RecordSize(item'.len))
  /\ pc' = "holding"
  /\ UNCHANGED <<kernelVars, consumerPos, notified,
                 pos, needsWakeup, posCache, head, opens>>

\* `next` returns the item. The position moves only when the item is dropped.
Data ==
  /\ AtHeader("data")
  /\ item' = [rec |-> mem[pos % Size], len |-> MaskedLen(Header(pos % Size))]
  /\ pc' = "holding"
  /\ UNCHANGED <<kernelVars, consumerPos, notified, storeBuffer,
                 pos, needsWakeup, posCache, head, opens>>

\* Drop for RingBufItem; the application calls `next` again until it returns None.
DropItem ==
  /\ pc = "holding"
  /\ Consume(item.len)
  /\ item' = NoItem
  /\ pc' = "checking"
  /\ UNCHANGED <<kernelVars, consumerPos, notified, posCache, opens>>

\* The reader's process dies anywhere, or drops the RingBuf between two items.
\* What it stored still becomes visible.
Close ==
  /\ pc # "closed"
  /\ opens < MaxOpens
  /\ item' = NoItem
  /\ notified' = FALSE
  /\ pc' = "closed"
  /\ UNCHANGED <<kernelVars, consumerPos, storeBuffer,
                 pos, needsWakeup, posCache, head, opens>>

-----------------------------------------------------------------------------
Init ==
  /\ log = <<>>
  /\ mem = [o \in Offsets |-> Zero]
  /\ producerPos = 0
  /\ consumerPos = 0
  /\ producer = [p \in Producers |-> Idle]
  /\ notified = FALSE
  /\ storeBuffer = <<>>
  /\ pos = 0
  /\ needsWakeup = FALSE
  /\ posCache = 0
  /\ pc = "closed"
  /\ item = NoItem
  /\ head = 0
  /\ opens = 0

CommitStep(p) ==
  \E outcome \in {"data", "discard"}, flag \in Flags : Commit(p, outcome, flag)

OpenStep == OpenConsumer \/ OpenProducer \/ Register

NextStep ==
  \/ Wake
  \/ CachedAvailable
  \/ FenceBeforeRefresh
  \/ Refresh
  \/ BusyGiveUp
  \/ BusyRetry
  \/ Discard
  \/ Data
  \/ DropItem

Next ==
  \/ \E p \in Producers, len \in PayloadLens : Reserve(p, len)
  \/ \E p \in Producers : CommitStep(p)
  \/ \E p \in Producers : Notify(p)
  \/ Drain
  \/ OpenStep
  \/ NextStep
  \/ Close

Spec == Init /\ [][Next]_vars

\* The verifier makes every program commit what it reserved and programs do not
\* block; CPUs make stores visible; the application reads until None, drops its
\* items, and a reader that died is started again (MaxOpens times).
Fairness ==
  /\ \A p \in Producers : WF_vars(CommitStep(p)) /\ WF_vars(Notify(p))
  /\ WF_vars(Drain)
  /\ WF_vars(OpenStep)
  /\ WF_vars(NextStep)

FairSpec == Spec /\ Fairness

-----------------------------------------------------------------------------
(* Properties *)

Record == [pos : Nat, len : PayloadLens, st : {"busy", "data", "discard"},
           flag : Flags \union {"default"}]
ProducerState == [st : {"idle", "reserved", "committed"}, rec : Nat]

TypeOK ==
  /\ log \in Seq(Record)
  /\ mem \in [Offsets -> Int]
  /\ producerPos \in Nat
  /\ consumerPos \in Nat
  /\ producer \in [Producers -> ProducerState]
  /\ notified \in BOOLEAN
  /\ storeBuffer \in Seq(Nat)
  /\ pos \in Nat
  /\ needsWakeup \in BOOLEAN
  /\ posCache \in Nat
  /\ pc \in Closed \union {"asleep", "checking", "reading", "holding"}
  /\ item \in [rec : Nat, len : Nat]   \* never payload taken for a header
  /\ head \in Nat
  /\ opens \in Nat

\* "we ... assume that the consumer position is always logically less than the
\* producer position" (data_available): the reader, whose only test is equality,
\* never passes the producer.
ConsumerBehindProducer ==
  /\ consumerPos <= pos
  /\ pos <= producerPos

\* Every record not yet consumed is intact in the data pages: its header is where
\* the reader will look for it, whatever was reserved since, also while an item
\* borrows it.
UnconsumedIntact ==
  \A i \in head + 1 .. Len(log) : mem[log[i].pos % Size] = i

\* "a notification will be sent if the consumer is caught up at the time of
\* committing": a reader that sleeps with a committed record in front of it has
\* an edge pending, or the producer of that record is still about to send it.
\* NO_WAKEUP is the program's own choice.
NoLostWakeup ==
  (/\ pc = "asleep"
   /\ ~notified
   /\ head < Len(log)
   /\ log[head + 1].st # "busy"
   /\ log[head + 1].flag # "no_wakeup")
  => \E p \in Producers : producer[p] = [st |-> "committed", rec |-> head + 1]

-----------------------------------------------------------------------------
(* The inductive invariant behind these properties *)

Start(i) == IF i \in DOMAIN log THEN log[i].pos ELSE producerPos
End(i) == log[i].pos + RecordSize(log[i].len)

\* The records follow each other without gaps.
LogInv ==
  /\ \A i \in DOMAIN log : End(i) = Start(i + 1) /\ End(i) <= producerPos
  /\ \A i, j \in DOMAIN log : i < j => End(i) <= log[j].pos

\* A record is busy exactly while the one context that reserved it has it open.
ProducerInv ==
  /\ \A p \in Producers : producer[p].st # "idle" =>
       /\ producer[p].rec \in DOMAIN log
       /\ producer[p].st = "reserved" <=> log[producer[p].rec].st = "busy"
  /\ \A p, q \in Producers :
       (p # q /\ producer[p].st = "reserved" /\ producer[q].st = "reserved")
       => producer[p].rec # producer[q].rec

\* Delayed stores become visible in order and end at the reader's position; a
\* reader that owes no fence has none. Producers stay within a ring of what they see.
StoreInv ==
  /\ \A i \in DOMAIN storeBuffer : consumerPos <= storeBuffer[i]
  /\ \A i, j \in DOMAIN storeBuffer : i <= j => storeBuffer[i] <= storeBuffer[j]
  /\ pos = (IF storeBuffer = <<>> THEN consumerPos ELSE storeBuffer[Len(storeBuffer)])
  /\ ~needsWakeup => storeBuffer = <<>>
  /\ producerPos - consumerPos <= Size - 1

\* Nothing a producer may still need to keep is overwritten.
MemInv == \A i \in DOMAIN log : consumerPos <= log[i].pos => mem[log[i].pos % Size] = i

\* The reader stands at the first record it has not consumed, and its cached
\* producer position is the start of that record or of a later one.
ReaderInv ==
  /\ head <= Len(log)
  /\ pos = Start(head + 1)
  /\ pc \notin {"closed", "opening"} =>
       \E k \in head + 1 .. Len(log) + 1 : posCache = Start(k)
  /\ pc \in {"reading", "holding"} => pos # posCache
  /\ pc \in {"opening", "opened", "asleep"} => ~needsWakeup
  /\ pc = "holding" =>
       /\ item = [rec |-> head + 1, len |-> log[head + 1].len]
       /\ log[head + 1].st = "data"

IInv ==
  /\ TypeOK
  /\ LogInv
  /\ ProducerInv
  /\ StoreInv
  /\ MemInv
  /\ ReaderInv
  /\ NoLostWakeup

-----------------------------------------------------------------------------
\* The reader is handed the records in the order of reservation, each data record
\* until it is released and no discarded one: RingBuf implements RecordQueue.
HeldRecord == IF pc = "holding" THEN item.rec ELSE 0

Queue == INSTANCE RecordQueue WITH
  status <- [i \in DOMAIN log |-> log[i].st],
  head   <- head,
  item   <- HeldRecord

QueueSpec == Queue!Spec

\* Every record is eventually consumed, although the reader sleeps and may die and
\* start again. Only for programs that leave the notification to the kernel.
EventuallyConsumed ==
  \A i \in 1 .. MaxRecords : (Len(log) >= i) ~> (head >= i)
=============================================================================
