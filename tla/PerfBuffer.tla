----------------------------- MODULE PerfBuffer -----------------------------
(***************************************************************************)
(* One CPU's perf event array buffer (aya/src/maps/perf/perf_buffer.rs):   *)
(* the kernel writes samples and, after it had to drop some, a record that *)
(* says how many; user space folds over the records between its own        *)
(* data_tail and the data_head it saw when it began.                       *)
(*                                                                         *)
(* Unlike the BPF ring buffer the reader publishes its position once, when *)
(* the fold ends: at the last record, because the callback broke off, or   *)
(* because it panicked. Until then the callbacks borrow the data pages.    *)
(*                                                                         *)
(* Positions count units of four bytes. What an offset of the data pages   *)
(* holds is named by the position that was written there last.             *)
(***************************************************************************)
EXTENDS Integers, Sequences

CONSTANTS
  Size,        \* units in the data pages; a power of two
  HdrSz,       \* perf_event_header, 2 units
  LostSz,      \* a LOST record: header, id and count, 6 units
  SampleLens,  \* payloads with their padding: odd, so that records are 8-byte aligned
  MaxSamples   \* bound: samples that programs output

ASSUME SizesAssumption ==
  /\ Size \in Nat \ {0} /\ HdrSz \in Nat \ {0}
  /\ LostSz \in Nat /\ LostSz >= HdrSz + 2
  /\ SampleLens \subseteq Nat /\ MaxSamples \in Nat

VARIABLES
  log,       \* every record written, in order (a history of the data pages)
  outputs,   \* how often a program called bpf_perf_event_output
  lost,      \* samples dropped and not reported yet
  written,   \* end of what the kernel wrote, maybe not published yet
  dataHead,  \* perf_event_mmap_page::data_head
  dataTail,  \* perf_event_mmap_page::data_tail
  wakeup,    \* the kernel still has to wake the reader for what it published
  ready,     \* poll would report the descriptor readable
  pc,        \* where the reader is
  limit,     \* try_fold: the data_head it saw
  tail,      \* try_fold: its local tail
  event,     \* the PerfEvent the callback is looking at
  seen       \* history: events given to the callback

kernelVars == <<log, outputs, lost, written, dataHead, wakeup>>
foldVars == <<limit, tail, event, seen>>
vars == <<kernelVars, dataTail, ready, pc, foldVars>>

-----------------------------------------------------------------------------
(* The data pages *)

\* A sample has a header, the size of the payload, and the payload.
SampleSize(len) == HdrSz + 1 + len
RecordSize(r) == IF r.kind = "sample" THEN SampleSize(r.len) ELSE LostSz

\* The position last written at offset o, or -1.
Unit(o) ==
  LET p == written - 1 - ((written - 1 - o) % Size) IN IF p < 0 THEN -1 ELSE p

\* The units in n offsets from o on, without wrapping.
Units(o, n) == [k \in 1 .. n |-> Unit(o + k - 1)]

\* The units that the record's payload was written to, or where the count is.
Written(r) ==
  IF r.kind = "sample"
  THEN [k \in 1 .. r.len |-> r.pos + HdrSz + k]
  ELSE <<r.pos + LostSz - 2>>

\* The record whose header starts with unit u; another unit is no header.
IsHeader(u, i) == i \in DOMAIN log /\ log[i].pos = u

NoEvent == [kind |-> "none", units |-> <<>>]

-----------------------------------------------------------------------------
(* The kernel *)

\* bpf_perf_event_output: all that is due is written, or the sample is dropped. The
\* kernel keeps at least a byte free. A program can interrupt another before the
\* outer one publishes.
HasSpace(n) == written + n - dataTail <= Size - 1

Due(len) ==
  IF lost = 0
  THEN <<[pos |-> written, kind |-> "sample", len |-> len]>>
  ELSE <<[pos |-> written, kind |-> "lost", len |-> lost],
         [pos |-> written + LostSz, kind |-> "sample", len |-> len]>>

DueSize(len) == SampleSize(len) + (IF lost = 0 THEN 0 ELSE LostSz)

Output(len) ==
  /\ outputs < MaxSamples
  /\ outputs' = outputs + 1
  /\ IF HasSpace(DueSize(len))
     THEN /\ log' = log \o Due(len)
          /\ written' = written + DueSize(len)
          /\ lost' = 0
     ELSE /\ lost' = lost + 1
          /\ UNCHANGED <<log, written>>
  /\ UNCHANGED <<dataHead, wakeup, dataTail, ready, pc, foldVars>>

Publish ==
  /\ dataHead # written
  /\ dataHead' = written
  /\ wakeup' = TRUE
  /\ UNCHANGED <<log, outputs, lost, written, dataTail, ready, pc, foldVars>>

\* WakeupPolicy::Events(1): every published event makes the descriptor readable.
WakeReader ==
  /\ wakeup
  /\ wakeup' = FALSE
  /\ ready' = TRUE
  /\ UNCHANGED <<log, outputs, lost, written, dataHead, dataTail, pc, foldVars>>

-----------------------------------------------------------------------------
(* The reader *)

\* poll returns and takes the readiness with it.
Wake ==
  /\ pc = "polling"
  /\ ready
  /\ ready' = FALSE
  /\ pc' = "ready"
  /\ UNCHANGED <<kernelVars, dataTail, foldVars>>

\* try_fold: the only look at data_head.
Begin ==
  /\ pc = "ready"
  /\ limit' = dataHead
  /\ tail' = dataTail
  /\ pc' = "folding"
  /\ UNCHANGED <<kernelVars, dataTail, ready, event, seen>>

\* The one or two slices that hold len units from offset start on.
Slices(start, len) ==
  IF start + len >= Size
  THEN Units(start, Size - start) \o Units(0, start + len - Size)
  ELSE Units(start, len)

\* Seeded fault: the payload is read one unit too far.
ParseBeyondRecord(i, start) ==
  IF log[i].kind = "sample"
  THEN [kind |-> "sample", units |-> Slices((start + HdrSz + 2) % Size, log[i].len)]
  ELSE [kind |-> "lost", units |-> <<Unit((start + LostSz - 2) % Size)>>]

\* What a record's bytes make of it: a sample of the size its prefix says, or the
\* count of a LOST record. Each field is read at its own offset modulo Size.
Parse(i, start) ==
  IF log[i].kind = "sample"
  THEN [kind |-> "sample", units |-> Slices((start + HdrSz + 1) % Size, log[i].len)]
  ELSE [kind |-> "lost", units |-> <<Unit((start + LostSz - 2) % Size)>>]

\* Seeded fault: the position is published before the callback has seen the event.
NextEventReleasedEarly ==
  /\ pc = "folding"
  /\ tail # limit
  /\ \E i \in DOMAIN log :
       /\ IsHeader(Unit(tail % Size), i)
       /\ tail' = tail + RecordSize(log[i])
       /\ event' = Parse(i, tail % Size)
  /\ dataTail' = tail'
  /\ seen' = seen + 1
  /\ pc' = "calling"
  /\ UNCHANGED <<kernelVars, ready, limit>>

\* The next record: the local tail moves past it before the callback runs.
NextEvent ==
  /\ pc = "folding"
  /\ tail # limit
  /\ \E i \in DOMAIN log :
       /\ IsHeader(Unit(tail % Size), i)
       /\ tail' = tail + RecordSize(log[i])
       /\ event' = Parse(i, tail % Size)
  /\ seen' = seen + 1
  /\ pc' = "calling"
  /\ UNCHANGED <<kernelVars, dataTail, ready, limit>>

\* The callback returns Continue.
Continue ==
  /\ pc = "calling"
  /\ event' = NoEvent
  /\ pc' = "folding"
  /\ UNCHANGED <<kernelVars, dataTail, ready, limit, tail, seen>>

\* The guard publishes the local tail, whichever way the fold is left.
Commit == dataTail' = tail

\* Seeded fault: leaving early publishes nothing.
BreakWithoutCommit ==
  /\ pc = "calling"
  /\ UNCHANGED dataTail
  /\ event' = NoEvent
  /\ pc' = "ready"
  /\ UNCHANGED <<kernelVars, ready, limit, tail, seen>>

\* The callback breaks off or panics. The application folds again without waiting.
Break ==
  /\ pc = "calling"
  /\ Commit
  /\ event' = NoEvent
  /\ pc' = "ready"
  /\ UNCHANGED <<kernelVars, ready, limit, tail, seen>>

\* Seeded fault: an event that arrived during the fold is taken for one it has seen.
FinishClearingReady ==
  /\ pc = "folding"
  /\ tail = limit
  /\ Commit
  /\ ready' = FALSE
  /\ pc' = "polling"
  /\ UNCHANGED <<kernelVars, foldVars>>

\* No record is left; the application waits.
Finish ==
  /\ pc = "folding"
  /\ tail = limit
  /\ Commit
  /\ pc' = "polling"
  /\ UNCHANGED <<kernelVars, ready, foldVars>>

-----------------------------------------------------------------------------
Init ==
  /\ log = <<>> /\ outputs = 0 /\ lost = 0
  /\ written = 0 /\ dataHead = 0 /\ dataTail = 0
  /\ wakeup = FALSE /\ ready = FALSE
  /\ pc = "polling"
  /\ limit = 0 /\ tail = 0
  /\ event = NoEvent
  /\ seen = 0

ReaderStep == Wake \/ Begin \/ NextEvent \/ Continue \/ Break \/ Finish

Next ==
  \/ \E len \in SampleLens : Output(len)
  \/ Publish
  \/ WakeReader
  \/ ReaderStep

Spec == Init /\ [][Next]_vars

\* The kernel publishes and wakes; the application keeps folding.
FairSpec == Spec /\ WF_vars(Publish) /\ WF_vars(WakeReader) /\ WF_vars(ReaderStep)

-----------------------------------------------------------------------------
(* Properties *)

TypeOK ==
  /\ log \in Seq([pos : Nat, kind : {"sample", "lost"}, len : Nat])
  /\ outputs \in 0 .. MaxSamples /\ lost \in 0 .. MaxSamples
  /\ written \in Nat /\ dataHead \in Nat /\ dataTail \in Nat
  /\ wakeup \in BOOLEAN /\ ready \in BOOLEAN
  /\ pc \in {"polling", "ready", "folding", "calling"}
  /\ limit \in Nat /\ tail \in Nat
  /\ event.kind \in {"none", "sample", "lost"}
  /\ \A k \in DOMAIN event.units : event.units[k] \in Nat   \* never a unit that was not written
  /\ seen \in Nat

\* "the kernel will not overwrite them until data_tail is committed on scope exit":
\* while the callback looks at an event, the event is the next one in order, it is
\* all there, and it is still in the data pages.
EventIntact ==
  pc = "calling" =>
    /\ seen \in DOMAIN log
    /\ event = [kind |-> log[seen].kind, units |-> Written(log[seen])]
    /\ \A k \in DOMAIN event.units : Unit(event.units[k] % Size) = event.units[k]

\* However a fold ended, the next one begins with the first event that no callback
\* has been given: none is skipped and none is given twice.
NextFoldContinues ==
  pc \in {"polling", "ready"} =>
    dataTail = (IF seen + 1 \in DOMAIN log THEN log[seen + 1].pos ELSE written)

\* Every record the kernel writes is eventually given to the callback, although the
\* fold looks at data_head once and the application then waits.
EventuallySeen ==
  \A i \in 1 .. 2 * MaxSamples : (Len(log) >= i) ~> (seen >= i)
=============================================================================
