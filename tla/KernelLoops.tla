---------------------------- MODULE KernelLoops ----------------------------
(***************************************************************************)
(* The loops that ask the kernel again and again, while what they ask      *)
(* about changes: the keys of a hash map (MapKeys and MapIter in           *)
(* aya/src/maps/mod.rs), the ids of the loaded objects (iter_obj_ids in    *)
(* sys/bpf.rs), the programs of an attachment point (query in              *)
(* programs/mod.rs), and a program that is loaded until its verifier log   *)
(* fits (retry_with_verifier_logs, bpf_prog_load in sys/bpf.rs).           *)
(*                                                                         *)
(* One loop runs, `job`. Each system call is a step; between two, other    *)
(* processes and eBPF programs change the map or the programs, signals     *)
(* arrive. Every call may also fail for reasons of its own.                *)
(***************************************************************************)
EXTENDS Integers, Sequences, FiniteSets, FiniteSetsExt, SequencesExt

CONSTANTS
  Keys,         \* keys of the map
  None,         \* no key
  NumBuckets,   \* bound: buckets of the map
  MaxId,        \* bound: ids of objects
  Slots,        \* ids that query first makes room for (64)
  MaxChanges,   \* bound: changes by others
  Needs,        \* bytes that the verifier's log may take
  MinLog, MaxLog, MaxRetries,  \* 10 KiB, 2^24 - 1 and 10
  Attempts      \* BPF_PROG_LOAD_ATTEMPTS (5)

ASSUME KeysAssumption == /\ IsFiniteSet(Keys) /\ None \notin Keys
                         /\ NumBuckets \in Nat \ {0}
ASSUME BoundsAssumption == {MaxId, Slots, MaxChanges, MaxRetries} \subseteq Nat
ASSUME LogAssumption == /\ MinLog \in 1 .. MaxLog /\ MaxLog \in Nat
                        /\ Needs \subseteq Nat /\ Needs # {} /\ Attempts \in Nat \ {0}
\* The retries are enough to get from the first log to the largest one.
ASSUME RetriesAssumption == MaxRetries >= 5 /\ MaxLog <= 10000 * MinLog

VARIABLES
  job,        \* the loop that runs
  step,       \* of the loop
  bucket,     \* the hash function
  since,      \* when each key came to the head of its bucket; 0 if it is not in the map
  ids,        \* objects, or programs attached
  verifier,   \* the verdict on the program, and what it depends on
  changes,    \* counter: changes by others
  cursor,     \* MapKeys::key, current_id
  yielded,    \* what the iterator has returned
  slots,      \* prog_ids.len(), and whether query has retried
  log,        \* log_buf, retries and attempts
  result,     \* of query or of the load
  stable,     \* history: keys or ids that were there all the time
  disturbed,  \* history: the last key was removed or moved, or a program attached
  streak      \* history: interruptions in a row

kernelVars == <<bucket, since, ids, verifier, changes, stable, disturbed>>
vars == <<job, step, kernelVars, cursor, yielded, slots, log, result, streak>>

Buckets == 1 .. NumBuckets
Present == {k \in Keys : since[k] > 0}
\* The kernel goes through the buckets in turn, and through each from its head.
Before(j, k) ==
  \/ bucket[j] < bucket[k]
  \/ bucket[j] = bucket[k] /\ since[j] > since[k]

-----------------------------------------------------------------------------
(* The environment *)

\* The map and the ids do not change any more than MaxChanges times.
Change ==
  /\ step \in {"next", "lookup"} /\ changes < MaxChanges
  /\ changes' = changes + 1
  /\ UNCHANGED <<job, step, bucket, verifier, cursor, yielded, slots, log, result, streak>>

Touches(k) ==
  /\ stable' = stable \ {k}
  /\ disturbed' = (disturbed \/ k = cursor)
  /\ UNCHANGED ids

RemoveKey(k) ==
  /\ job \in {"keys", "iter"} /\ Change
  /\ k \in Present
  /\ since' = [since EXCEPT ![k] = 0]
  /\ Touches(k)

\* A key that is inserted or whose value is replaced comes to the head of its bucket.
UpdateKey(k) ==
  /\ job \in {"keys", "iter"} /\ Change
  /\ since' = [since EXCEPT ![k] = Cardinality(Keys) + changes + 1]
  /\ Touches(k)

RemoveId(i) ==
  /\ job \in {"ids", "query"} /\ Change
  /\ i \in ids
  /\ ids' = ids \ {i}
  /\ stable' = stable \ {i}
  /\ UNCHANGED <<since, disturbed>>

AddId(i) ==
  /\ job \in {"ids", "query"} /\ Change
  /\ i \notin ids
  /\ ids' = ids \union {i}
  /\ disturbed' = TRUE
  /\ UNCHANGED <<since, stable>>

-----------------------------------------------------------------------------
(* MapKeys, MapIter, iter_obj_ids *)

walkVars == <<job, kernelVars, slots, log, result, streak>>

\* The key after the cursor; the first if there is no cursor or it is gone.
NextKey ==
  LET rest == IF cursor \in Present THEN {k \in Present : Before(cursor, k)} ELSE Present
  IN IF rest = {} THEN None ELSE CHOOSE k \in rest : \A j \in rest \ {k} : Before(k, j)

\* Seeded fault: the iterator does not keep the key it was given.
CursorKept(k) == IF cursor = None THEN k ELSE cursor

\* MapKeys::key, once key k is returned.
Cursor(k) == k

\* MapKeys::next. MapIter looks the key up before it yields it.
GetNextKey ==
  /\ job \in {"keys", "iter"} /\ step = "next" /\ NextKey # None
  /\ cursor' = Cursor(NextKey)
  /\ IF job = "keys" THEN yielded' = Append(yielded, NextKey) /\ UNCHANGED step
     ELSE step' = "lookup" /\ UNCHANGED yielded
  /\ UNCHANGED walkVars

LastKey ==
  /\ job \in {"keys", "iter"} /\ step = "next" /\ NextKey = None
  /\ step' = "ended"
  /\ UNCHANGED <<walkVars, cursor, yielded>>

Lookup ==
  /\ step = "lookup" /\ cursor \in Present
  /\ yielded' = Append(yielded, cursor)
  /\ step' = "next"
  /\ UNCHANGED <<walkVars, cursor>>

\* Seeded fault: a key that is gone ends the iteration.
StepAfterMissingEnds == "ended"

\* KeyNotFound: MapIter goes on to the next key.
StepAfterMissing == "next"

LookupMissing ==
  /\ step = "lookup" /\ cursor \notin Present
  /\ step' = StepAfterMissing
  /\ UNCHANGED <<walkVars, cursor, yielded>>

\* Any other error is given to the caller, who may go on.
LookupFails ==
  /\ step = "lookup"
  /\ step' = "next"
  /\ stable' = stable \ {cursor}
  /\ UNCHANGED <<job, bucket, since, ids, verifier, changes, disturbed,
                 cursor, yielded, slots, log, result, streak>>

\* iter_obj_ids starts after id 0.
GetNextId ==
  /\ job = "ids" /\ step = "next"
  /\ LET later == {i \in ids : i > cursor} IN
       IF later = {} THEN step' = "ended" /\ UNCHANGED <<cursor, yielded>>
       ELSE /\ cursor' = Min(later)
            /\ yielded' = Append(yielded, Min(later))
            /\ UNCHANGED step
  /\ UNCHANGED walkVars

\* After an error the iterator returns nothing more.
GetNextFails ==
  /\ job \in {"keys", "iter", "ids"} /\ step = "next"
  /\ step' = "failed"
  /\ UNCHANGED <<walkVars, cursor, yielded>>

-----------------------------------------------------------------------------
(* query *)

queryVars == <<job, kernelVars, cursor, log, streak>>

\* Seeded fault: the second call is made with the room of the first.
RoomUnchanged == slots.len

\* The kernel has said how many there are.
Room == Cardinality(ids)

\* prog_ids is cut to the number that the kernel returns.
QueryAnswers ==
  /\ job = "query" /\ step = "next" /\ Cardinality(ids) <= slots.len
  /\ step' = "ended" /\ result' = "ok"
  /\ yielded' = SetToSeq(ids)
  /\ UNCHANGED <<queryVars, slots>>

QueryNoSpace ==
  /\ job = "query" /\ step = "next" /\ Cardinality(ids) > slots.len
  /\ IF slots.retries = 0
     THEN slots' = [len |-> Room, retries |-> 1] /\ UNCHANGED <<step, result>>
     ELSE step' = "failed" /\ result' = "nospace" /\ UNCHANGED slots
  /\ UNCHANGED <<queryVars, yielded>>

QueryFails ==
  /\ job = "query" /\ step = "next"
  /\ step' = "failed" /\ result' = "other"
  /\ UNCHANGED <<queryVars, slots, yielded>>

-----------------------------------------------------------------------------
(* load_program: retry_with_verifier_logs around bpf_prog_load *)

loadVars == <<job, bucket, since, ids, changes, stable, disturbed, cursor, yielded, slots>>

\* Until Linux 5.11 a load fails with EPERM if RLIMIT_MEMLOCK is too low for it.
Limited == verifier.accounts /\ ~verifier.raised

\* What BPF_PROG_LOAD returns, unless a signal interrupts it.
Verdict ==
  IF Limited THEN "perm"
  ELSE IF log.len > 0 /\ log.len < verifier.need THEN "nospace"
  ELSE verifier.verdict

\* Seeded fault: the kernel's limit on the log is ignored.
NextLenUnbounded(cap) == Max({MinLog, 10 * cap})

\* Ten times the capacity, within bounds.
NextLen(cap) == Max({MinLog, Min({MaxLog, 10 * cap})})

\* Vec::resize at least doubles the capacity when it has to grow.
NextCap(cap, len) == IF len > cap THEN Max({2 * cap, len}) ELSE cap

\* Seeded fault: only a log that is too small is a reason to try again.
TriesAgainForSpaceOnly(r) == r = "nospace" /\ log.retries # MaxRetries

\* Any first error is, as it was without a log, and then only a log that is too small.
TriesAgain(r) ==
  /\ r # "ok" /\ log.retries # MaxRetries
  /\ log.retries = 0 \/ r = "nospace"

\* Seeded fault: the retries are not counted.
ReturnedUncounted(r) ==
  IF TriesAgain(r)
  THEN LET len == NextLen(log.cap) IN
       /\ log' = [log EXCEPT !.len = len, !.cap = NextCap(@, len), !.attempts = Attempts]
       /\ UNCHANGED <<step, result>>
  ELSE step' = "ended" /\ result' = r /\ UNCHANGED log

\* bpf_prog_load returned r.
Returned(r) ==
  IF TriesAgain(r)
  THEN LET len == NextLen(log.cap) IN
       /\ log' = [len |-> len, cap |-> NextCap(log.cap, len),
                  retries |-> log.retries + 1, attempts |-> Attempts]
       /\ UNCHANGED <<step, result>>
  ELSE step' = "ended" /\ result' = r /\ UNCHANGED log

\* A signal aborts the verifier (EAGAIN).
Interrupted ==
  /\ job = "load" /\ step = "next" /\ ~Limited
  /\ streak' = streak + 1
  /\ IF log.attempts = 1 THEN Returned("interrupted")
     ELSE /\ log' = [log EXCEPT !.attempts = @ - 1]
          /\ UNCHANGED <<step, result>>
  /\ UNCHANGED <<loadVars, verifier>>

\* with_raised_rlimit_retry raises the limit, once per process and if it may, and calls
\* again in any case.
RaiseMemlock ==
  /\ job = "load" /\ step = "next" /\ Limited /\ ~verifier.tried
  /\ verifier' = [verifier EXCEPT !.tried = TRUE, !.raised = verifier.privileged]
  /\ UNCHANGED <<loadVars, step, log, result, streak>>

LoadReturns ==
  /\ job = "load" /\ step = "next" /\ (Limited => verifier.tried)
  /\ streak' = 0
  /\ Returned(Verdict)
  /\ UNCHANGED <<loadVars, verifier>>

-----------------------------------------------------------------------------
Init ==
  /\ job \in {"keys", "iter", "ids", "query", "load"}
  /\ step = "next"
  /\ bucket \in (IF job \in {"keys", "iter"} THEN [Keys -> Buckets]
                 ELSE {[k \in Keys |-> 1]})
  /\ since \in (IF job \in {"keys", "iter"} THEN [Keys -> 0 .. Cardinality(Keys)]
                ELSE {[k \in Keys |-> 0]})
  /\ \A b \in Buckets : \E n \in 0 .. Cardinality(Keys) :
       LET inside == {k \in Present : bucket[k] = b}
       IN {since[k] : k \in inside} = 1 .. n /\ Cardinality(inside) = n
  /\ ids \in (IF job \in {"ids", "query"} THEN SUBSET (1 .. MaxId) ELSE {{}})
  /\ verifier \in [verdict : {"ok", "rejected"}, need : Needs, accounts : BOOLEAN,
                   privileged : BOOLEAN, raised : {FALSE}, tried : {FALSE}]
  /\ job # "load" => verifier.verdict = "ok" /\ verifier.need = Min(Needs)
                     /\ ~verifier.accounts /\ ~verifier.privileged
  /\ changes = 0
  /\ cursor = (IF job = "ids" THEN 0 ELSE None)
  /\ yielded = <<>>
  /\ slots = [len |-> Slots, retries |-> 0]
  /\ log = [len |-> 0, cap |-> 0, retries |-> 0, attempts |-> Attempts]
  /\ result = "none"
  /\ stable = IF job = "ids" THEN ids ELSE Present
  /\ disturbed = FALSE /\ streak = 0

Loop ==
  \/ GetNextKey \/ LastKey \/ Lookup \/ LookupMissing \/ LookupFails
  \/ GetNextId \/ GetNextFails
  \/ QueryAnswers \/ QueryNoSpace \/ QueryFails
  \/ Interrupted \/ RaiseMemlock \/ LoadReturns

Next ==
  \/ Loop
  \/ \E k \in Keys : RemoveKey(k) \/ UpdateKey(k)
  \/ \E i \in 1 .. MaxId : RemoveId(i) \/ AddId(i)

\* The thread that runs the loop goes on.
Spec == Init /\ [][Next]_vars /\ WF_vars(Loop)

-----------------------------------------------------------------------------
(* Properties *)

\* The types of the variables.
TypeOK ==
  /\ job \in {"keys", "iter", "ids", "query", "load"}
  /\ step \in {"next", "lookup", "ended", "failed"}
  /\ bucket \in [Keys -> Buckets]
  /\ since \in [Keys -> 0 .. Cardinality(Keys) + changes]
  /\ \A j, k \in Present : bucket[j] = bucket[k] /\ since[j] = since[k] => j = k
  /\ changes \in 0 .. MaxChanges
  /\ ids \subseteq 1 .. MaxId
  /\ cursor \in IF job = "ids" THEN 0 .. MaxId ELSE Keys \union {None}
  /\ slots \in [len : Nat, retries : 0 .. 1]
  /\ log \in [len : Nat, cap : Nat, retries : 0 .. MaxRetries, attempts : 1 .. Attempts]
  /\ log.len = 0 \/ (MinLog <= log.len /\ log.len <= MaxLog)
  /\ log.cap >= log.len
  /\ verifier \in [verdict : {"ok", "rejected"}, need : Needs, accounts : BOOLEAN,
                   privileged : BOOLEAN, raised : BOOLEAN, tried : BOOLEAN]
  /\ yielded \in Seq(IF job \in {"keys", "iter"} THEN Keys ELSE 1 .. MaxId)
  /\ disturbed \in BOOLEAN
  /\ result \in {"none", "ok", "rejected", "nospace", "interrupted", "perm", "other"}
  /\ streak \in Nat

\* A walk that ends without an error has yielded every key or id that was in the map all
\* the time, and whose value was not replaced, whatever happened to the others, also
\* to the key from which the walk went on.
StableYielded ==
  (job \in {"keys", "iter", "ids"} /\ step = "ended") => stable \subseteq Range(yielded)

\* No key that stayed where it was is yielded twice, unless the key from which the walk
\* went on was removed or moved; ids are never repeated.
NoRepetition ==
  \A i, j \in DOMAIN yielded :
    (i < j /\ yielded[i] = yielded[j]) => (job # "ids" /\ (disturbed \/ yielded[i] \notin stable))

\* query gives up for lack of space only if a program was attached in the meantime.
QuerySurvivesRemovals ==
  (job = "query" /\ result = "nospace") => disturbed

\* What load_program reports is the verifier's verdict: a rejection comes with the whole
\* log, the log is too small only if no log that aya can pass would do, and the verdict
\* is missing only after as many interruptions in a row as aya puts up with, or if
\* the memory limit cannot be raised.
VerdictReported ==
  (job = "load" /\ step = "ended") =>
    CASE result = "ok" -> verifier.verdict = "ok"
      [] result = "rejected" -> verifier.verdict = "rejected" /\ log.len >= verifier.need
      [] result = "nospace" -> verifier.need > MaxLog
      [] result = "interrupted" -> streak >= Attempts
      [] result = "perm" -> verifier.accounts /\ ~verifier.privileged
      [] OTHER -> FALSE

\* Every loop ends if the others stop changing things, however often they did before.
Ends == <>(step \in {"ended", "failed"})
=============================================================================
