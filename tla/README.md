# A verification of Aya in TLA+

Aya loads eBPF programs into the Linux kernel, attaches them, and talks to them
through maps. Most of its code marshals arguments of system calls. What is hard
in it sits where its state meets the kernel's: the two rings that user space
shares with running eBPF programs, links whose descriptors decide whether a
program stays attached, attachments that are built in several steps, maps that
several processes find under one path, loops over what changes meanwhile, and
the linker that composes programs. This project models those parts, checks them
with TLC, and proves with TLAPS what TLC checks of them on small instances: every
safety property of every module, for every value of its constants.

## The system's parts

| Part | State | Operations | Talks to | Hard |
|---|---|---|---|---|
| Ring buffer, user space (`aya/src/maps/ring_buf.rs`) | `ConsumerPos` (`pos`, `needs_wakeup`), `ProducerData` (`pos_cache`, `mask`), the borrowed item | `RingBuf::new`, `next`, dropping the item | two shared words, the data pages, epoll | memory order, lost notifications, reuse of the pages, a reader that dies |
| Ring buffer, eBPF side (`ebpf/aya-ebpf/src/maps/ring_buf.rs`) | an open reservation | `reserve`, `submit`, `discard`, `output` | the kernel's `bpf_ringbuf_*` | several CPUs, commits out of order |
| Perf event array (`aya/src/maps/perf/`) | `data_head`, `data_tail`, the fold's local tail | `open`, `readable`, `try_fold` and what is built on it | shared words, the data pages, poll | records that wrap, lost samples, folds that end early |
| Program lifecycle (`programs/mod.rs`) | `ProgramData`: descriptor, links, pin path | `load`, `unload`, drop, `pin`, `from_pin`, queries | links, the kernel | order of clean-up, partial failure |
| Links (`programs/links.rs`) | `Links`, `FdLink`, `PinnedLink`, the wrappers' `Option` | insert, remove, forget, drop, pin, unpin, conversions | programs, bpffs | who owns a descriptor, what a drop detaches |
| XDP (`programs/xdp.rs`, `sys/netlink`) | `NlLink`: interface and a raw descriptor number | `attach`, `attach_to_link`, detach | bpf links or netlink | kernels of different ages, stale descriptor numbers |
| Traffic control (`programs/tc.rs`, `sys/netlink`) | `NlLink`: interface, priority, handle | attach by netlink or TCX, detach, replace, detach by name | netlink | answers that are lost or come in pieces, keys that go stale |
| Probes (`programs/probe.rs`, `uprobe.rs`, `perf_attach.rs`) | tracefs events, perf descriptors, lists of links, the attach mode | attach, detach | tracefs, perf | clean-up after each step that can fail, names, fallback |
| Cgroup and other programs | `ProgAttachLink`, `FdLink` | attach, detach, query | the kernel | detach that fails halfway |
| Loader (`bpf.rs`, `maps/mod.rs`) | maps and programs under construction | `load`, `create_pinned_by_name`, `finalize`, `pin` | bpffs, other loaders | two loaders, crashes between steps |
| Map types (`maps/*`) | the iterators' key | one system call each; iteration | the kernel | iteration while others delete |
| System calls (`sys/`) | the log buffer, retries | `retry_with_verifier_logs`, `bpf_prog_load`, `query`, id iterators | the kernel | retries that must end and keep the verdict |
| Relocation, linking (`aya-obj`) | functions, relocated instructions | `FunctionLinker`, `relocate_calls` | – | recursion over the call graph |
| BTF (`aya-obj/src/btf`) | a table of types | compatibility, CO-RE matching | – | recursive types |
| Logger (`aya-log`) | a ring buffer reader | `flush` | ring buffer | malformed records, two readers |
| Object parser, macros, tools | none that lives on | decoding, code generation | – | – |

What makes each part correct, in a sentence: the rings lose, repeat, reorder and
overwrite nothing and never leave their reader asleep next to a record; every
descriptor has one owner and what a link promises to detach is detached; a
loader that meets another one, or the remains of a dead one, gets a map with the
data it expects; each clean-up undoes what was done before the failure; and the
pure algorithms compute what their definition says and end.

`PROJECT.json` lists the parts with what is modelled of each, and the hazards of
this code at the lines where they bite.

## Modules

| Module | Models |
|---|---|
| `RingBuf` | the ring buffer: eBPF side, kernel, both shared words, the reader's store buffer, the reader |
| `RecordQueue` | what a ring buffer promises, without memory, positions or notifications |
| `PerfBuffer` | one CPU's perf buffer: the kernel's writes and losses, and `try_fold` |
| `Xdp` | XDP programs, their links and pins, on three kinds of kernel |
| `PinnedMaps` | `EbpfLoader::load` and `MapData`: several loaders over one bpffs |
| `Probes` | attaching and detaching kprobes and uprobes: tracefs, perf events, links |
| `Tc` | classifiers at one hook: netlink filters, TCX links, detaching by name |
| `FunctionLinker` | `relocate_calls` and the function linker |
| `KernelLoops` | the iterators and retries around single system calls |
| `RingBufProofs`, `PerfBufferProofs`, `XdpProofs`, `PinnedMapsProofs`, `ProbesProofs`, `TcProofs`, `FunctionLinkerProofs`, `KernelLoopsProofs` | the theorems about each of these |
| `MCRingBuf`, `MCXdp`, `MCPinnedMaps`, `MCProbes`, `MCTc` | sets of model values, symmetries and search bounds for TLC |
| `MCFunctionLinker` | the objects that TLC links |

`RingBuf` implements `RecordQueue`. The others do not share variables: a link of
`Xdp`, `Tc` or `Probes` belongs to one program, a map of `PinnedMaps` is not told
what programs do with it, and the linker works before anything is loaded.

A definition called a *seeded fault* in a comment is a plausible bug of the
definition that follows it. `PROJECT.json` ("mutants") names, for every
property, the fault that makes TLC find it violated; no specification uses them.

### RingBuf

*State.* `producerPos` and `consumerPos` are the two shared words, `mem` the data
pages. `log` is a history of all reservations: it names records, so that `mem`
can hold a record's number instead of its header. `pos`, `needsWakeup`, `posCache`
and `item` are the fields of the reader of the same names. `pc` says where
`RingBuf::next` is, or that its caller sleeps.

*Memory order.* The reader's release store of its position can become visible
after its later loads. `storeBuffer` holds the stores that are not visible yet;
`Drain` publishes the oldest one at any time, and a `SeqCst` fence can only be
passed when the buffer is empty. This is what the fences of `next` and
`data_available` exist for. A producer reserves with a lock held and commits with
a fully ordered exchange before it reads the consumer position, so its steps
`Commit` and `Notify` need no buffer of their own. The reader's load of the
producer position is an acquire, and the header of a record is written before
the release of the position that covers it, so a step may see both at once.

*Actions.* `Reserve`, `Commit`, `Notify` are a program's reservation, its submit
or discard, and the kernel's decision to wake the reader. `OpenConsumer`,
`OpenProducer`, `Register` are `RingBuf::new` and the registration of the
descriptor. `CachedAvailable`, `FenceBeforeRefresh` and `Refresh` are the
branches of `data_available`; `BusyGiveUp`, `BusyRetry`, `Discard` and `Data`
those of the loop in `ProducerData::next`; `DropItem` is the drop of the item,
which stores the position. `Close` is a reader that is dropped or killed: its
delayed stores still reach memory, and an item it holds is given up.

*Bits.* A header is a length and a status. `MaskedLen` is what `header & mask`
keeps of a length whose discard bit may be set.

### PerfBuffer

Positions count units of four bytes, so that the payload of a sample, whose size
field has four bytes, is aligned as in the code. `mem` is not a variable: `Unit`
computes, from `written`, which position was written last at an offset. `Output` is
`bpf_perf_event_output`, with the space test of the kernel and the LOST record it
writes first when it dropped samples before; `Publish` stores `data_head` and
`WakeReader` signals the descriptor afterwards. `Begin` reads `data_head` once;
`NextEvent`, `Continue`, `Break` and `Finish` are the iterations of `try_fold` and
the two ways it ends. `Commit` is its scope guard, which runs in both, also when
the callback panics.

### Xdp

`fds` is the process's descriptor table and `NewFd` the kernel's choice, the
lowest free number. It matters: a netlink link remembers a number, not a
descriptor. `klinks`, `pins` and `hook` are the kernel's links, the files in
bpffs and what each interface runs. `links`, `owned` and `pinned` hold every link
value of the process. `kernel` distinguishes what the code distinguishes: bpf
links for XDP ("link"), netlink with `XDP_FLAGS_REPLACE` ("replace"), and without
it ("legacy"). `KernelBecomes` is the kernel's part of a close: a link that no
descriptor and no pin refers to is detached.

`Unload` detaches the tracked links and closes the program, in that order;
`AttachToLink` has one action per outcome, because the link is consumed in all of
them. `Restart` is a process that is killed, which runs no destructor, and comes
back. `ClearedByOthers` is another process that takes an interface's program off.

### PinnedMaps

`kmap` and `pins` are the kernel's maps and the files in bpffs. A process is at one
system call of `load` (`pc`, with the map it is about); `todo` is the rest of the
loop over `obj.maps`, `held` its descriptors, `inner` the descriptor of an inner map.
Contents are one value: zeros, the data section of a loader (each may override
globals in its own way), or what an application wrote. `OpenPin`, `CreateInner`,
`Create`, `Pin` are the steps of `create_pinned_by_name`, `Update` and `Freeze` those
of `finalize`. A step that the kernel refuses is followed by `Close`, as a failed
load closes all it has; `Close` is also a drop, and a process that is killed, at any
step. A map lives while a descriptor or a pin refers to it (`Freed`).

### Probes

A thread attaches one program at a time. `cur` is the point that is being made, `vec`
the points that `ManyProbeLinks` already has, `link` what the program tracks, `drops`
what is being dropped. The kernel decides the way: an event in tracefs and a perf
event ("tracefs", before 4.17), a perf event ("pmu"), or a link of one ("link").
`AttachFails` fails any step; what the step owned is dropped where it was made and
then the points before it, one at a time, because a tracefs event can only be deleted
after its descriptor is closed. Multi links are one step, `AttachMulti`; in unknown
mode `MultiRefused` goes on point by point. Others open, close and remove events.
`Restart` kills the process, and lets the next one use the same process id, which
the names contain.

### Tc

`filters` maps a priority and handle to the filter there, `tcx` holds the TCX links.
`links`, `owned` and `undo` are the link values of the process: tracked, in the
application's hands, or being dropped because `insert` refused them. Each netlink
request is a step, and each may fail before or after the kernel did its part:
`AttachUntold` and `ReplaceUntold` lose the answer that carries the key, `Deletes`
may report an error for a filter that is gone. `RemoveAll` is `remove_all` with a
failure in the middle. `finder` is `qdisc_detach_program`: datagrams of a dump
(`Dump`, with `RecvEnds` as the end of `NetlinkSocket::recv`), then one request per
filter found. The histories `abandoned`, `tampered`, `stood` and `shifted` are updated
by `Watch`; no action depends on them.

### FunctionLinker

`Objects` are what the parser hands over. `Parsed` says what they have to be like:
functions of a section do not overlap, each call or reference is in one of the
encodings that compilers emit (relative, by a relocation against a function or a
section, an address taken, or out of the object), and the infos, if a function has
any, are its own. `TextSections` are `.text` and the sections whose names begin with it, which the
parser treats alike. `MCFunctionLinker` builds such objects from a layout (sections of
functions) and a sequence of calls; the proofs need nothing but `Parsed`. Instruction
offsets and immediates do not wrap. An instruction keeps, beside its immediate, the
place it is a copy of and the function it is meant to reach; only properties read these. The recursion of
`link_function` and `relocate` is `stack`; `LinkFunction` appends a callee and goes
into it, `Return` patches the call that waits. `Finish` puts the linked program back
among the functions, as `relocate_calls` does, and the programs come in any order.

### KernelLoops

One loop runs per behaviour (`job`): `MapKeys`, `MapIter`, `iter_obj_ids`, `query`, or
`load_program` with its three nested retries. The hash map is `bucket`, the hash
function, and `since`, the time at which each key came to the head of its bucket (0
for a key that is not in the map): the kernel walks the buckets in turn and each from
its youngest key (`Before`), an insertion or a replacement puts a key at the head, and
`NextKey` restarts from the first key if the cursor is gone. Any call may fail. The verifier's verdict and the size of its log are chosen at the start.

## Runs

| Run | Question | Bounds, and why they are enough |
|---|---|---|
| `ringbuf_safety` | Is anything lost, overwritten, reordered, or a notification missed? Does `RingBuf` implement `RecordQueue`? Does the invariant of the proofs hold? | A ring of four of the smallest records, less the byte that keeps full and empty apart; two record sizes; three records, so that the ring is full, wraps and is reused; two producers, so that commits overtake each other; two readers, the first of which dies anywhere; all three wakeup flags |
| `ringbuf_live` | Is every record consumed in the end? | Four records of one size and the default flag: `NO_WAKEUP` hands the notification to the program, which may never send one |
| `ringbuf_huge` | What if the mask keeps the discard bit? | A ring of twice the discard bit: the proportion of a ring of 2 GiB. Violated, see below |
| `perf_buffer` | Does each event reach the callback once, in order and whole, and does every one reach it? | Sixteen units and samples of four and six: a record can end at the wrap, straddle it with its header or its payload, or fill the pages; six samples, so that some are lost and a LOST record wraps too |
| `xdp` | Does every descriptor have one owner, does unload detach what it promises, and does a pinned link stay attached? | Two programs, two interfaces, one path, four descriptors (two programs and two links at a time), three loads and three kernel links, so that numbers are reused |
| `pinned_maps` | Do two loaders end with one map, filled and constant? | Two loaders; a pinned `.rodata`, an unpinned `.bss` and a pinned map of maps: every kind of step; four maps, one more than a loader needs. Deadlock is checked: someone can always go on or close |
| `probes` | Is anything left in tracefs, or half attached? Is the mode right? | Two threads and two points, so that a failure has something before it to undo; three names, so that a name is free when two are in use; four descriptors |
| `tc` | Is what is attached held by exactly one link? Does detaching by name find everything? | Two programs, two keys, one TCX link, one owned link of each kind. `SearchBound` keeps one program loaded while a search runs |
| `function_linker` | For every regular object: does every call land, and does linking end? | Three functions and three calls: chains, diamonds, cycles, self calls and several programs; up to three sections, two of them `.text*`, so that functions call across them; all encodings, with at most one reference, which is linked as a call is but is two instructions wide; infos for all functions, none, or all but one |
| `kernel_loops` | Do the loops see what stays, report the verdict, and end? | Three keys in two buckets, four ids, room for two programs (the code has 64), three changes by others; the real bounds of the log (10 KiB, 2^24-1, 10 retries, 5 attempts) with log sizes on both sides of each |
| `xdp_drop` | Does dropping a taken link detach it? | The same on a kernel without XDP links. Violated, see below |
| `xdp_stale` | Does it detach only its own program? | The same. Violated, see below |

Bounds are constants: `MaxRecords`, `MaxOpens`, `MaxSamples`, `MaxFd`, `MaxLoads`,
`MaxLinks`, `MaxMaps`, `MaxPoints`, `MaxNames`, `MaxKey`, `MaxTcx`, `MaxOwned`,
`NumFunctions`, `MaxCalls`, `NumBuckets`, `MaxId`, `MaxChanges`. They limit how long a
behaviour is or how much there is at a time, and occur in guards of the steps that
would exceed them, never in what a step does. The state constraint `SearchBound` of
`MCTc` cuts behaviours off. `ringbuf_*` and `perf_buffer`
switch the deadlock check off: when all records are consumed and the bound is
reached, the reader waits for good, as the program does; `function_linker` and
`kernel_loops` end. In `Xdp`, `Probes` and `Tc` a restart is always possible.

Symmetry (of producers, programs, interfaces, loaders and threads) is used for safety
only.

## Fairness

*RingBuf.* `FairSpec` assumes weak fairness of `Drain` (a store becomes visible
after a finite time), of each producer's commit and notification (the verifier
refuses a program that leaves a reservation open, and programs terminate), of
opening, and of the reader's steps, once woken: the application calls `next` until
it returns `None`, as the example in `ring_buf.rs` does. Nothing makes programs
reserve or a reader die; the last of the `MaxOpens` readers does not.

*PerfBuffer.* Weak fairness of the kernel's `Publish` and `WakeReader`, and of the
reader: it folds whenever the descriptor is readable, and again after a fold that
the callback broke off. A callback may break off every time; each fold passes at
least one event, so that is no obstacle.

*FunctionLinker.* Weak fairness of the next step: the linker is a sequential function
that its thread keeps executing.

*KernelLoops.* Weak fairness of the loop, and none of the others, who change things at
most `MaxChanges` times. That bound is an assumption of `Ends`: an iterator over a map
whose current key is deleted each time never ends, in the code either. Signals and
failing calls are not bounded; the code bounds its retries itself.

## Proofs

Each theorem holds for every value of the constants that satisfies the `ASSUME`s of
its module, which TLC evaluates in the module's run. They are as weak as the code
allows: sets of programs, loaders, threads, keys and interfaces are arbitrary (finite
where the code counts them: `Programs` of `Tc` and `Keys` of `KernelLoops`), bounds are
natural numbers. Six are more than that, because the code says more:

- `SizesAssumption` of `PerfBuffer`: a LOST record is longer than its header by at
  least two units. It holds a header, an id and a count of eight bytes each; without
  the assumption the callback would be given a record it has not room to parse.
- `RetriesAssumption` of `KernelLoops`: `MaxRetries >= 5` and `MaxLog <= 10000 * MinLog`.
  The code has ten retries, and logs from 10 KiB to 2^24 - 1. Each retry multiplies the
  log by at least ten, so that the fifth has the largest log that the kernel takes;
  with fewer, "nospace" would not mean that the log cannot be had.
- `MapsAssumption` and `ContentsAssumption` of `PinnedMaps`: a map of maps has no
  initial data, and the contents that the properties tell apart are different values.
- `ObjectsAssumption` of `FunctionLinker`: the objects are `Parsed`. The parser does not
  check all of it, compilers see to the rest. The theorems have one hypothesis more,
  `AllObjects = FALSE`: objects that are `Exposed` or `Misled` are linked wrongly, as is
  described below, so the theorems are about all others.
- `MaskClearsDiscardBit`, `DiscardBit % Size = 0`, the one hypothesis of the theorems
  of `RingBuf`. It holds for every ring up to 1 GiB, since the discard bit is 2^30 and
  the kernel takes only powers of two. For 2 GiB it fails, and so do the theorems:
  that is the run `ringbuf_huge`.

In each module `InductiveInvariant` states `Spec => []IInv`, `TypeCorrect` states
`Spec => []TypeOK`, and the other theorems are the properties of the runs:

| Module | Theorem | Property |
|---|---|---|
| `RingBufProofs` | `NoWakeupIsLost`, `ConsumerStaysBehind`, `UnconsumedStaysIntact` | `NoLostWakeup`, `ConsumerBehindProducer`, `UnconsumedIntact` |
| | `RingBufImplementsQueue` | `QueueSpec`, the refinement of `RecordQueue` |
| `PerfBufferProofs` | `EventsAreIntact`, `NextFoldStartsRight` | `EventIntact`, `NextFoldContinues` |
| `XdpProofs` | `DescriptorsAreOwned` | `DescriptorsOwned` |
| | `UnloadDetachesTracked`, `PinnedLinksStayAttached` | `UnloadDetaches`, `PinnedStaysAttached`, of steps |
| `PinnedMapsProofs` | `PinnedMapsAreShared`, `LoadedMapsAreInitialised` | `PinnedShared`, `LoadedInitialised` |
| | `RodataIsStable` | `RodataStable`, of steps |
| `ProbesProofs` | `EventsAreOwned`, `NamesAreUnique`, `AttachIsAllOrNothing`, `SettledModeIsRight` | `EventsOwned`, `NamesUnique`, `AllOrNothing`, `ModeIsRight` |
| `TcProofs` | `AttachmentsAreHeld`, `FiltersAreNotShared` | `AttachmentsHeld`, `FilterNotShared` |
| | `DetachByNameIsComplete` | `DetachByNameComplete`, of steps |
| `FunctionLinkerProofs` | `CallsAlwaysLand`, `AlwaysLinkedExactly`, `InfoAlwaysMatches`, `ErrorsAlwaysReal` | `CallsLand`, `LinkedExactly`, `InfoMatches`, `OnlyRealErrors` |
| `KernelLoopsProofs` | `StableAreYielded`, `NothingIsRepeated`, `QueriesSurviveRemovals`, `VerdictsAreReported` | `StableYielded`, `NoRepetition`, `QuerySurvivesRemovals`, `VerdictReported` |

A proof has a lemma per action, or per group of actions that change the same parts,
and in each a step per part of the invariant that the action can disturb. A property
of steps follows from the invariant before the step and the one action that can take
the step. What is left to say of each is why the properties are not inductive, and
what is added.

*RingBuf.* That the reader never
passes the producer needs that it always stands at the start of a record or at
the producer's position, and that `posCache` is such a place too (`ReaderInv`),
for its only test is equality. That in turn needs that records follow each other
without gaps (`LogInv`) and that the reader finds in memory the header of the
record it stands at (`MemInv`): the length it adds is read from there. `MemInv`
survives a reservation because producers see a position that is never ahead of
the reader's, and stay within one ring of it (`StoreInv`): two positions less than
a ring apart fall on different offsets (`ModWindow`). `NoLostWakeup` is kept
because a reader that goes to sleep has passed a fence since its last store
(`~needsWakeup` implies an empty store buffer), so a producer that commits later
sees the position it sleeps at; and a producer that committed earlier is seen by
the reader's last look. `ProducerInv` ties a busy record to the one context that
can commit it, which gives the step of a commit. The refinement maps `Reserve`,
`Commit`, `Data`, `Discard` and `DropItem` to the steps of the queue, `Close` to a loss
of the item or a stutter, and all others to stutters.

*PerfBuffer.* The fold believes the sizes it reads from the pages, so it is right
only while it stands at the start of a record. `Contiguous` says that records follow
one another, `Positions` that `tail`, `limit`, `dataHead` and `dataTail` are all starts of
records, in that order, and `Window` that what is not released fits in the pages. From
the last, `UnitInWindow` shows that what lies at an offset is the one position of the
window that falls on it, also around the wrap, whatever the kernel writes meanwhile.

*Xdp.* `DescriptorsOwned` counts owners. `Held` says of each descriptor which kind of
value may own it and that no two do, which the opening and closing of each other
descriptor leaves alone. `UnloadDetaches` needs `NetlinkRight`: a tracked netlink link
carries the number of its program's descriptor while the program is loaded, so that
its detach names the right program. That is what fails once the link is taken
(`xdp_drop`, `xdp_stale`). The kinds of descriptors in `TypeOK` are parts of `Held`; they
are what fails if a detach closes the number that a netlink link only borrows.
`PinnedStaysAttached` needs no more than types: nothing but `unpin` removes a file, and
requests through netlink clear what netlink attached.

*PinnedMaps.* `InOrder` says what a loader holds at each step: nothing that it has not
taken up, and of what it has gone through, maps that are final, that is filled and,
for `.rodata`, frozen (`Final`). A map that somebody filled is never zero again, and one
that is frozen never changes, so `Final` survives all that the others do.
`LoadedInitialised` and `RodataStable` are `Final` at the end of `load`. `TypeOK` has the
exact life of a map (`exists <=> Referenced`), which shows that a new map's number is
referred to by nobody.

*Probes.* A thread has points in its hand, in the vector, in its link or in the list of
what it drops; `Places` numbers them, so that the invariant speaks of all at once.
`PointsApart`: no two points have the same event or descriptor, and no event exceeds
the counter that gives names. `PointsHold` and `FdsOwned`: the descriptors of the points
are open, and no others are. `Phase` ties all this to the step of attach. `NamesUnique`,
`AllOrNothing` and `EventsOwned` are projections of these.

*Tc.* `AttachmentsHeld` asks for one link, `FilterNotShared` forbids two. Neither is
inductive without `AtMostOne`, that a key without a filter has no link: otherwise
attaching at that key would make a second. The counts of `Holders` change by at most
one program at a time (`SizeWithout`, `HoldersFacts`). `DetachByNameComplete` needs
`SearchRight`: a filter that was there all the time is found, or its place in the dump
(`Place`, the number of filters before it) is not behind the datagram that comes next.
A filter that is added can only move it further back; one that is removed before it
is what the exception `shifted` is for.

*FunctionLinker.* The properties speak of linked programs only; the invariant has to
say what a program is like at every depth of the recursion. `Starts` is where each
function met so far begins. `Copies`: the code is, but for immediates, a copy of each
of these functions at its start, and nothing else. Two copies cannot overlap, for no
two instructions of an object have the same place (`FromUnique`). `Frames`: the frames
are of different functions, since a function is entered only when it is first linked,
and each but the last waits at a call of the next one's function. An instruction is
`Open` if some frame has yet to pass it. `Immediates`: an open instruction has its
immediate as parsed, so what the linker reads there is what the compiler wrote
(`Encoding`), and every other call already reaches the start of its callee. A step
closes one instruction (`Patched`) or appends a function all of whose instructions are
open (`Appended`); a return closes the instruction at which the frame below waits.
When the only frame left has nothing pending, nothing is open, so all calls land. Then
what is linked is closed under calls, and being reached, it is exactly `Reached(main)`,
the least such set; that needs no induction, since the definition of a least set gives
it. `FunctionsKept` is where `Exposed` matters: a function that is no longer as parsed
is one that nothing calls. No step needs induction over the length of the code: each
fact is about one instruction and its place.

*KernelLoops.* `WalkRight`: a key that stayed where it was is yielded or ahead of the
cursor (`Ahead`), and, unless the cursor's key was disturbed, what is yielded is not
(`Behind`), with the order of the map as a strict total order (`OrderFacts`). A cursor
whose key is gone has all keys ahead, which is why nothing is missed and something
may repeat. `QueryRight`: after the retry there is room for all, unless one was added.
`LoadRight`: after r retries the log has its largest length or 10^(r-1) times the
first one (`Levels`), and `streak` accounts for the attempts that are used up.

Only model-checked:

- liveness (`EventuallyConsumed`, `EventuallySeen`, `Terminates`, `Ends`): fairness and
  `ENABLED` are beyond this prover;
- the findings below: they are counterexamples, and TLC gives them.

## What the checks found

- *A ring of 2 GiB* (`ringbuf_huge`). `read_item` takes the length as `header & mask`.
  The mask of a ring of 2^31 bytes keeps the discard bit 2^30, so a discarded
  record is consumed as if it were 1 GiB long, and the reader passes the producer.
- *Dropping a taken netlink link* (`xdp_drop`). The link keeps the raw number of
  the program's descriptor. After `unload` the number is closed, the request to
  detach fails, the error is thrown away, and the interface keeps running the
  program. The documentation of `take_link` says that the link will be detached.
- *A number that denotes another program* (`xdp_stale`). If the number was given to
  a program loaded later and that one runs on the interface, the drop detaches it.
  The source says that detach only clears the program represented by the link; it
  also has a TODO about holding raw descriptors.

- *A program that is linked twice.* `relocate_calls` puts each linked program back into
  `functions`. If other code calls that program, and the program calls functions
  itself, then whoever is linked later copies the program together with the copies
  appended to it, and resolves its immediates as if they were still those of the
  object. Calls then land on wrong instructions, or linking fails; which programs are
  affected depends on the order of a hash table. TLC shows it with
  `AllObjects = TRUE` in `MCFunctionLinker.cfg` (`CallsLand` is violated). `Exposed`
  describes these objects, and the run leaves them out. The comment at
  `relocation.rs:530`, "Append the function once and use its instruction offset for
  pc-relative calls", holds for all others.
- *A call out of the object at the start of a function.* The linker skips relocations
  against undefined symbols and takes the immediate of the call, -1, for a relative
  one. At the first instruction of a function that resolves to the function itself,
  and linking succeeds; anywhere else it is an unknown function and an error. Objects
  with BTF are not affected, since `relocate_externs` comes first. `Misled` describes
  these objects; with `AllObjects = TRUE` they violate `CallsLand`.
- *Constants of another loader.* A loader that finds a pinned `.rodata` map before its
  creator froze it writes its own data over it, and the creator's programs run with
  those constants, whatever `override_global` said. A loader that finds it frozen
  fails. The run shows that the contents do not change once load returned
  (`RodataStable`); that they are the loader's own is not promised.
- *Keys that go stale.* In `Tc`, as with XDP, a link can outlive its filter. If the same
  program is attached at the same key again, `insert` refuses the new link as already
  known and its drop deletes the filter that was just added; the old link stays
  tracked. `AttachmentsHeld` and `FilterNotShared` hold nevertheless.
- *Iteration.* A key whose value is replaced during an iteration can be missed, since
  the kernel moves it to the head of its bucket, and keys repeat after the current
  one is deleted. `StableYielded` and `NoRepetition` state what remains true.

## Not modelled

- The wrap-around of the word-sized ring positions on 32-bit targets: positions
  grow without bound. The code's comment says that the kernel does not support it.
- Two readers of one ring: the library does not prevent it, the ring does not
  support it.
- The x86 and ARM details below a store buffer: only the reordering that the
  fences are there for is modelled, a store delayed past later loads.
- XDP attach modes, interface names, other network namespaces; `Xdp::from_pin`.
- That a netlink or bpf request fails for a reason the state does not show, except
  where the failure changes who owns a link (`ReplaceFdRefused`,
  `ReplaceNetlinkRefused`, `PinRefused`).
- Symbol and offset resolution of probes; a process that gets the process id of a
  live one; tracefs events of other tools under names that aya would choose.
- Link orders and revisions of TCX, `query_tcx`, qdiscs, other hooks and interfaces of
  `Tc`, and a dump in which a filter is sent twice beyond the error it can cause.
- Maps that `load` skips on old kernels, data of maps beyond one value, the choice of
  `max_entries`.
- Pinning of programs, test runs, cgroup and the other program types: one system call
  each, with the links that `Xdp` and `Tc` model.
- Wrappers of single system calls, ELF and BTF decoding and rewriting, CO-RE matching,
  the logger's decoding and formatting, macros, tools and the generated bindings, which
  are most of the repository's lines: no state that outlives a call, and no order of
  steps to get wrong.

## Plan

What is modelled and proved is above. What is left:

1. `PerfBuffer` and `Xdp` as implementations of abstract specifications, as `RingBuf` is
   of `RecordQueue`: a queue that loses what it reports as lost, and a set of
   attachments with one owner each.
