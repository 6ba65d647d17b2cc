------------------------------- MODULE Probes -------------------------------
(***************************************************************************)
(* Attaching kprobes and uprobes (aya/src/programs/probe.rs, uprobe.rs,    *)
(* perf_attach.rs): several threads of one process, each with a program,   *)
(* and the kernel's tracefs, perf events and links.                        *)
(*                                                                         *)
(* A probe at one point is built in steps, each of which can fail. On a    *)
(* kernel before 4.17 ("tracefs") an event is first written to tracefs     *)
(* under a name of its own, then opened as a perf event; the event stays   *)
(* in tracefs until it is deleted, which the kernel refuses while anyone   *)
(* has it open. Later kernels ("pmu") open the perf event directly, and    *)
(* those from 5.15 on ("link") make a link of it. A uprobe can have many   *)
(* points: one link for all (multi), or a link for each.                   *)
(***************************************************************************)
EXTENDS Naturals, Sequences

CONSTANTS
  Threads,
  Nobody,    \* not a thread
  Kernels,   \* kernels to consider: "tracefs", "pmu", "link"
  MaxPoints, \* bound: points of an attach
  MaxNames,  \* bound: PROBE_NAME_INDEX
  MaxFd      \* bound: descriptors of the process

ASSUME NobodyAssumption == Nobody \notin Threads
ASSUME KernelsAssumption == Kernels \subseteq {"tracefs", "pmu", "link"}
ASSUME BoundsAssumption == MaxPoints \in Nat /\ MaxNames \in Nat /\ MaxFd \in Nat

VARIABLES
  kernel,   \* the kernel; it never changes
  multi,    \* whether the kernel's program is one for multi links; never changes
  tracefs,  \* the events in uprobe_events (kprobe_events), by the index in their name
  foreign,  \* events that other processes have open
  fds,      \* the descriptor table: perf events and links
  index,    \* PROBE_NAME_INDEX
  mode,     \* UProbe::attach_mode
  pc,       \* where each thread is in attach or detach
  want,     \* the number of points to attach
  cur,      \* the point that is being attached
  vec,      \* ManyProbeLinks: the points attached so far
  link,     \* the link in ProgramData::links, as its points; <<>> for none
  drops,    \* points that are being dropped, in order
  leftover  \* history: events whose owner died or was refused their deletion

kernelVars == <<tracefs, foreign, fds>>
vars == <<kernel, multi, kernelVars, index, mode, pc, want, cur, vec, link, drops, leftover>>

-----------------------------------------------------------------------------
(* The kernel *)

Fds == 1 .. MaxFd
Names == 1 .. MaxNames

\* A descriptor: the tracefs event it holds, whose program it is for, and at how many
\* points that program runs because of it.
Closed == [event |-> 0, of |-> Nobody, points |-> 0]
Opened(n, t, k) == [event |-> n, of |-> t, points |-> k]

NewFd == CHOOSE f \in Fds : fds[f] = Closed /\ \A g \in Fds : g < f => fds[g] # Closed
HasFreeFd == \E f \in Fds : fds[f] = Closed

\* Also a disabled perf event holds its tracefs event.
Busy(n) == n \in foreign \/ \E f \in Fds : fds[f].event = n

-----------------------------------------------------------------------------
(* Points and steps *)

NoPoint == [event |-> 0, fd |-> 0]
FirstStep == IF kernel = "tracefs" THEN "name" ELSE "open"

\* The points that thread t owns and that exist by now.
Elements(s) == {s[i] : i \in 1 .. Len(s)}
Owned(t) ==
  Elements(vec[t]) \union Elements(link[t]) \union Elements(drops[t])
  \union (IF pc[t] \in {"name", "write"} THEN {} ELSE {cur[t]})

Goto(t, step) == pc' = [pc EXCEPT ![t] = step]

\* Start dropping the points in s, first to last.
DropAll(t, s) ==
  /\ drops' = [drops EXCEPT ![t] = s]
  /\ Goto(t, IF s = <<>> THEN "idle" ELSE "drop")

\* Seeded fault: the next attach starts with this one's points.
PointDoneKeepingVec(t, point) ==
  LET points == Append(vec[t], point) IN
    /\ cur' = [cur EXCEPT ![t] = NoPoint]
    /\ vec' = [vec EXCEPT ![t] = points]
    /\ IF Len(points) = want[t]
       THEN /\ link' = [link EXCEPT ![t] = points]
            /\ mode' = [mode EXCEPT ![t] = "single"]
            /\ Goto(t, "idle")
       ELSE Goto(t, FirstStep) /\ UNCHANGED <<link, mode>>

\* A point is attached: go on with the next one, or track the link. An attach that
\* had to find out its mode now knows it.
PointDone(t, point) ==
  LET points == Append(vec[t], point) IN
    /\ cur' = [cur EXCEPT ![t] = NoPoint]
    /\ IF Len(points) = want[t]
       THEN /\ link' = [link EXCEPT ![t] = points]
            /\ vec' = [vec EXCEPT ![t] = <<>>]
            /\ mode' = [mode EXCEPT ![t] = "single"]
            /\ Goto(t, "idle")
       ELSE /\ vec' = [vec EXCEPT ![t] = points]
            /\ Goto(t, FirstStep)
            /\ UNCHANGED <<link, mode>>

-----------------------------------------------------------------------------
(* attach. One link per program at a time. *)

Attach(t, k) ==
  /\ pc[t] = "idle" /\ link[t] = <<>>
  /\ want' = [want EXCEPT ![t] = k]
  /\ Goto(t, IF mode[t] = "single" THEN FirstStep ELSE "multi")
  /\ UNCHANGED <<kernel, multi, kernelVars, index, mode, cur, vec, link, drops, leftover>>

\* attach_multi_impl: one link for all points.
AttachMulti(t) ==
  /\ pc[t] = "multi"
  /\ multi[t] /\ HasFreeFd
  /\ fds' = [fds EXCEPT ![NewFd] = Opened(0, t, want[t])]
  /\ link' = [link EXCEPT ![t] = <<[event |-> 0, fd |-> NewFd]>>]
  /\ mode' = [mode EXCEPT ![t] = "multi"]
  /\ Goto(t, "idle")
  /\ UNCHANGED <<kernel, multi, tracefs, foreign, index, want, cur, vec, drops, leftover>>

\* Seeded fault: the mode is remembered before the attempt in that mode succeeded.
MultiRefusedDeciding(t) ==
  /\ pc[t] = "multi"
  /\ mode' = [mode EXCEPT ![t] = IF @ = "unknown" THEN "single" ELSE @]
  /\ Goto(t, IF mode[t] = "unknown" THEN FirstStep ELSE "idle")
  /\ UNCHANGED <<kernel, multi, kernelVars, index, want, cur, vec, link, drops, leftover>>

\* An error that can mean that the program is not for multi links (not supported, or
\* EINVAL, which has other reasons too): in unknown mode try point by point.
MultiRefused(t) ==
  /\ pc[t] = "multi"
  /\ Goto(t, IF mode[t] = "unknown" THEN FirstStep ELSE "idle")
  /\ UNCHANGED <<kernel, multi, kernelVars, index, mode, want, cur, vec, link, drops, leftover>>

\* Any other error.
MultiFails(t) ==
  /\ pc[t] = "multi"
  /\ Goto(t, "idle")
  /\ UNCHANGED <<kernel, multi, kernelVars, index, mode, want, cur, vec, link, drops, leftover>>

\* Seeded fault: the counter is not atomic, another thread's store undoes the increment.
TakeNameRacy(t) ==
  /\ pc[t] = "name"
  /\ index < MaxNames
  /\ index' \in {index, index + 1}
  /\ cur' = [cur EXCEPT ![t] = [event |-> index + 1, fd |-> 0]]
  /\ Goto(t, "write")
  /\ UNCHANGED <<kernel, multi, kernelVars, mode, want, vec, link, drops, leftover>>

\* create_probe_event: a name that no other thread of the process uses.
TakeName(t) ==
  /\ pc[t] = "name"
  /\ index < MaxNames
  /\ index' = index + 1
  /\ cur' = [cur EXCEPT ![t] = [event |-> index', fd |-> 0]]
  /\ Goto(t, "write")
  /\ UNCHANGED <<kernel, multi, kernelVars, mode, want, vec, link, drops, leftover>>

\* create_probe_event: the kernel replaces an event of that name, unless it is open.
WriteEvent(t) ==
  /\ pc[t] = "write"
  /\ ~Busy(cur[t].event)
  /\ tracefs' = tracefs \union {cur[t].event}
  /\ leftover' = leftover \ {cur[t].event}
  /\ Goto(t, "open")
  /\ UNCHANGED <<kernel, multi, foreign, fds, index, mode, want, cur, vec, link, drops>>

\* perf_event_open, of the tracefs event (whose id is read first) or of the PMU's.
OpenPerf(t) ==
  /\ pc[t] = "open"
  /\ HasFreeFd
  /\ cur[t].event # 0 => cur[t].event \in tracefs
  /\ fds' = [fds EXCEPT ![NewFd] = Opened(cur[t].event, t, 0)]
  /\ cur' = [cur EXCEPT ![t].fd = NewFd]
  /\ Goto(t, IF kernel = "link" THEN "link" ELSE "setbpf")
  /\ UNCHANGED <<kernel, multi, tracefs, foreign, index, mode, want, vec, link, drops, leftover>>

\* attach_bpf_link: the link holds the perf event, whose descriptor is closed.
CreateLink(t) ==
  /\ pc[t] = "link"
  /\ ~multi[t] /\ HasFreeFd
  /\ fds' = [fds EXCEPT ![NewFd] = Opened(0, t, 1), ![cur[t].fd] = Closed]
  /\ PointDone(t, [event |-> 0, fd |-> NewFd])
  /\ UNCHANGED <<kernel, multi, tracefs, foreign, index, want, drops, leftover>>

\* attach_perf_event: set the program, then enable the event.
SetBpf(t) ==
  /\ pc[t] = "setbpf"
  /\ ~multi[t]
  /\ Goto(t, "enable")
  /\ UNCHANGED <<kernel, multi, kernelVars, index, mode, want, cur, vec, link, drops, leftover>>

Enable(t) ==
  /\ pc[t] = "enable"
  /\ fds' = [fds EXCEPT ![cur[t].fd].points = 1]
  /\ PointDone(t, cur[t])
  /\ UNCHANGED <<kernel, multi, tracefs, foreign, index, want, drops, leftover>>

\* What a failing step owned: no event before it is written, no descriptor before it
\* is opened.
HalfMade(t) ==
  IF pc[t] \in {"name", "write"} \/ cur[t] = NoPoint THEN <<>> ELSE <<cur[t]>>

\* Seeded fault: the points attached before the failure are forgotten.
AttachFailsForgetting(t) ==
  /\ pc[t] \in {"name", "write", "open", "link", "setbpf", "enable"}
  /\ DropAll(t, HalfMade(t))
  /\ cur' = [cur EXCEPT ![t] = NoPoint]
  /\ vec' = [vec EXCEPT ![t] = <<>>]
  /\ UNCHANGED <<kernel, multi, kernelVars, index, mode, want, link, leftover>>

\* A step fails: the point is dropped where it was made, then those before it.
AttachFails(t) ==
  /\ pc[t] \in {"name", "write", "open", "link", "setbpf", "enable"}
  /\ DropAll(t, HalfMade(t) \o vec[t])
  /\ cur' = [cur EXCEPT ![t] = NoPoint]
  /\ vec' = [vec EXCEPT ![t] = <<>>]
  /\ UNCHANGED <<kernel, multi, kernelVars, index, mode, want, link, leftover>>

-----------------------------------------------------------------------------
(* detach, and drop, which the unload of the program and failures use too *)

Detach(t) ==
  /\ pc[t] = "idle" /\ link[t] # <<>>
  /\ DropAll(t, link[t])
  /\ link' = [link EXCEPT ![t] = <<>>]
  /\ UNCHANGED <<kernel, multi, kernelVars, index, mode, want, cur, vec, leftover>>

\* The point at the head of the list is gone.
Dropped(t) == DropAll(t, Tail(drops[t]))

\* The descriptor is closed, first because it is the first field.
DropFd(t) ==
  /\ pc[t] = "drop"
  /\ LET point == Head(drops[t]) IN
       /\ point.fd # 0
       /\ fds' = [fds EXCEPT ![point.fd] = Closed]
       /\ IF point.event = 0
          THEN Dropped(t)
          ELSE drops' = [drops EXCEPT ![t][1].fd = 0] /\ UNCHANGED pc
  /\ UNCHANGED <<kernel, multi, tracefs, foreign, index, mode, want, cur, vec, link, leftover>>

\* Seeded fault: the fields are dropped in the other order.
DropEventFirst(t) ==
  /\ pc[t] = "drop"
  /\ LET point == Head(drops[t]) IN
       /\ point.event # 0
       /\ tracefs' = IF Busy(point.event) THEN tracefs ELSE tracefs \ {point.event}
       /\ leftover' = IF point.event \in foreign THEN leftover \union {point.event} ELSE leftover
       /\ IF point.fd = 0
          THEN Dropped(t)
          ELSE drops' = [drops EXCEPT ![t][1].event = 0] /\ UNCHANGED pc
  /\ UNCHANGED <<kernel, multi, foreign, fds, index, mode, want, cur, vec, link>>

\* ProbeEvent::drop, delete_probe_event. It is silent about an event that someone
\* removed or has open.
DropEvent(t) ==
  /\ pc[t] = "drop"
  /\ LET n == Head(drops[t]).event IN
       /\ Head(drops[t]).fd = 0
       /\ tracefs' = IF Busy(n) THEN tracefs ELSE tracefs \ {n}
       /\ leftover' = IF n \in foreign THEN leftover \union {n} ELSE leftover
  /\ Dropped(t)
  /\ UNCHANGED <<kernel, multi, foreign, fds, index, mode, want, cur, vec, link>>

-----------------------------------------------------------------------------
(* The environment *)

OpenedByOthers(n) ==
  /\ n \in tracefs \ foreign
  /\ foreign' = foreign \union {n}
  /\ UNCHANGED <<kernel, multi, tracefs, fds, index, mode, pc, want, cur, vec, link, drops, leftover>>

ClosedByOthers(n) ==
  /\ n \in foreign
  /\ foreign' = foreign \ {n}
  /\ UNCHANGED <<kernel, multi, tracefs, fds, index, mode, pc, want, cur, vec, link, drops, leftover>>

RemovedByOthers(n) ==
  /\ n \in tracefs /\ ~Busy(n)
  /\ tracefs' = tracefs \ {n}
  /\ leftover' = leftover \ {n}
  /\ UNCHANGED <<kernel, multi, foreign, fds, index, mode, pc, want, cur, vec, link, drops>>

\* What a handle can take for its mode: one from a pin or an id is in unknown mode,
\* others are in the mode of their section.
Modes(m) == {"unknown", IF m THEN "multi" ELSE "single"}

\* The process is killed, without any destructor. The next one gets the same process
\* id, the worst case for the names.
Restart ==
  /\ fds' = [f \in Fds |-> Closed]
  /\ index' = 0
  /\ mode' \in {m \in [Threads -> {"single", "multi", "unknown"}] :
                 \A t \in Threads : m[t] \in Modes(multi[t])}
  /\ pc' = [t \in Threads |-> "idle"]
  /\ want' = [t \in Threads |-> 0]
  /\ cur' = [t \in Threads |-> NoPoint]
  /\ vec' = [t \in Threads |-> <<>>]
  /\ link' = [t \in Threads |-> <<>>]
  /\ drops' = [t \in Threads |-> <<>>]
  /\ leftover' = tracefs
  /\ UNCHANGED <<kernel, multi, tracefs, foreign>>

-----------------------------------------------------------------------------
\* Programs for multi links exist only on kernels that have them.
Init ==
  /\ kernel \in Kernels
  /\ multi \in [Threads -> BOOLEAN]
  /\ kernel # "link" => multi = [t \in Threads |-> FALSE]
  /\ tracefs = {} /\ foreign = {} /\ leftover = {}
  /\ fds = [f \in Fds |-> Closed]
  /\ index = 0
  /\ mode \in [Threads -> {"single", "multi", "unknown"}]
  /\ \A t \in Threads : mode[t] \in Modes(multi[t])
  /\ pc = [t \in Threads |-> "idle"]
  /\ want = [t \in Threads |-> 0]
  /\ cur = [t \in Threads |-> NoPoint]
  /\ vec = [t \in Threads |-> <<>>]
  /\ link = [t \in Threads |-> <<>>]
  /\ drops = [t \in Threads |-> <<>>]

ThreadStep(t) ==
  \/ \E k \in 1 .. MaxPoints : Attach(t, k)
  \/ AttachMulti(t) \/ MultiRefused(t) \/ MultiFails(t)
  \/ TakeName(t) \/ WriteEvent(t) \/ OpenPerf(t)
  \/ CreateLink(t) \/ SetBpf(t) \/ Enable(t) \/ AttachFails(t)
  \/ Detach(t) \/ DropFd(t) \/ DropEvent(t)

Next ==
  \/ \E t \in Threads : ThreadStep(t)
  \/ \E n \in Names : OpenedByOthers(n) \/ ClosedByOthers(n) \/ RemovedByOthers(n)
  \/ Restart

Spec == Init /\ [][Next]_vars

-----------------------------------------------------------------------------
(* Properties *)

Point == [event : 0 .. MaxNames, fd : 0 .. MaxFd]

\* The types of the variables; an idle thread has nothing half made.
TypeOK ==
  /\ kernel \in Kernels
  /\ multi \in [Threads -> BOOLEAN]
  /\ tracefs \subseteq Names /\ foreign \subseteq Names /\ leftover \subseteq Names
  /\ fds \in [Fds -> [event : 0 .. MaxNames, of : Threads \union {Nobody},
                      points : 0 .. MaxPoints]]
  /\ index \in 0 .. MaxNames
  /\ mode \in [Threads -> {"single", "multi", "unknown"}]
  /\ want \in [Threads -> 0 .. MaxPoints]
  /\ cur \in [Threads -> Point]
  /\ \A t \in Threads :
       /\ pc[t] \in {"idle", "multi", "name", "write", "open", "link", "setbpf", "enable",
                     "drop"}
       /\ Elements(vec[t]) \union Elements(link[t]) \union Elements(drops[t]) \subseteq Point
       /\ pc[t] = "idle" => vec[t] = <<>> /\ drops[t] = <<>> /\ cur[t] = NoPoint
       /\ pc[t] = "drop" => drops[t] # <<>>

\* A probe is made and unmade in several steps and each can fail; still every event
\* in tracefs has an owner that will delete it, unless another process had it open at
\* that moment or the owner was killed.
EventsOwned ==
  \A n \in tracefs : n \in leftover \/ \E t \in Threads : \E x \in Owned(t) : x.event = n

\* Threads never make two events of one name, of which the first to be deleted would
\* take the other's along.
NamesUnique ==
  \A t, u \in Threads : \A x \in Owned(t), y \in Owned(u) :
    (x.event # 0 /\ x.event = y.event) => (t = u /\ x = y)

Descriptors(t) == {f \in Fds : fds[f].of = t}

\* An attach over many points attaches all of them or none: a thread between two
\* operations has the descriptors of its link and no others, and its program runs at
\* each point of that link.
AllOrNothing ==
  \A t \in Threads : pc[t] = "idle" =>
    /\ Descriptors(t) = {x.fd : x \in Elements(link[t])}
    /\ \/ link[t] = <<>>
       \/ Len(link[t]) = 1 /\ fds[link[t][1].fd].points = want[t]
       \/ Len(link[t]) = want[t] /\ \A f \in Descriptors(t) : fds[f].points = 1

\* An attach in unknown mode may try both ways and fail in both, and an error need not
\* mean that the mode is wrong; the mode it settles on is the one of the program.
ModeIsRight ==
  \A t \in Threads : mode[t] # "unknown" => (mode[t] = "multi") = multi[t]
=============================================================================
