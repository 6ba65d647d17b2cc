-------------------------------- MODULE Xdp --------------------------------
(***************************************************************************)
(* The lifecycle of XDP programs and their links (aya/src/programs/xdp.rs, *)
(* links.rs, and load, unload and drop in programs/mod.rs): one process,   *)
(* its file descriptors, and the part of the kernel they keep alive.       *)
(*                                                                         *)
(* A program is attached in one of two ways. On a kernel with XDP links    *)
(* the attachment lives as long as a file descriptor or a pin refers to    *)
(* the link, and the file descriptor is owned by one FdLink. On an older   *)
(* kernel the attachment is a netlink setting that outlives every file     *)
(* descriptor; an NlLink remembers the interface and the raw file          *)
(* descriptor number of the program, which it does not own, and clears the *)
(* setting when it is detached.                                            *)
(*                                                                         *)
(* Every operation takes &mut self and none calls back, so each is one     *)
(* action. Operations that fail without an effect are left out. Attach     *)
(* modes are not told apart.                                               *)
(***************************************************************************)
EXTENDS Integers, Sequences, FiniteSets

CONSTANTS
  Programs,    \* the process's Xdp values
  Interfaces,
  Paths,       \* where links can be pinned
  Kernels,     \* kernels to consider: "link" (5.9), "replace" (5.7), "legacy"
  NoInterface, \* the interface of a link that names none
  MaxFd,       \* bound: file descriptors the process can have open
  MaxLoads,    \* bound: programs ever loaded
  MaxLinks     \* bound: kernel links ever created

ASSUME NoInterfaceAssumption == NoInterface \notin Interfaces
ASSUME KernelsAssumption == Kernels \subseteq {"link", "replace", "legacy"}
ASSUME LimitsAssumption == MaxFd \in Nat /\ MaxLoads \in Nat /\ MaxLinks \in Nat

VARIABLES
  kernel,   \* the kernel the process runs on; it never changes
  hook,     \* what each interface runs
  loaded,   \* how many programs were ever loaded; a program's number is its identity
  klinks,   \* the program each kernel link ever created runs
  pins,     \* the kernel link pinned at each path, or 0
  fds,      \* the process's file descriptor table
  progFd,   \* ProgramData::fd, or 0
  links,    \* ProgramData::links
  owned,    \* links in the application's hands: XdpLink and FdLink values
  pinned    \* PinnedLink values in the application's hands

kernelVars == <<hook, klinks, pins, fds>>
vars == <<kernel, loaded, kernelVars, progFd, links, owned, pinned>>

-----------------------------------------------------------------------------
(* The kernel *)

Fds == 1 .. MaxFd
Closed == [kind |-> "closed", of |-> 0]
Nothing == [by |-> "nothing", of |-> 0]

\* The lowest free descriptor, which is what the kernel hands out.
NewFd == CHOOSE f \in Fds : fds[f] = Closed /\ \A g \in Fds : g < f => fds[g] # Closed
HasFreeFd == \E f \in Fds : fds[f] = Closed

\* A kernel link that no descriptor and no pin refers to detaches its program.
KernelBecomes(fds1, pins1, hook1) ==
  /\ fds' = fds1
  /\ pins' = pins1
  /\ hook' = [i \in Interfaces |->
       IF /\ hook1[i].by = "link"
          /\ \A f \in Fds : fds1[f] # [kind |-> "link", of |-> hook1[i].of]
          /\ \A path \in Paths : pins1[path] # hook1[i].of
       THEN Nothing
       ELSE hook1[i]]

\* The kernel program that p's file descriptor refers to.
ProgramOf(p) == fds[progFd[p]].of

-----------------------------------------------------------------------------
(* Links. `of` is a history of the program a netlink link was made for. *)

FdLink(f) == [kind |-> "fd", fd |-> f, ifc |-> NoInterface, of |-> 0]
NlLink(i, f, n) == [kind |-> "nl", fd |-> f, ifc |-> i, of |-> n]

\* Link::id. A netlink link is known by its interface and a descriptor number.
Id(l) == <<l.kind, l.ifc, l.fd>>

\* netlink_set_xdp_fd(if_index, None, ..): the kernel resolves the descriptor now,
\* and, if it knows XDP_FLAGS_REPLACE, clears only the program it finds.
Clears(l, h) ==
  /\ h.by = "netlink"
  /\ kernel = "replace" => fds[l.fd] = [kind |-> "prog", of |-> h.of]

\* Seeded fault: NlLink::detach owns the descriptor that it borrows, and closes it.
DetachAndCloseOwning(S, F) ==
  KernelBecomes(
    [f \in Fds |-> IF f \in F \/ \E l \in S : l.fd = f THEN Closed ELSE fds[f]],
    pins,
    [i \in Interfaces |->
       IF \E l \in S : l.ifc = i /\ Clears(l, hook[i]) THEN Nothing ELSE hook[i]])

\* Detach or drop the links in S and close the descriptors in F after that.
DetachAndClose(S, F) ==
  KernelBecomes(
    [f \in Fds |-> IF f \in F \/ FdLink(f) \in S THEN Closed ELSE fds[f]],
    pins,
    [i \in Interfaces |->
       IF \E l \in S : l.ifc = i /\ Clears(l, hook[i]) THEN Nothing ELSE hook[i]])

\* Links::insert. A link with a known id is refused, and dropped with that.
Tracks(p, l) == \E m \in links[p] : Id(m) = Id(l)

-----------------------------------------------------------------------------
(* Programs *)

Load(p) ==
  /\ progFd[p] = 0
  /\ loaded < MaxLoads /\ HasFreeFd
  /\ loaded' = loaded + 1
  /\ progFd' = [progFd EXCEPT ![p] = NewFd]
  /\ fds' = [fds EXCEPT ![NewFd] = [kind |-> "prog", of |-> loaded']]
  /\ UNCHANGED <<kernel, hook, klinks, pins, links, owned, pinned>>

\* Seeded fault: the program's descriptor is closed before its links are detached.
UnloadClosingFirst(p) ==
  /\ progFd[p] # 0
  /\ KernelBecomes(
       [f \in Fds |-> IF f = progFd[p] \/ FdLink(f) \in links[p] THEN Closed ELSE fds[f]],
       pins,
       [i \in Interfaces |->
         IF \E l \in links[p] : l.ifc = i /\ kernel = "legacy" /\ Clears(l, hook[i])
         THEN Nothing ELSE hook[i]])
  /\ links' = [links EXCEPT ![p] = {}]
  /\ progFd' = [progFd EXCEPT ![p] = 0]
  /\ UNCHANGED <<kernel, loaded, klinks, owned, pinned>>

\* unload_program, also from Drop: every tracked link, then the descriptor.
Unload(p) ==
  /\ progFd[p] # 0
  /\ DetachAndClose(links[p], {progFd[p]})
  /\ links' = [links EXCEPT ![p] = {}]
  /\ progFd' = [progFd EXCEPT ![p] = 0]
  /\ UNCHANGED <<kernel, loaded, klinks, owned, pinned>>

\* attach through bpf_link_create, which refuses an interface that runs something.
AttachLink(p, i) ==
  /\ kernel = "link"
  /\ progFd[p] # 0
  /\ hook[i] = Nothing
  /\ Len(klinks) < MaxLinks /\ HasFreeFd
  /\ klinks' = Append(klinks, ProgramOf(p))
  /\ hook' = [hook EXCEPT ![i] = [by |-> "link", of |-> Len(klinks')]]
  /\ fds' = [fds EXCEPT ![NewFd] = [kind |-> "link", of |-> Len(klinks')]]
  /\ links' = [links EXCEPT ![p] = @ \union {FdLink(NewFd)}]
  /\ UNCHANGED <<kernel, loaded, pins, progFd, owned, pinned>>

\* attach through netlink with UPDATE_IF_NOEXIST. A link with a known id is refused
\* as already attached and dropped, which undoes the attachment: no effect.
AttachNetlink(p, i) ==
  /\ kernel # "link"
  /\ progFd[p] # 0
  /\ hook[i] = Nothing
  /\ LET l == NlLink(i, progFd[p], ProgramOf(p)) IN
       /\ ~Tracks(p, l)
       /\ hook' = [hook EXCEPT ![i] = [by |-> "netlink", of |-> l.of]]
       /\ links' = [links EXCEPT ![p] = @ \union {l}]
  /\ UNCHANGED <<kernel, loaded, klinks, pins, fds, progFd, owned, pinned>>

\* detach: remove the link from the set and detach it.
Detach(p, l) ==
  /\ l \in links[p]
  /\ links' = [links EXCEPT ![p] = @ \ {l}]
  /\ DetachAndClose({l}, {})
  /\ UNCHANGED <<kernel, loaded, klinks, progFd, owned, pinned>>

TakeLink(p, l) ==
  /\ l \in links[p]
  /\ links' = [links EXCEPT ![p] = @ \ {l}]
  /\ owned' = owned \union {l}
  /\ UNCHANGED <<kernel, loaded, kernelVars, progFd, pinned>>

-----------------------------------------------------------------------------
(* attach_to_link: the link is consumed whatever happens *)

\* The program is not loaded: the wrapper is dropped as a whole.
ReplaceNotLoaded(p, l) ==
  /\ l \in owned
  /\ progFd[p] = 0
  /\ DetachAndClose({l}, {})
  /\ owned' = owned \ {l}
  /\ UNCHANGED <<kernel, loaded, klinks, progFd, links, pinned>>

ReplaceFd(p, l) ==
  /\ l \in owned /\ l.kind = "fd"
  /\ progFd[p] # 0
  /\ klinks' = [klinks EXCEPT ![fds[l.fd].of] = ProgramOf(p)]
  /\ links' = [links EXCEPT ![p] = @ \union {l}]
  /\ owned' = owned \ {l}
  /\ UNCHANGED <<kernel, loaded, hook, pins, fds, progFd, pinned>>

\* Seeded fault: the descriptor leaks when the kernel refuses the update.
ReplaceFdRefusedLeaking(p, l) ==
  /\ l \in owned /\ l.kind = "fd"
  /\ progFd[p] # 0
  /\ owned' = owned \ {l}
  /\ UNCHANGED <<kernel, loaded, kernelVars, progFd, links, pinned>>

\* The kernel refuses bpf_link_update: the descriptor is closed on return.
ReplaceFdRefused(p, l) ==
  /\ l \in owned /\ l.kind = "fd"
  /\ progFd[p] # 0
  /\ DetachAndClose({l}, {})
  /\ owned' = owned \ {l}
  /\ UNCHANGED <<kernel, loaded, klinks, progFd, links, pinned>>

\* Netlink with REPLACE, which succeeds only if the interface runs the program that
\* the recorded number now denotes. A known id is refused after the replacement, and
\* dropping the new link then clears the interface.
ReplaceNetlink(p, l) ==
  /\ l \in owned /\ l.kind = "nl"
  /\ progFd[p] # 0
  /\ kernel = "replace" /\ Clears(l, hook[l.ifc])
  /\ LET m == NlLink(l.ifc, progFd[p], ProgramOf(p)) IN
       IF Tracks(p, m)
       THEN /\ hook' = [hook EXCEPT ![l.ifc] = Nothing]
            /\ UNCHANGED links
       ELSE /\ hook' = [hook EXCEPT ![l.ifc] = [by |-> "netlink", of |-> m.of]]
            /\ links' = [links EXCEPT ![p] = @ \union {m}]
  /\ owned' = owned \ {l}
  /\ UNCHANGED <<kernel, loaded, klinks, pins, fds, progFd, pinned>>

\* The kernel refuses, for that reason or another (an older kernel always does).
\* The link was unwrapped, so nothing detaches it.
ReplaceNetlinkRefused(p, l) ==
  /\ l \in owned /\ l.kind = "nl"
  /\ progFd[p] # 0
  /\ owned' = owned \ {l}
  /\ UNCHANGED <<kernel, loaded, kernelVars, progFd, links, pinned>>

AttachToLink(p, l) ==
  \/ ReplaceNotLoaded(p, l)
  \/ ReplaceFd(p, l)
  \/ ReplaceFdRefused(p, l)
  \/ ReplaceNetlink(p, l)
  \/ ReplaceNetlinkRefused(p, l)

-----------------------------------------------------------------------------
(* Links in the application's hands *)

\* Drop for XdpLink and FdLink, Link::detach, and the conversion of a netlink link
\* into an FdLink, which fails and drops it.
DropLink(l) ==
  /\ l \in owned
  /\ DetachAndClose({l}, {})
  /\ owned' = owned \ {l}
  /\ UNCHANGED <<kernel, loaded, klinks, progFd, links, pinned>>

\* FdLink::pin.
Pin(l, path) ==
  /\ l \in owned /\ l.kind = "fd"
  /\ pins[path] = 0
  /\ pins' = [pins EXCEPT ![path] = fds[l.fd].of]
  /\ owned' = owned \ {l}
  /\ pinned' = pinned \union {[fd |-> l.fd, path |-> path]}
  /\ UNCHANGED <<kernel, loaded, hook, klinks, fds, progFd, links>>

\* FdLink::pin where the path is taken: the link is dropped with the error.
PinRefused(l, path) ==
  /\ l.kind = "fd"
  /\ pins[path] # 0
  /\ DropLink(l)

\* PinnedLink::from_pin.
FromPin(path) ==
  /\ pins[path] # 0
  /\ HasFreeFd
  /\ fds' = [fds EXCEPT ![NewFd] = [kind |-> "link", of |-> pins[path]]]
  /\ pinned' = pinned \union {[fd |-> NewFd, path |-> path]}
  /\ UNCHANGED <<kernel, loaded, hook, klinks, pins, progFd, links, owned>>

\* PinnedLink::unpin removes whatever file is at the path now.
Unpin(x) ==
  /\ x \in pinned
  /\ pins[x.path] # 0
  /\ KernelBecomes(fds, [pins EXCEPT ![x.path] = 0], hook)
  /\ pinned' = pinned \ {x}
  /\ owned' = owned \union {FdLink(x.fd)}
  /\ UNCHANGED <<kernel, loaded, klinks, progFd, links>>

\* Seeded fault: the file of a PinnedLink goes with it.
DropPinnedUnpinning(x) ==
  /\ x \in pinned
  /\ KernelBecomes([fds EXCEPT ![x.fd] = Closed], [pins EXCEPT ![x.path] = 0], hook)
  /\ pinned' = pinned \ {x}
  /\ UNCHANGED <<kernel, loaded, klinks, progFd, links, owned>>

\* Drop for PinnedLink; also an unpin that finds no file.
DropPinned(x) ==
  /\ x \in pinned
  /\ DetachAndClose({FdLink(x.fd)}, {})
  /\ pinned' = pinned \ {x}
  /\ UNCHANGED <<kernel, loaded, klinks, progFd, links, owned>>

\* FdLink::from(PinnedLink): the file stays.
KeepPin(x) ==
  /\ x \in pinned
  /\ pinned' = pinned \ {x}
  /\ owned' = owned \union {FdLink(x.fd)}
  /\ UNCHANGED <<kernel, loaded, kernelVars, progFd, links>>

-----------------------------------------------------------------------------
(* The environment *)

\* Someone else clears the interface (ip link set dev .. xdp off). The kernel
\* refuses that for an attachment held by a link.
ClearedByOthers(i) ==
  /\ hook[i].by = "netlink"
  /\ hook' = [hook EXCEPT ![i] = Nothing]
  /\ UNCHANGED <<kernel, loaded, klinks, pins, fds, progFd, links, owned, pinned>>

\* The process is killed, without any destructor, and started again.
Restart ==
  /\ KernelBecomes([f \in Fds |-> Closed], pins, hook)
  /\ progFd' = [p \in Programs |-> 0]
  /\ links' = [p \in Programs |-> {}]
  /\ owned' = {}
  /\ pinned' = {}
  /\ UNCHANGED <<kernel, loaded, klinks>>

-----------------------------------------------------------------------------
Init ==
  /\ kernel \in Kernels
  /\ hook = [i \in Interfaces |-> Nothing]
  /\ loaded = 0
  /\ klinks = <<>>
  /\ pins = [path \in Paths |-> 0]
  /\ fds = [f \in Fds |-> Closed]
  /\ progFd = [p \in Programs |-> 0]
  /\ links = [p \in Programs |-> {}]
  /\ owned = {}
  /\ pinned = {}

ProgramStep(p) ==
  \/ Load(p)
  \/ Unload(p)
  \/ \E i \in Interfaces : AttachLink(p, i) \/ AttachNetlink(p, i)
  \/ \E l \in links[p] : Detach(p, l) \/ TakeLink(p, l)
  \/ \E l \in owned : AttachToLink(p, l)

LinkStep ==
  \/ \E l \in owned : DropLink(l)
  \/ \E l \in owned, path \in Paths : Pin(l, path) \/ PinRefused(l, path)
  \/ \E path \in Paths : FromPin(path)
  \/ \E x \in pinned : Unpin(x) \/ DropPinned(x) \/ KeepPin(x)

Next ==
  \/ \E p \in Programs : ProgramStep(p)
  \/ LinkStep
  \/ \E i \in Interfaces : ClearedByOthers(i)
  \/ Restart

Spec == Init /\ [][Next]_vars

-----------------------------------------------------------------------------
(* Properties *)

Link == {FdLink(f) : f \in Fds}
        \union {NlLink(i, f, n) : i \in Interfaces, f \in Fds, n \in 1 .. MaxLoads}
Object == {Closed} \union [kind : {"prog"}, of : 1 .. MaxLoads]
                   \union [kind : {"link"}, of : 1 .. MaxLinks]

Types ==
  /\ kernel \in Kernels
  /\ hook \in [Interfaces -> {Nothing} \union [by : {"netlink"}, of : 1 .. MaxLoads]
                                       \union [by : {"link"}, of : 1 .. MaxLinks]]
  /\ loaded \in 0 .. MaxLoads
  /\ klinks \in Seq(1 .. MaxLoads) /\ Len(klinks) <= MaxLinks
  /\ pins \in [Paths -> 0 .. MaxLinks]
  /\ fds \in [Fds -> Object]
  /\ progFd \in [Programs -> 0 .. MaxFd]
  /\ links \in [Programs -> SUBSET Link]
  /\ owned \subseteq Link
  /\ pinned \subseteq [fd : Fds, path : Paths]

\* The types of the variables, and of the descriptors: that of a ProgramData is open and
\* of a program, that of an FdLink or a PinnedLink open and of a link, whatever was closed
\* and reused meanwhile.
TypeOK ==
  /\ Types
  /\ \A p \in Programs :
       /\ progFd[p] # 0 => fds[progFd[p]].kind = "prog"
       /\ \A l \in links[p] : l.kind = "fd" => fds[l.fd].kind = "link"
  /\ \A l \in owned : l.kind = "fd" => fds[l.fd].kind = "link"
  /\ \A x \in pinned : fds[x.fd].kind = "link"

\* Every value that owns descriptor f.
Owners(f) ==
  {<<"program", p>> : p \in {p \in Programs : progFd[p] = f}}
  \union {<<"tracked", p>> : p \in {p \in Programs : FdLink(f) \in links[p]}}
  \union {<<"owned", l>> : l \in owned \intersect {FdLink(f)}}
  \union {<<"pinned", x>> : x \in {x \in pinned : x.fd = f}}

\* Through loads, attaches, replacements, pins and all their failures, each open
\* descriptor has exactly one owner and no value owns a closed one: no descriptor
\* leaks, which would keep a program attached, and none is closed twice.
DescriptorsOwned ==
  \A f \in Fds : Cardinality(Owners(f)) = (IF fds[f] = Closed THEN 0 ELSE 1)

\* h, on interface i, is what link l was made for.
Represents(l, i, h) ==
  IF l.kind = "fd"
  THEN h = [by |-> "link", of |-> fds[l.fd].of]
  ELSE i = l.ifc /\ h = [by |-> "netlink", of |-> l.of]

\* "Tracked links will be detached before unloading the program" (unload): what a
\* tracked link stood for is gone, unless a pin or another descriptor holds it.
UnloadDetaches ==
  [][\A p \in Programs : Unload(p) =>
       \A l \in links[p], i \in Interfaces :
         Represents(l, i, hook[i]) =>
           \/ hook'[i] = Nothing
           \/ \E f \in Fds : fds'[f].kind = "link" /\ fds'[f].of = hook[i].of
           \/ \E path \in Paths : pins'[path] = hook[i].of
    ]_vars

\* "Whether or not the program remains attached is dependent on the presence of the file
\* in BPFFS" (PinnedLink): as long as nobody unpins a pinned link, the link stays at its
\* path and its interface runs it, through unload, attach_to_link, the drop of every
\* value that refers to it, and the death of the process.
PinnedStaysAttached ==
  [][\A path \in Paths, i \in Interfaces :
       (pins[path] # 0 /\ hook[i] = [by |-> "link", of |-> pins[path]]) =>
         \/ pins'[path] = pins[path] /\ hook'[i] = hook[i]
         \/ \E x \in pinned : x.path = path /\ Unpin(x)
    ]_vars

\* "detach only clears the program represented by this link" (NlLink::detach).
DetachClearsOnlyOwn ==
  [][\A l \in owned : DropLink(l) =>
       \A i \in Interfaces : hook'[i] # hook[i] => Represents(l, i, hook[i])
    ]_vars

\* "When the returned [link] is dropped, the link will be detached" (take_link).
DroppedLinkDetaches ==
  [][\A l \in owned : (l.kind = "nl" /\ DropLink(l)) =>
       \A i \in Interfaces : ~Represents(l, i, hook'[i])
    ]_vars
=============================================================================
