--------------------------------- MODULE Tc ---------------------------------
(***************************************************************************)
(* Traffic control classifiers (aya/src/programs/tc.rs, the tc requests in *)
(* sys/netlink/mod.rs, Links in links.rs): the SchedClassifier programs of *)
(* one process at one hook of one interface.                               *)
(*                                                                         *)
(* A netlink filter sits at a key (priority and handle), which the caller  *)
(* names or the kernel allocates. It has no descriptor: whoever knows the  *)
(* key can delete or replace it, and it outlives its process. An NlLink    *)
(* knows its key, so it can be stale. A TCX link is a descriptor.          *)
(*                                                                         *)
(* Each netlink request is a step: other processes act between requests.   *)
(***************************************************************************)
EXTENDS Naturals, FiniteSets

CONSTANTS
  Programs,  \* also stand for their names
  Nobody,    \* not a program
  MaxKey,    \* bound: keys at the hook
  MaxTcx,    \* bound: TCX links
  MaxOwned   \* bound: equal links in the application's hands

ASSUME ProgramsAssumption == IsFiniteSet(Programs) /\ Nobody \notin Programs
ASSUME BoundsAssumption == MaxKey \in Nat /\ MaxTcx \in Nat /\ MaxOwned \in Nat

VARIABLES
  filters,   \* the filter at each key
  tcx,       \* the program each TCX link runs
  loaded,    \* whether ProgramData::fd is set
  links,     \* ProgramData::links
  owned,     \* how many of each link the application holds
  pc,        \* where each program's operation is
  undo,      \* the link that insert refused and drops
  finder,    \* qdisc_detach_program
  abandoned, \* history: keys of filters that lost their link to a failure
  tampered,  \* history: keys at which someone without a link changed something
  stood,     \* history: filters the search is for that were there all the time
  shifted    \* history: a filter was removed during the dump

linkVars == <<loaded, links, owned, pc, undo>>
vars == <<filters, tcx, linkVars, finder, abandoned, tampered, stood, shifted>>

-----------------------------------------------------------------------------
(* The kernel and the links *)

Keys == 1 .. MaxKey
\* A filter has a name, and was attached by this process or by another one.
NoFilter == [name |-> Nobody, ours |-> FALSE]
Filter(p, ours) == [name |-> p, ours |-> ours]

Nl(k) == [kind |-> "nl", at |-> k]
Tcx(n) == [kind |-> "tcx", at |-> n]
Link == {Nl(k) : k \in Keys} \union {Tcx(n) : n \in 1 .. MaxTcx}

\* A request is sent and its answer received, by separate calls: either can fail (no
\* descriptor for the socket, no memory, a signal), so that the kernel may have done what
\* an error is reported for. A request to delete fails if there is no filter (ENOENT).
Deletes(k, ok) == \E deleted \in BOOLEAN :
  /\ ok => deleted
  /\ deleted => filters[k] # NoFilter
  /\ filters' = IF deleted THEN [filters EXCEPT ![k] = NoFilter] ELSE filters
  /\ abandoned' = IF deleted THEN abandoned \ {k}
                  ELSE IF filters[k].ours THEN abandoned \union {k} ELSE abandoned

\* Link::detach of the wrapper, also from its Drop. Closing a TCX link cannot fail.
DetachLink(l, ok) ==
  IF l.kind = "nl"
  THEN Deletes(l.at, ok) /\ UNCHANGED tcx
  ELSE /\ ok
       /\ tcx' = [tcx EXCEPT ![l.at] = Nobody]
       /\ UNCHANGED <<filters, abandoned>>

\* Links::insert. A link with a known id is refused, and dropped with that: a further
\* request, which deletes the filter that was just attached.
Insert(p, l) ==
  IF l \in links[p]
  THEN /\ pc' = [pc EXCEPT ![p] = "undo"]
       /\ undo' = [undo EXCEPT ![p] = l.at]
       /\ UNCHANGED links
  ELSE /\ links' = [links EXCEPT ![p] = @ \union {l}]
       /\ UNCHANGED <<pc, undo>>

Give(l) == owned' = [owned EXCEPT ![l] = @ - 1]
Gain(l) == owned[l] < MaxOwned /\ owned' = [owned EXCEPT ![l] = @ + 1]

-----------------------------------------------------------------------------
(* Programs *)

Load(p) ==
  /\ pc[p] = "idle" /\ ~loaded[p]
  /\ loaded' = [loaded EXCEPT ![p] = TRUE]
  /\ UNCHANGED <<filters, tcx, links, owned, pc, undo, finder, abandoned>>

\* Seeded fault: the request to create does not ask for exclusive creation.
AttachNetlinkOver(p, k) ==
  /\ pc[p] = "idle" /\ loaded[p]
  /\ filters' = [filters EXCEPT ![k] = Filter(p, TRUE)]
  /\ abandoned' = abandoned \ {k}
  /\ Insert(p, Nl(k))
  /\ UNCHANGED <<tcx, loaded, owned, finder>>

\* attach through netlink, with CREATE and EXCL, at a key that is named or allocated.
AttachNetlink(p, k) ==
  /\ pc[p] = "idle" /\ loaded[p]
  /\ filters[k] = NoFilter
  /\ filters' = [filters EXCEPT ![k] = Filter(p, TRUE)]
  /\ Insert(p, Nl(k))
  /\ UNCHANGED <<tcx, loaded, owned, finder, abandoned>>

\* Seeded fault: the refused link stays where it was after its drop.
UndoKeeping(p) == \E ok \in BOOLEAN :
  /\ pc[p] = "undo"
  /\ Deletes(undo[p], ok)
  /\ pc' = [pc EXCEPT ![p] = "idle"]
  /\ UNCHANGED <<tcx, loaded, links, owned, undo, finder>>

\* The filter is there, but its key is not learnt: no link is made.
AttachUntold(p, k) ==
  /\ pc[p] = "idle" /\ loaded[p]
  /\ filters[k] = NoFilter
  /\ filters' = [filters EXCEPT ![k] = Filter(p, TRUE)]
  /\ abandoned' = abandoned \union {k}
  /\ UNCHANGED <<tcx, linkVars, finder>>

\* The link that insert refused is dropped.
Undo(p) == \E ok \in BOOLEAN :
  /\ pc[p] = "undo"
  /\ Deletes(undo[p], ok)
  /\ pc' = [pc EXCEPT ![p] = "idle"]
  /\ undo' = [undo EXCEPT ![p] = 0]
  /\ UNCHANGED <<tcx, loaded, links, owned, finder>>

AttachTcx(p) == \E n \in 1 .. MaxTcx :
  /\ pc[p] = "idle" /\ loaded[p]
  /\ tcx[n] = Nobody
  /\ tcx' = [tcx EXCEPT ![n] = p]
  /\ Insert(p, Tcx(n))
  /\ UNCHANGED <<filters, loaded, owned, finder, abandoned>>

Detach(p, l) == \E ok \in BOOLEAN :
  /\ pc[p] = "idle" /\ l \in links[p]
  /\ links' = [links EXCEPT ![p] = @ \ {l}]
  /\ DetachLink(l, ok)
  /\ UNCHANGED <<loaded, owned, pc, undo, finder>>

TakeLink(p, l) ==
  /\ pc[p] = "idle" /\ l \in links[p]
  /\ links' = [links EXCEPT ![p] = @ \ {l}]
  /\ Gain(l)
  /\ UNCHANGED <<filters, tcx, loaded, pc, undo, finder, abandoned>>

StartUnload(p) ==
  /\ pc[p] = "idle" /\ loaded[p]
  /\ pc' = [pc EXCEPT ![p] = "unload"]
  /\ UNCHANGED <<filters, tcx, loaded, links, owned, undo, finder, abandoned>>

\* Seeded fault: after the first failure the other links are forgotten.
RemoveAllForgetting(p, l) == \E ok \in BOOLEAN :
  /\ pc[p] \in {"unload", "drain"} /\ l \in links[p]
  /\ links' = [links EXCEPT ![p] = IF ok THEN @ \ {l} ELSE {}]
  /\ DetachLink(l, ok)
  /\ pc' = IF ok THEN pc ELSE [pc EXCEPT ![p] = "drain"]
  /\ UNCHANGED <<loaded, owned, undo, finder>>

\* remove_all: one link after the other, in the order of a hash set. The first failure
\* ends it, and the drain that is cut short drops, and so detaches, the others.
RemoveAll(p, l) == \E ok \in BOOLEAN :
  /\ pc[p] \in {"unload", "drain"} /\ l \in links[p]
  /\ links' = [links EXCEPT ![p] = @ \ {l}]
  /\ DetachLink(l, ok)
  /\ pc' = IF ok THEN pc ELSE [pc EXCEPT ![p] = "drain"]
  /\ UNCHANGED <<loaded, owned, undo, finder>>

\* unload_program closes the descriptor, unless remove_all failed.
FinishUnload(p) ==
  /\ pc[p] \in {"unload", "drain"} /\ links[p] = {}
  /\ loaded' = [loaded EXCEPT ![p] = (pc[p] = "drain")]
  /\ pc' = [pc EXCEPT ![p] = "idle"]
  /\ UNCHANGED <<filters, tcx, links, owned, undo, finder, abandoned>>

-----------------------------------------------------------------------------
(* attach_to_link consumes the link whatever happens *)

ReplaceNotLoaded(p, l) == \E ok \in BOOLEAN :
  /\ pc[p] = "idle" /\ ~loaded[p] /\ owned[l] > 0
  /\ Give(l)
  /\ DetachLink(l, ok)
  /\ UNCHANGED <<loaded, links, pc, undo, finder>>

\* bpf_link_update; if the kernel refuses, the descriptor is closed.
ReplaceTcx(p, l) == \E program \in {p, Nobody} :
  /\ pc[p] = "idle" /\ loaded[p] /\ owned[l] > 0 /\ l.kind = "tcx"
  /\ Give(l)
  /\ tcx' = [tcx EXCEPT ![l.at] = program]
  /\ links' = IF program = p THEN [links EXCEPT ![p] = @ \union {l}] ELSE links
  /\ UNCHANGED <<filters, loaded, pc, undo, finder, abandoned>>

\* attach_netlink without CREATE replaces the filter at the key, whoever it is of now.
ReplaceNetlink(p, l) ==
  /\ pc[p] = "idle" /\ loaded[p] /\ owned[l] > 0 /\ l.kind = "nl"
  /\ filters[l.at] # NoFilter
  /\ Give(l)
  /\ filters' = [filters EXCEPT ![l.at] = Filter(p, TRUE)]
  /\ abandoned' = abandoned \ {l.at}
  /\ Insert(p, l)
  /\ UNCHANGED <<tcx, loaded, finder>>

\* The kernel refuses, also because there is no filter. The link was taken out of its
\* wrapper before, so nothing deletes the filter.
ReplaceNetlinkRefused(p, l) ==
  /\ pc[p] = "idle" /\ loaded[p] /\ owned[l] > 0 /\ l.kind = "nl"
  /\ Give(l)
  /\ abandoned' = IF filters[l.at].ours THEN abandoned \union {l.at} ELSE abandoned
  /\ UNCHANGED <<filters, tcx, loaded, links, pc, undo, finder>>

\* The filter is replaced, but the answer is lost, and the link with it.
ReplaceUntold(p, l) ==
  /\ pc[p] = "idle" /\ loaded[p] /\ owned[l] > 0 /\ l.kind = "nl"
  /\ filters[l.at] # NoFilter
  /\ Give(l)
  /\ filters' = [filters EXCEPT ![l.at] = Filter(p, TRUE)]
  /\ abandoned' = abandoned \union {l.at}
  /\ UNCHANGED <<tcx, loaded, links, pc, undo, finder>>

AttachToLink(p, l) ==
  \/ ReplaceNotLoaded(p, l) \/ ReplaceTcx(p, l)
  \/ ReplaceNetlink(p, l) \/ ReplaceNetlinkRefused(p, l) \/ ReplaceUntold(p, l)

\* Drop of a SchedClassifierLink, Link::detach.
DropLink(l) == \E ok \in BOOLEAN :
  /\ owned[l] > 0
  /\ Give(l)
  /\ DetachLink(l, ok)
  /\ UNCHANGED <<loaded, links, pc, undo, finder>>

\* SchedClassifierLink::attached: a link made from a key that the caller knows.
Attached(k) ==
  /\ Gain(Nl(k))
  /\ UNCHANGED <<filters, tcx, loaded, links, pc, undo, finder, abandoned>>

-----------------------------------------------------------------------------
(* qdisc_detach_program: find the filters of a name, then delete each.         *)

Present == {k \in Keys : filters[k] # NoFilter}
Named(n) == {k \in Keys : filters[k].name = n}
\* `next` is the position at which the dump goes on.
Search(step, n) == [step |-> step, name |-> n, next |-> 0, found |-> {}]

StartSearch(n) ==
  /\ finder.step \in {"none", "ok"}
  /\ finder' = Search("dump", n)
  /\ UNCHANGED <<filters, tcx, linkVars, abandoned>>

\* Seeded fault: one datagram is taken for the whole answer.
DatagramIsLast(multi, done) == TRUE

\* NetlinkSocket::recv: whether the iteration ends within or after this datagram.
RecvEnds(multi, done) == done \/ ~multi

\* The kernel's next datagram: c filters, by their position in the order of the keys.
\* The end of the dump is in the last datagram or in one of its own. When recv ends, the
\* filters are deleted, or, if none was found, the caller is told so.
Dump == \E c \in 0 .. MaxKey, done \in BOOLEAN :
  LET Position(k) == Cardinality({j \in Present : j < k})
      sent == {k \in Present : Position(k) \in finder.next .. (finder.next + c - 1)}
      rest == {k \in Present : Position(k) >= finder.next + c}
      found == finder.found \union (sent \intersect Named(finder.name))
  IN
  /\ finder.step = "dump"
  /\ Cardinality(sent) = c
  /\ done => rest = {}
  /\ c = 0 => done
  /\ finder' =
       IF ~RecvEnds(TRUE, done)
       THEN [finder EXCEPT !.next = @ + c, !.found = found]
       ELSE IF found = {} THEN Search("ok", Nobody)
       ELSE [Search("delete", finder.name) EXCEPT !.found = found]
  /\ UNCHANGED <<filters, tcx, linkVars, abandoned>>

\* A message of the dump that is an error, or cannot be read, ends the search.
DumpFails ==
  /\ finder.step = "dump"
  /\ finder' = Search("none", Nobody)
  /\ UNCHANGED <<filters, tcx, linkVars, abandoned>>

\* One filter after the other; the first failure, also a filter that is gone by now or
\* is not the one that was found, ends it.
DeleteFound == \E k \in finder.found, ok \in BOOLEAN :
  /\ finder.step = "delete"
  /\ Deletes(k, ok)
  /\ finder' = IF ~ok THEN Search("none", Nobody)
                ELSE IF finder.found = {k} THEN Search("ok", Nobody)
                ELSE [finder EXCEPT !.found = @ \ {k}]
  /\ UNCHANGED <<tcx, linkVars>>

-----------------------------------------------------------------------------
(* The environment *)

OthersAdd(k, n) ==
  /\ filters[k] = NoFilter
  /\ filters' = [filters EXCEPT ![k] = Filter(n, FALSE)]
  /\ UNCHANGED <<tcx, linkVars, finder, abandoned>>

OthersDelete(k) ==
  /\ filters[k] # NoFilter
  /\ filters' = [filters EXCEPT ![k] = NoFilter]
  /\ abandoned' = abandoned \ {k}
  /\ UNCHANGED <<tcx, linkVars, finder>>

\* The process is killed, without any destructor, and started again. Its filters stay.
Restart ==
  /\ filters' = [k \in Keys |-> [filters[k] EXCEPT !.ours = FALSE]]
  /\ tcx' = [n \in 1 .. MaxTcx |-> Nobody]
  /\ loaded' = [p \in Programs |-> FALSE]
  /\ links' = [p \in Programs |-> {}]
  /\ owned' = [l \in Link |-> 0]
  /\ pc' = [p \in Programs |-> "idle"]
  /\ undo' = [p \in Programs |-> 0]
  /\ finder' = Search("none", Nobody)
  /\ abandoned' = {}

\* How many links stand for an attachment, one that is being dropped included.
Holders(l) ==
  owned[l] + Cardinality({p \in Programs : l \in links[p]})
           + Cardinality({p \in Programs : l.kind = "nl" /\ undo[p] = l.at})

\* A filter is removed without the use of a link, or a link made without a filter.
Meddled(k) ==
  \/ filters[k] # NoFilter /\ filters'[k] = NoFilter /\ Holders(Nl(k))' = Holders(Nl(k))
  \/ Attached(k)

\* The histories, which no action depends on.
Watch ==
  /\ tampered' = {k \in Keys : Holders(Nl(k))' > 0 /\ (k \in tampered \/ Meddled(k))}
  /\ stood' = IF finder'.step \notin {"dump", "delete"} THEN {}
              ELSE IF finder.step \notin {"dump", "delete"} THEN Named(finder'.name)
              ELSE {k \in stood : filters'[k] = filters[k]}
  /\ shifted' = /\ finder'.step \in {"dump", "delete"}
                /\ shifted \/ /\ finder.step = "dump"
                              /\ \E k \in Present : filters'[k] = NoFilter

-----------------------------------------------------------------------------
Init ==
  /\ filters = [k \in Keys |-> NoFilter]
  /\ tcx = [n \in 1 .. MaxTcx |-> Nobody]
  /\ loaded = [p \in Programs |-> FALSE]
  /\ links = [p \in Programs |-> {}]
  /\ owned = [l \in Link |-> 0]
  /\ pc = [p \in Programs |-> "idle"]
  /\ undo = [p \in Programs |-> 0]
  /\ finder = Search("none", Nobody)
  /\ abandoned = {} /\ tampered = {} /\ stood = {} /\ shifted = FALSE

ProgramStep(p) ==
  \/ Load(p) \/ AttachTcx(p) \/ Undo(p) \/ StartUnload(p) \/ FinishUnload(p)
  \/ \E k \in Keys : AttachNetlink(p, k) \/ AttachUntold(p, k)
  \/ \E l \in links[p] : Detach(p, l) \/ TakeLink(p, l) \/ RemoveAll(p, l)
  \/ \E l \in Link : AttachToLink(p, l)

Step ==
  \/ \E p \in Programs : ProgramStep(p)
  \/ \E l \in Link : DropLink(l)
  \/ \E k \in Keys : Attached(k) \/ OthersDelete(k)
  \/ \E k \in Keys, n \in Programs : OthersAdd(k, n)
  \/ \E n \in Programs : StartSearch(n)
  \/ Dump \/ DumpFails \/ DeleteFound
  \/ Restart

Next == Step /\ Watch

Spec == Init /\ [][Next]_vars

-----------------------------------------------------------------------------
(* Properties *)

\* The types of the variables.
TypeOK ==
  /\ filters \in [Keys -> {NoFilter} \union [name : Programs, ours : BOOLEAN]]
  /\ tcx \in [1 .. MaxTcx -> Programs \union {Nobody}]
  /\ loaded \in [Programs -> BOOLEAN]
  /\ links \in [Programs -> SUBSET Link]
  /\ owned \in [Link -> 0 .. MaxOwned]
  /\ pc \in [Programs -> {"idle", "undo", "unload", "drain"}]
  /\ undo \in [Programs -> 0 .. MaxKey]
  /\ \A p \in Programs : (pc[p] = "undo") = (undo[p] # 0)
  /\ finder \in [step : {"none", "dump", "delete", "ok"}, name : Programs \union {Nobody},
                 next : 0 .. MaxKey, found : SUBSET Keys]
  /\ stood \subseteq Keys
  /\ abandoned \subseteq Keys /\ tampered \subseteq Keys
  /\ shifted \in BOOLEAN

\* Whatever attach, attach_to_link, detach and unload run into, also a remove_all that
\* stops midway: what this process attached has a link that will detach it. The
\* exceptions are requests that fail or whose answer is lost (`abandoned`).
AttachmentsHeld ==
  /\ \A k \in Keys : filters[k].ours => (Holders(Nl(k)) > 0 \/ k \in abandoned)
  /\ \A n \in 1 .. MaxTcx : Holders(Tcx(n)) = (IF tcx[n] \in Programs THEN 1 ELSE 0)

\* Two links never stand for one filter, so that detaching one does not detach what
\* the other is for, unless someone without a link removed a filter or made a link.
FilterNotShared ==
  \A k \in Keys \ tampered : Holders(Nl(k)) <= 1

\* qdisc_detach_program said that it detached the programs of that name, or that there
\* were none: no filter of that name that was there all the time is still there, unless
\* removals shifted the kernel's dump.
DetachByNameComplete ==
  [][(finder.step \in {"dump", "delete"} /\ finder'.step = "ok" /\ ~shifted) =>
       \A k \in stood : filters'[k] # filters[k]]_vars
=============================================================================
