----------------------------- MODULE XdpProofs -----------------------------
(***************************************************************************)
(* Theorems about Xdp, for every set of programs, interfaces and paths, on *)
(* every kernel.                                                           *)
(***************************************************************************)
EXTENDS Xdp, WellFoundedInduction, TLAPS, FiniteSetTheorems, SequenceTheorems

-----------------------------------------------------------------------------
(* The inductive invariant *)

Tracked(p, f) == FdLink(f) \in links[p]
Free(f) == FdLink(f) \in owned

\* Of the values that could close descriptor f, one does, and it is of the right kind.
Held(f) ==
  /\ \A p \in Programs : progFd[p] = f =>
       fds[f].kind = "prog" /\ \A q \in Programs : progFd[q] = f => q = p
  /\ \A p \in Programs : Tracked(p, f) =>
       fds[f].kind = "link" /\ ~Free(f) /\ \A q \in Programs : Tracked(q, f) => q = p
  /\ Free(f) => fds[f].kind = "link"
  /\ \A x \in pinned : x.fd = f =>
       /\ fds[f].kind = "link" /\ ~Free(f) /\ \A p \in Programs : ~Tracked(p, f)
       /\ \A y \in pinned : y.fd = f => y = x
  /\ fds[f].kind = "prog" => \E p \in Programs : progFd[p] = f
  /\ fds[f].kind = "link" =>
       \/ \E p \in Programs : Tracked(p, f)
       \/ Free(f)
       \/ \E x \in pinned : x.fd = f

\* A program that tracks links is loaded, and its netlink links name its own descriptor
\* and the kernel program behind it.
NetlinkRight(p) ==
  \A l \in links[p] :
    /\ progFd[p] # 0
    /\ l.kind = "nl" => l.fd = progFd[p] /\ fds[l.fd] = [kind |-> "prog", of |-> l.of]

IInv ==
  /\ Types
  /\ \A f \in Fds : Held(f)
  /\ \A p \in Programs : NetlinkRight(p)

-----------------------------------------------------------------------------
(* Facts about links and descriptors *)

USE NoInterfaceAssumption, KernelsAssumption, LimitsAssumption

\* A set of numbers that is not empty has a least element.
LEMMA LeastNumber ==
  ASSUME NEW U, U \subseteq Nat, U # {}
  PROVE  \E n \in U : \A m \in U : n <= m
<1> DEFINE R == OpToRel(<, Nat)
<1>1. IsWellFoundedOn(R, Nat)
  BY NatLessThanWellFounded, Zenon
<1>2. \A m, n \in Nat : m < n => <<m, n>> \in R
  BY Zenon DEF OpToRel
<1>3. PICK n \in U : \A m \in U : ~(<<m, n>> \in R)
  <2> HIDE DEF R
  <2> QED
    BY <1>1, WFMin
<1>4. \A m \in U : ~(m < n)
  BY <1>2, <1>3, Zenon
<1> QED
  BY <1>4

LEMMA LinkFacts ==
  /\ \A f \in Fds : FdLink(f) \in Link /\ f # 0
  /\ \A f, g \in Fds : FdLink(f) = FdLink(g) => f = g
  /\ \A f : FdLink(f).kind = "fd" /\ FdLink(f).fd = f /\ FdLink(f).ifc = NoInterface
  /\ \A i, f, n : /\ NlLink(i, f, n).kind = "nl" /\ NlLink(i, f, n).ifc = i
                  /\ NlLink(i, f, n).fd = f /\ NlLink(i, f, n).of = n
  /\ \A i, f, n, g : NlLink(i, f, n) # FdLink(g)
  /\ \A i \in Interfaces, f \in Fds, n \in 1 .. MaxLoads : NlLink(i, f, n) \in Link
  /\ \A l \in Link :
       \/ l.kind = "fd" /\ l.fd \in Fds /\ l = FdLink(l.fd)
       \/ l.kind = "nl" /\ l.fd \in Fds /\ l.ifc \in Interfaces /\ l.of \in 1 .. MaxLoads
<1>1. \A f : FdLink(f).kind = "fd" /\ FdLink(f).fd = f /\ FdLink(f).ifc = NoInterface
  BY DEF FdLink
<1>2. \A i, f, n : /\ NlLink(i, f, n).kind = "nl" /\ NlLink(i, f, n).ifc = i
                   /\ NlLink(i, f, n).fd = f /\ NlLink(i, f, n).of = n
  BY DEF NlLink
<1>3. \A i, f, n, g : NlLink(i, f, n) # FdLink(g)
  BY <1>1, <1>2
<1>4. \A f \in Fds : FdLink(f) \in Link /\ f # 0
  BY DEF Link, Fds
<1>5. \A i \in Interfaces, f \in Fds, n \in 1 .. MaxLoads : NlLink(i, f, n) \in Link
  BY DEF Link
<1>6. ASSUME NEW l \in Link
      PROVE  \/ l.kind = "fd" /\ l.fd \in Fds /\ l = FdLink(l.fd)
             \/ l.kind = "nl" /\ l.fd \in Fds /\ l.ifc \in Interfaces /\ l.of \in 1 .. MaxLoads
  <2>1. CASE \E f \in Fds : l = FdLink(f)
    BY <1>1, <2>1
  <2>2. CASE \E i \in Interfaces, f \in Fds, n \in 1 .. MaxLoads : l = NlLink(i, f, n)
    BY <1>2, <2>2
  <2> QED
    BY <2>1, <2>2 DEF Link
<1> QED
  BY <1>1, <1>2, <1>3, <1>4, <1>5, <1>6

LEMMA ObjectFacts ==
  /\ Closed \in Object /\ Closed.kind = "closed"
  /\ \A n \in 1 .. MaxLoads : [kind |-> "prog", of |-> n] \in Object
  /\ \A n \in 1 .. MaxLinks : [kind |-> "link", of |-> n] \in Object
  /\ \A o \in Object :
       \/ o = Closed
       \/ o.kind = "prog" /\ o.of \in 1 .. MaxLoads /\ o = [kind |-> "prog", of |-> o.of]
       \/ o.kind = "link" /\ o.of \in 1 .. MaxLinks /\ o = [kind |-> "link", of |-> o.of]
BY DEF Closed, Object

\* What an interface can run.
Attachments == {Nothing} \union [by : {"netlink"}, of : 1 .. MaxLoads]
                         \union [by : {"link"}, of : 1 .. MaxLinks]

LEMMA NewFdFacts ==
  ASSUME HasFreeFd
  PROVE  NewFd \in Fds /\ fds[NewFd] = Closed
<1> DEFINE free == {f \in Fds : fds[f] = Closed}
<1>1. free \subseteq Nat /\ free # {}
  BY DEF HasFreeFd, Fds
<1>2. \E f \in free : \A g \in free : f <= g
  BY <1>1, LeastNumber
<1>3. \E f \in Fds : fds[f] = Closed /\ \A g \in Fds : g < f => fds[g] # Closed
  BY <1>2 DEF Fds
<1> QED
  BY <1>3, Zenon DEF NewFd

\* A descriptor that is closed is nobody's.
LEMMA ClosedIsFree ==
  ASSUME NEW f \in Fds, Held(f), fds[f] = Closed
  PROVE  /\ \A p \in Programs : progFd[p] # f /\ ~Tracked(p, f)
         /\ ~Free(f) /\ \A x \in pinned : x.fd # f
BY ObjectFacts DEF Held

\* A loaded program has an open descriptor, and its number in the kernel.
LEMMA ProgramFdFacts ==
  ASSUME IInv, NEW p \in Programs, progFd[p] # 0
  PROVE  /\ progFd[p] \in Fds /\ fds[progFd[p]].kind = "prog"
         /\ ProgramOf(p) \in 1 .. MaxLoads
         /\ fds[progFd[p]] = [kind |-> "prog", of |-> ProgramOf(p)]
<1>1. PICK f : f = progFd[p]
  OBVIOUS
<1>2. f \in Fds
  BY <1>1 DEF IInv, Types, Fds
<1>3. fds[f].kind = "prog"
  BY <1>1, <1>2 DEF IInv, Held
<1>4. fds[f] \in Object /\ fds[f] # Closed
  BY <1>2, <1>3, ObjectFacts DEF IInv, Types
<1> QED
  BY <1>1, <1>2, <1>3, <1>4, ObjectFacts DEF ProgramOf

-----------------------------------------------------------------------------
(* What steps have in common *)

\* A descriptor that a step does not touch is still held.
LEMMA HeldKept ==
  ASSUME NEW f \in Fds, Held(f), fds'[f].kind = fds[f].kind,
         \A p \in Programs : progFd'[p] = f <=> progFd[p] = f,
         \A p \in Programs : FdLink(f) \in links'[p] <=> FdLink(f) \in links[p],
         FdLink(f) \in owned' <=> FdLink(f) \in owned,
         \A x : (x \in pinned' /\ x.fd = f) <=> (x \in pinned /\ x.fd = f)
  PROVE  Held(f)'
BY DEF Held, Tracked, Free

\* So is one that is closed together with its owner.
LEMMA HeldClosed ==
  ASSUME NEW f \in Fds, fds'[f] = Closed,
         \A p \in Programs : progFd'[p] # f /\ FdLink(f) \notin links'[p],
         FdLink(f) \notin owned', \A x \in pinned' : x.fd # f
  PROVE  Held(f)'
BY ObjectFacts DEF Held, Tracked, Free

\* The kernel detaches what nothing refers to.
LEMMA KernelBecomesFacts ==
  ASSUME NEW fds1, NEW pins1, NEW hook1, KernelBecomes(fds1, pins1, hook1),
         hook1 \in [Interfaces -> Attachments]
  PROVE  fds' = fds1 /\ pins' = pins1 /\ hook' \in [Interfaces -> Attachments]
BY DEF KernelBecomes, Attachments

\* Detaching the links in S and closing the descriptors in F.
LEMMA DetachFacts ==
  ASSUME Types, NEW S, NEW F, DetachAndClose(S, F)
  PROVE  /\ pins' = pins
         /\ hook' \in [Interfaces -> Attachments]
         /\ fds' \in [Fds -> Object]
         /\ \A f \in Fds : fds'[f] = IF f \in F \/ FdLink(f) \in S THEN Closed ELSE fds[f]
<1> DEFINE fds1 == [f \in Fds |-> IF f \in F \/ FdLink(f) \in S THEN Closed ELSE fds[f]]
           hook1 == [i \in Interfaces |->
                      IF \E l \in S : l.ifc = i /\ Clears(l, hook[i]) THEN Nothing ELSE hook[i]]
<1>1. KernelBecomes(fds1, pins, hook1)
  BY DEF DetachAndClose
<1>2. hook1 \in [Interfaces -> Attachments]
  BY DEF Types, Attachments
<1>3. fds1 \in [Fds -> Object]
  BY ObjectFacts DEF Types
<1> HIDE DEF hook1
<1>4. fds' = fds1 /\ pins' = pins /\ hook' \in [Interfaces -> Attachments]
  BY <1>1, <1>2, KernelBecomesFacts
<1> QED
  BY <1>3, <1>4

\* Typed parts of the state, and what they say of one link.
LEMMA StateFacts ==
  ASSUME IInv
  PROVE  /\ \A p \in Programs : \A l \in links[p] : l \in Link
         /\ \A l \in owned : l \in Link
         /\ \A x \in pinned : x.fd \in Fds /\ x.path \in Paths /\ x = [fd |-> x.fd, path |-> x.path]
         /\ \A f \in Fds : fds[f] \in Object
BY DEF IInv, Types

-----------------------------------------------------------------------------
(* Programs *)

LEMMA InitInvariant == Init => IInv
<1> SUFFICES ASSUME Init PROVE IInv
  OBVIOUS
<1>1. Types
  <2>1. klinks \in Seq(1 .. MaxLoads) /\ Len(klinks) <= MaxLinks
    BY DEF Init
  <2>2. \A f \in Fds : fds[f] = Closed
    BY DEF Init
  <2>3. fds \in [Fds -> Object]
    BY ObjectFacts DEF Init
  <2>4. hook \in [Interfaces -> Attachments]
    BY DEF Init, Attachments
  <2> QED
    BY <2>1, <2>3, <2>4 DEF Init, Types, Attachments
<1>2. \A f \in Fds : Held(f)
  BY ObjectFacts, LinkFacts DEF Init, Held, Tracked, Free
<1>3. \A p \in Programs : NetlinkRight(p)
  BY DEF Init, NetlinkRight
<1> QED
  BY <1>1, <1>2, <1>3 DEF IInv

LEMMA LoadStep ==
  ASSUME IInv, NEW p \in Programs, Load(p)
  PROVE  IInv'
<1>1. PICK g, n : g = NewFd /\ n = loaded'
  OBVIOUS
<1>2. /\ progFd[p] = 0 /\ loaded < MaxLoads /\ HasFreeFd /\ n = loaded + 1
      /\ progFd' = [progFd EXCEPT ![p] = g]
      /\ fds' = [fds EXCEPT ![g] = [kind |-> "prog", of |-> n]]
      /\ UNCHANGED <<kernel, hook, klinks, pins, links, owned, pinned>>
  BY <1>1 DEF Load
<1>3. g \in Fds /\ g # 0 /\ fds[g] = Closed /\ n \in 1 .. MaxLoads
  BY <1>1, <1>2, NewFdFacts, LinkFacts DEF IInv, Types
<1>4. /\ \A f \in Fds : fds'[f] = IF f = g THEN [kind |-> "prog", of |-> n] ELSE fds[f]
      /\ \A q \in Programs : progFd'[q] = IF q = p THEN g ELSE progFd[q]
  BY <1>2 DEF IInv, Types
<1>5. Types'
  <2>1. fds' \in [Fds -> Object] /\ progFd' \in [Programs -> 0 .. MaxFd]
    BY <1>2, <1>3, ObjectFacts DEF IInv, Types, Fds
  <2>2. loaded' \in 0 .. MaxLoads
    BY <1>1, <1>3
  <2> QED
    BY <1>2, <2>1, <2>2 DEF IInv, Types
<1>6. ASSUME NEW f \in Fds PROVE Held(f)'
  <2>1. CASE f = g
    <3>1. /\ \A q \in Programs : progFd[q] # f /\ ~Tracked(q, f)
          /\ ~Free(f) /\ \A x \in pinned : x.fd # f
      BY <1>3, <2>1, ClosedIsFree DEF IInv
    <3> QED
      BY <1>2, <1>4, <2>1, <3>1 DEF Held, Tracked, Free
  <2>2. CASE f # g
    <3>1. \A q \in Programs : progFd'[q] = f <=> progFd[q] = f
      BY <1>2, <1>4, <2>2, LinkFacts
    <3> QED
      BY <1>2, <1>4, <2>2, <3>1, HeldKept DEF IInv
  <2> QED
    BY <2>1, <2>2
<1>7. ASSUME NEW q \in Programs PROVE NetlinkRight(q)'
  <2>1. SUFFICES ASSUME NEW l \in links[q]
                 PROVE  /\ progFd'[q] # 0
                        /\ l.kind = "nl" => l.fd = progFd'[q] /\ fds'[l.fd] = [kind |-> "prog", of |-> l.of]
    BY <1>2 DEF NetlinkRight
  <2>2. progFd[q] # 0 /\ (l.kind = "nl" => l.fd = progFd[q] /\ fds[l.fd] = [kind |-> "prog", of |-> l.of])
    BY DEF IInv, NetlinkRight
  <2>3. l.fd \in Fds
    BY StateFacts, LinkFacts
  <2> QED
    BY <1>2, <1>3, <1>4, <2>2, <2>3 DEF Closed
<1> QED
  BY <1>5, <1>6, <1>7 DEF IInv

\* unload_program leaves no owner of what it closes.
LEMMA UnloadStep ==
  ASSUME IInv, NEW p \in Programs, Unload(p)
  PROVE  IInv'
<1>1. /\ progFd[p] # 0 /\ DetachAndClose(links[p], {progFd[p]})
      /\ links' = [links EXCEPT ![p] = {}] /\ progFd' = [progFd EXCEPT ![p] = 0]
      /\ UNCHANGED <<kernel, loaded, klinks, owned, pinned>>
  BY DEF Unload
<1>2. /\ pins' = pins /\ hook' \in [Interfaces -> Attachments] /\ fds' \in [Fds -> Object]
      /\ \A f \in Fds : fds'[f] = IF f \in {progFd[p]} \/ FdLink(f) \in links[p] THEN Closed ELSE fds[f]
  BY <1>1, DetachFacts DEF IInv
<1>3. /\ \A q \in Programs : links'[q] = IF q = p THEN {} ELSE links[q]
      /\ \A q \in Programs : progFd'[q] = IF q = p THEN 0 ELSE progFd[q]
  BY <1>1 DEF IInv, Types
<1>4. Types'
  <2>1. links' \in [Programs -> SUBSET Link] /\ progFd' \in [Programs -> 0 .. MaxFd]
    BY <1>1 DEF IInv, Types
  <2> QED
    BY <1>1, <1>2, <2>1 DEF IInv, Types, Attachments
<1>5. ASSUME NEW f \in Fds PROVE Held(f)'
  <2>0. Held(f) /\ f # 0
    BY LinkFacts DEF IInv
  <2>1. CASE f = progFd[p]
    <3>1. /\ fds[f].kind = "prog" /\ \A q \in Programs : progFd[q] = f => q = p
      BY <2>0, <2>1 DEF Held
    <3>2. /\ \A q \in Programs : ~Tracked(q, f)
          /\ ~Free(f) /\ \A x \in pinned : x.fd # f
      BY <2>0, <3>1 DEF Held
    <3>3. /\ \A q \in Programs : progFd'[q] # f /\ FdLink(f) \notin links'[q]
          /\ FdLink(f) \notin owned' /\ \A x \in pinned' : x.fd # f
      BY <1>1, <1>3, <2>0, <3>1, <3>2 DEF Tracked, Free
    <3> QED
      BY <1>2, <2>1, <3>3, HeldClosed
  <2>2. CASE f # progFd[p] /\ FdLink(f) \in links[p]
    <3>1. /\ fds[f].kind = "link" /\ ~Free(f) /\ \A q \in Programs : Tracked(q, f) => q = p
      BY <2>0, <2>2 DEF Held, Tracked
    <3>2. /\ \A q \in Programs : progFd[q] # f
          /\ \A x \in pinned : x.fd # f
      BY <2>0, <2>2, <3>1 DEF Held, Tracked
    <3>3. /\ \A q \in Programs : progFd'[q] # f /\ FdLink(f) \notin links'[q]
          /\ FdLink(f) \notin owned' /\ \A x \in pinned' : x.fd # f
      BY <1>1, <1>3, <2>0, <3>1, <3>2 DEF Tracked, Free
    <3> QED
      BY <1>2, <2>2, <3>3, HeldClosed
  <2>3. CASE f # progFd[p] /\ FdLink(f) \notin links[p]
    <3>1. /\ \A q \in Programs : progFd'[q] = f <=> progFd[q] = f
          /\ \A q \in Programs : FdLink(f) \in links'[q] <=> FdLink(f) \in links[q]
          /\ fds'[f] = fds[f]
      BY <1>2, <1>3, <2>0, <2>3
    <3> QED
      BY <1>1, <2>0, <3>1, HeldKept
  <2> QED
    BY <2>1, <2>2, <2>3
<1>6. ASSUME NEW q \in Programs PROVE NetlinkRight(q)'
  <2>1. CASE q = p
    BY <1>3, <2>1 DEF NetlinkRight
  <2>2. CASE q # p
    <3>1. SUFFICES ASSUME NEW l \in links[q]
                   PROVE  /\ progFd[q] # 0
                          /\ l.kind = "nl" => l.fd = progFd[q] /\ fds'[l.fd] = [kind |-> "prog", of |-> l.of]
      BY <1>3, <2>2 DEF NetlinkRight
    <3>2. progFd[q] # 0 /\ (l.kind = "nl" => l.fd = progFd[q] /\ fds[l.fd] = [kind |-> "prog", of |-> l.of])
      BY DEF IInv, NetlinkRight
    <3>3. ASSUME l.kind = "nl" PROVE fds'[l.fd] = fds[l.fd]
      <4>1. PICK f \in Fds : f = l.fd
        BY StateFacts, LinkFacts
      <4>2. fds[f].kind = "prog" /\ progFd[q] = f /\ Held(f)
        BY <3>2, <3>3, <4>1 DEF IInv
      <4>3. progFd[p] # f /\ ~Tracked(p, f)
        BY <2>2, <4>2 DEF Held
      <4> QED
        BY <1>2, <4>1, <4>3 DEF Tracked
    <3> QED
      BY <3>2, <3>3
  <2> QED
    BY <2>1, <2>2
<1> QED
  BY <1>4, <1>5, <1>6 DEF IInv

-----------------------------------------------------------------------------
(* Links that are detached *)

\* One link is detached, and nothing owns it afterwards.
LEMMA DetachOne ==
  ASSUME IInv, NEW l \in Link, DetachAndClose({l}, {}),
         UNCHANGED <<kernel, loaded, klinks, progFd>>,
         links' \in [Programs -> SUBSET Link], owned' \subseteq owned, pinned' \subseteq pinned,
         \A q \in Programs : links'[q] \subseteq links[q],
         l.kind = "fd" => /\ fds[l.fd].kind = "link" /\ FdLink(l.fd) \notin owned'
                          /\ \A q \in Programs : FdLink(l.fd) \notin links'[q]
                          /\ \A x \in pinned' : x.fd # l.fd,
         \A f \in Fds : FdLink(f) # l =>
            /\ \A q \in Programs : FdLink(f) \in links[q] => FdLink(f) \in links'[q]
            /\ FdLink(f) \in owned => FdLink(f) \in owned'
            /\ \A x \in pinned : x.fd = f => x \in pinned'
  PROVE  IInv'
<1>1. /\ pins' = pins /\ hook' \in [Interfaces -> Attachments] /\ fds' \in [Fds -> Object]
      /\ \A f \in Fds : fds'[f] = IF f \in {} \/ FdLink(f) \in {l} THEN Closed ELSE fds[f]
  BY DetachFacts DEF IInv
<1>2. \A f \in Fds : fds'[f] = IF FdLink(f) = l THEN Closed ELSE fds[f]
  BY <1>1
<1>3. Types'
  BY <1>1 DEF IInv, Types, Attachments
<1>4. ASSUME NEW f \in Fds PROVE Held(f)'
  <2>0. Held(f)
    BY DEF IInv
  <2>1. CASE FdLink(f) = l
    <3>1. l.kind = "fd" /\ l.fd = f
      BY <2>1, LinkFacts
    <3>2. /\ fds[f].kind = "link" /\ FdLink(f) \notin owned'
          /\ \A q \in Programs : FdLink(f) \notin links'[q]
          /\ \A x \in pinned' : x.fd # f
      BY <3>1
    <3>3. \A q \in Programs : progFd'[q] # f
      BY <2>0, <3>2 DEF Held
    <3> QED
      BY <1>2, <2>1, <3>2, <3>3, HeldClosed
  <2>2. CASE FdLink(f) # l
    <3>1. /\ fds'[f] = fds[f]
          /\ \A q \in Programs : progFd'[q] = f <=> progFd[q] = f
          /\ \A q \in Programs : FdLink(f) \in links'[q] <=> FdLink(f) \in links[q]
          /\ FdLink(f) \in owned' <=> FdLink(f) \in owned
          /\ \A x : (x \in pinned' /\ x.fd = f) <=> (x \in pinned /\ x.fd = f)
      BY <1>2, <2>2
    <3> QED
      BY <2>0, <3>1, HeldKept
  <2> QED
    BY <2>1, <2>2
<1>5. ASSUME NEW q \in Programs, NEW m \in links'[q]
      PROVE  /\ progFd'[q] # 0
             /\ m.kind = "nl" => m.fd = progFd'[q] /\ fds'[m.fd] = [kind |-> "prog", of |-> m.of]
  <2>1. /\ progFd[q] # 0 /\ m \in Link
        /\ m.kind = "nl" => m.fd = progFd[q] /\ fds[m.fd] = [kind |-> "prog", of |-> m.of]
    BY StateFacts DEF IInv, NetlinkRight
  <2>2. ASSUME m.kind = "nl" PROVE fds'[m.fd] = fds[m.fd]
    <3>1. PICK f \in Fds : f = m.fd
      BY <2>1, LinkFacts
    <3>2. fds[f].kind = "prog"
      BY <2>1, <2>2, <3>1
    <3>3. FdLink(f) # l
      BY <3>2, LinkFacts
    <3> QED
      BY <1>2, <3>1, <3>3
  <2> QED
    BY <2>1, <2>2
<1>6. \A q \in Programs : NetlinkRight(q)'
  BY <1>5 DEF NetlinkRight
<1> QED
  BY <1>3, <1>4, <1>6 DEF IInv

LEMMA DetachStep ==
  ASSUME IInv, NEW p \in Programs, NEW l \in links[p], Detach(p, l)
  PROVE  IInv'
<1>1. /\ links' = [links EXCEPT ![p] = links[p] \ {l}] /\ DetachAndClose({l}, {})
      /\ UNCHANGED <<kernel, loaded, klinks, progFd, owned, pinned>>
  BY DEF Detach
<1>2. l \in Link /\ links' \in [Programs -> SUBSET Link]
      /\ \A q \in Programs : links'[q] = IF q = p THEN links[p] \ {l} ELSE links[q]
  BY <1>1, StateFacts DEF IInv, Types
<1>3. ASSUME l.kind = "fd"
      PROVE  /\ fds[l.fd].kind = "link" /\ FdLink(l.fd) \notin owned'
             /\ \A q \in Programs : FdLink(l.fd) \notin links'[q]
             /\ \A x \in pinned' : x.fd # l.fd
  <2>1. PICK f \in Fds : f = l.fd /\ l = FdLink(f)
    BY <1>2, <1>3, LinkFacts
  <2>2. Held(f) /\ Tracked(p, f)
    BY <2>1 DEF IInv, Tracked
  <2>3. /\ fds[f].kind = "link" /\ ~Free(f) /\ \A q \in Programs : Tracked(q, f) => q = p
        /\ \A x \in pinned : x.fd # f
    BY <2>2 DEF Held
  <2> QED
    BY <1>1, <1>2, <2>1, <2>3 DEF Tracked, Free
<1>4. \A q \in Programs : links'[q] \subseteq links[q]
  BY <1>2
<1>5. \A f \in Fds : FdLink(f) # l =>
            /\ \A q \in Programs : FdLink(f) \in links[q] => FdLink(f) \in links'[q]
            /\ FdLink(f) \in owned => FdLink(f) \in owned'
            /\ \A x \in pinned : x.fd = f => x \in pinned'
  BY <1>1, <1>2
<1>6. owned' \subseteq owned /\ pinned' \subseteq pinned
  BY <1>1
<1> QED
  BY <1>1, <1>2, <1>3, <1>4, <1>5, <1>6, DetachOne

\* A link of the application that is detached: dropped, or consumed by attach_to_link.
LEMMA OwnedDetached ==
  ASSUME IInv, NEW l \in owned, DetachAndClose({l}, {}), owned' = owned \ {l},
         UNCHANGED <<kernel, loaded, klinks, progFd, links, pinned>>
  PROVE  IInv'
<1>1. l \in Link /\ links' \in [Programs -> SUBSET Link]
  BY StateFacts DEF IInv, Types
<1>2. ASSUME l.kind = "fd"
      PROVE  /\ fds[l.fd].kind = "link" /\ FdLink(l.fd) \notin owned'
             /\ \A q \in Programs : FdLink(l.fd) \notin links'[q]
             /\ \A x \in pinned' : x.fd # l.fd
  <2>1. PICK f \in Fds : f = l.fd /\ l = FdLink(f)
    BY <1>1, <1>2, LinkFacts
  <2>2. Held(f) /\ Free(f)
    BY <2>1 DEF IInv, Free
  <2>3. /\ fds[f].kind = "link" /\ \A q \in Programs : ~Tracked(q, f)
        /\ \A x \in pinned : x.fd # f
    BY <2>2 DEF Held
  <2> QED
    BY <2>1, <2>3 DEF Tracked
<1>3. \A f \in Fds : FdLink(f) # l =>
            /\ \A q \in Programs : FdLink(f) \in links[q] => FdLink(f) \in links'[q]
            /\ FdLink(f) \in owned => FdLink(f) \in owned'
            /\ \A x \in pinned : x.fd = f => x \in pinned'
  OBVIOUS
<1>4. owned' \subseteq owned /\ pinned' \subseteq pinned /\ \A q \in Programs : links'[q] \subseteq links[q]
  OBVIOUS
<1> QED
  BY <1>1, <1>2, <1>3, <1>4, DetachOne

LEMMA DropPinnedStep ==
  ASSUME IInv, NEW x \in pinned, DropPinned(x)
  PROVE  IInv'
<1>1. /\ DetachAndClose({FdLink(x.fd)}, {}) /\ pinned' = pinned \ {x}
      /\ UNCHANGED <<kernel, loaded, klinks, progFd, links, owned>>
  BY DEF DropPinned
<1>2. PICK f \in Fds, l \in Link : f = x.fd /\ l = FdLink(f)
  BY StateFacts, LinkFacts
<1>3. l.kind = "fd" /\ l.fd = f /\ links' \in [Programs -> SUBSET Link]
  BY <1>1, <1>2, LinkFacts DEF IInv, Types
<1>4. Held(f)
  BY DEF IInv
<1>5. /\ fds[f].kind = "link" /\ ~Free(f) /\ \A p \in Programs : ~Tracked(p, f)
      /\ \A y \in pinned : y.fd = f => y = x
  BY <1>2, <1>4 DEF Held
<1>6. /\ fds[l.fd].kind = "link" /\ FdLink(l.fd) \notin owned'
      /\ \A q \in Programs : FdLink(l.fd) \notin links'[q]
      /\ \A y \in pinned' : y.fd # l.fd
  BY <1>1, <1>3, <1>5 DEF Tracked, Free
<1>7. \A g \in Fds : FdLink(g) # l =>
            /\ \A q \in Programs : FdLink(g) \in links[q] => FdLink(g) \in links'[q]
            /\ FdLink(g) \in owned => FdLink(g) \in owned'
            /\ \A y \in pinned : y.fd = g => y \in pinned'
  BY <1>1, <1>2
<1>8. owned' \subseteq owned /\ pinned' \subseteq pinned /\ \A q \in Programs : links'[q] \subseteq links[q]
  BY <1>1
<1>9. DetachAndClose({l}, {})
  BY <1>1, <1>2
<1> QED
  BY <1>1, <1>3, <1>6, <1>7, <1>8, <1>9, DetachOne

-----------------------------------------------------------------------------
(* Links that are attached, handed over or replaced *)

\* Descriptors may change hands, but none is opened or closed.
LEMMA SameFds ==
  ASSUME IInv, Types', UNCHANGED <<fds, progFd>>, \A f \in Fds : Held(f)',
         \A q \in Programs : \A m \in links'[q] :
           \/ m \in links[q]
           \/ /\ progFd[q] # 0
              /\ m.kind = "nl" => m.fd = progFd[q] /\ fds[m.fd] = [kind |-> "prog", of |-> m.of]
  PROVE  IInv'
BY DEF IInv, NetlinkRight

LEMMA TakeLinkStep ==
  ASSUME IInv, NEW p \in Programs, NEW l \in links[p], TakeLink(p, l)
  PROVE  IInv'
<1>1. /\ links' = [links EXCEPT ![p] = links[p] \ {l}] /\ owned' = owned \union {l}
      /\ UNCHANGED <<kernel, loaded, hook, klinks, pins, fds, progFd, pinned>>
  BY DEF TakeLink, kernelVars
<1>2. /\ l \in Link /\ links' \in [Programs -> SUBSET Link]
      /\ \A q \in Programs : links'[q] = IF q = p THEN links[p] \ {l} ELSE links[q]
  BY <1>1, StateFacts DEF IInv, Types
<1>3. Types'
  BY <1>1, <1>2 DEF IInv, Types
<1>4. ASSUME NEW f \in Fds PROVE Held(f)'
  <2>0. Held(f)
    BY DEF IInv
  <2>1. CASE FdLink(f) = l
    <3>1. Tracked(p, f)
      BY <2>1 DEF Tracked
    <3>2. /\ fds[f].kind = "link" /\ \A q \in Programs : Tracked(q, f) => q = p
          /\ \A x \in pinned : x.fd # f
          /\ \A q \in Programs : progFd[q] # f
      BY <2>0, <3>1 DEF Held
    <3>3. FdLink(f) \in owned' /\ \A q \in Programs : FdLink(f) \notin links'[q]
      BY <1>1, <1>2, <2>1, <3>2 DEF Tracked
    <3> QED
      BY <1>1, <3>2, <3>3 DEF Held, Tracked, Free
  <2>2. CASE FdLink(f) # l
    <3>1. /\ \A q \in Programs : FdLink(f) \in links'[q] <=> FdLink(f) \in links[q]
          /\ FdLink(f) \in owned' <=> FdLink(f) \in owned
      BY <1>1, <1>2, <2>2
    <3> QED
      BY <1>1, <2>0, <3>1, HeldKept
  <2> QED
    BY <2>1, <2>2
<1>5. \A q \in Programs : \A m \in links'[q] : m \in links[q]
  BY <1>2
<1> QED
  BY <1>1, <1>3, <1>4, <1>5, SameFds

\* bpf_link_create: a new kernel link, a new descriptor, and the link that owns it.
LEMMA AttachLinkStep ==
  ASSUME IInv, NEW p \in Programs, NEW i \in Interfaces, AttachLink(p, i)
  PROVE  IInv'
<1>1. PICK g, n : g = NewFd /\ n = Len(klinks')
  OBVIOUS
<1>2. /\ progFd[p] # 0 /\ HasFreeFd /\ Len(klinks) < MaxLinks
      /\ klinks' = Append(klinks, ProgramOf(p))
      /\ hook' = [hook EXCEPT ![i] = [by |-> "link", of |-> n]]
      /\ fds' = [fds EXCEPT ![g] = [kind |-> "link", of |-> n]]
      /\ links' = [links EXCEPT ![p] = links[p] \union {FdLink(g)}]
      /\ UNCHANGED <<kernel, loaded, pins, progFd, owned, pinned>>
  BY <1>1 DEF AttachLink
<1>3. /\ klinks \in Seq(1 .. MaxLoads) /\ ProgramOf(p) \in 1 .. MaxLoads
      /\ Len(klinks) \in Nat
  BY <1>2, ProgramFdFacts, LenProperties DEF IInv, Types
<1>4. klinks' \in Seq(1 .. MaxLoads) /\ Len(klinks') = Len(klinks) + 1
  BY <1>2, <1>3, AppendProperties
<1>5. n \in 1 .. MaxLinks /\ g \in Fds /\ fds[g] = Closed
  BY <1>1, <1>2, <1>3, <1>4, NewFdFacts
<1>6. /\ \A f \in Fds : fds'[f] = IF f = g THEN [kind |-> "link", of |-> n] ELSE fds[f]
      /\ \A q \in Programs : links'[q] = IF q = p THEN links[p] \union {FdLink(g)} ELSE links[q]
  BY <1>2 DEF IInv, Types
<1>7. Types'
  <2>1. fds' \in [Fds -> Object]
    BY <1>2, <1>5, ObjectFacts DEF IInv, Types
  <2>2. links' \in [Programs -> SUBSET Link]
    BY <1>2, <1>5, LinkFacts DEF IInv, Types
  <2>3. hook' \in [Interfaces -> Attachments]
    <3>1. [by |-> "link", of |-> n] \in Attachments
      BY <1>5 DEF Attachments
    <3> QED
      BY <1>2, <3>1 DEF IInv, Types, Attachments
  <2>4. Len(klinks') <= MaxLinks
    BY <1>2, <1>3, <1>4
  <2> QED
    BY <1>2, <1>4, <2>1, <2>2, <2>3, <2>4 DEF IInv, Types, Attachments
<1>8. ASSUME NEW f \in Fds PROVE Held(f)'
  <2>0. Held(f)
    BY DEF IInv
  <2>1. CASE f = g
    <3>1. /\ \A q \in Programs : progFd[q] # f /\ ~Tracked(q, f)
          /\ ~Free(f) /\ \A x \in pinned : x.fd # f
      BY <1>5, <2>0, <2>1, ClosedIsFree
    <3> QED
      BY <1>2, <1>6, <2>1, <3>1 DEF Held, Tracked, Free
  <2>2. CASE f # g
    <3>1. FdLink(f) # FdLink(g)
      BY <1>5, <2>2, LinkFacts
    <3>2. \A q \in Programs : FdLink(f) \in links'[q] <=> FdLink(f) \in links[q]
      BY <1>6, <3>1
    <3> QED
      BY <1>2, <1>6, <2>0, <2>2, <3>2, HeldKept
  <2> QED
    BY <2>1, <2>2
<1>9. ASSUME NEW q \in Programs, NEW m \in links'[q]
      PROVE  /\ progFd'[q] # 0
             /\ m.kind = "nl" => m.fd = progFd'[q] /\ fds'[m.fd] = [kind |-> "prog", of |-> m.of]
  <2>1. CASE m \in links[q]
    <3>1. progFd[q] # 0 /\ (m.kind = "nl" => m.fd = progFd[q] /\ fds[m.fd] = [kind |-> "prog", of |-> m.of])
      BY <2>1 DEF IInv, NetlinkRight
    <3>2. m.fd \in Fds
      BY <2>1, StateFacts, LinkFacts
    <3> QED
      BY <1>2, <1>5, <1>6, <3>1, <3>2 DEF Closed
  <2>2. CASE m = FdLink(g) /\ q = p
    BY <1>2, <2>2, LinkFacts
  <2> QED
    BY <1>6, <2>1, <2>2
<1>10. \A q \in Programs : NetlinkRight(q)'
  BY <1>9 DEF NetlinkRight
<1> QED
  BY <1>7, <1>8, <1>10 DEF IInv

\* The netlink link that a program tracks is for its own descriptor.
LEMMA NetlinkMade ==
  ASSUME IInv, NEW p \in Programs, progFd[p] # 0, NEW i \in Interfaces
  PROVE  LET l == NlLink(i, progFd[p], ProgramOf(p)) IN
           /\ l \in Link /\ l.kind = "nl" /\ l.fd = progFd[p]
           /\ l.of \in 1 .. MaxLoads /\ l.of = ProgramOf(p)
           /\ fds[l.fd] = [kind |-> "prog", of |-> l.of]
           /\ \A f : FdLink(f) # l
<1>1. PICK g, n : g = progFd[p] /\ n = ProgramOf(p)
  OBVIOUS
<1>2. g \in Fds /\ n \in 1 .. MaxLoads /\ fds[g] = [kind |-> "prog", of |-> n]
  BY <1>1, ProgramFdFacts
<1> QED
  BY <1>1, <1>2, LinkFacts

LEMMA AttachNetlinkStep ==
  ASSUME IInv, NEW p \in Programs, NEW i \in Interfaces, AttachNetlink(p, i)
  PROVE  IInv'
<1>1. PICK l : l = NlLink(i, progFd[p], ProgramOf(p))
  OBVIOUS
<1>2. /\ progFd[p] # 0
      /\ hook' = [hook EXCEPT ![i] = [by |-> "netlink", of |-> l.of]]
      /\ links' = [links EXCEPT ![p] = links[p] \union {l}]
      /\ UNCHANGED <<kernel, loaded, klinks, pins, fds, progFd, owned, pinned>>
  BY <1>1 DEF AttachNetlink
<1>3. /\ l \in Link /\ l.kind = "nl" /\ l.fd = progFd[p] /\ l.of \in 1 .. MaxLoads
      /\ fds[l.fd] = [kind |-> "prog", of |-> l.of] /\ \A f : FdLink(f) # l
  BY <1>1, <1>2, NetlinkMade
<1>4. \A q \in Programs : links'[q] = IF q = p THEN links[p] \union {l} ELSE links[q]
  BY <1>2 DEF IInv, Types
<1>5. Types'
  <2>1. links' \in [Programs -> SUBSET Link]
    BY <1>2, <1>3 DEF IInv, Types
  <2>2. hook' \in [Interfaces -> Attachments]
    <3>1. [by |-> "netlink", of |-> l.of] \in Attachments
      BY <1>3 DEF Attachments
    <3> QED
      BY <1>2, <3>1 DEF IInv, Types, Attachments
  <2> QED
    BY <1>2, <2>1, <2>2 DEF IInv, Types, Attachments
<1>6. ASSUME NEW f \in Fds PROVE Held(f)'
  <2>1. Held(f) /\ \A q \in Programs : FdLink(f) \in links'[q] <=> FdLink(f) \in links[q]
    BY <1>3, <1>4 DEF IInv
  <2> QED
    BY <1>2, <2>1, HeldKept
<1>7. \A q \in Programs : \A m \in links'[q] : m \in links[q] \/ (m = l /\ q = p)
  BY <1>4
<1> QED
  BY <1>2, <1>3, <1>5, <1>6, <1>7, SameFds

\* A link of the application becomes one that p tracks.
LEMMA ReplaceFdStep ==
  ASSUME IInv, NEW p \in Programs, NEW l \in owned, ReplaceFd(p, l)
  PROVE  IInv'
<1>1. /\ l.kind = "fd" /\ progFd[p] # 0
      /\ klinks' = [klinks EXCEPT ![fds[l.fd].of] = ProgramOf(p)]
      /\ links' = [links EXCEPT ![p] = links[p] \union {l}]
      /\ owned' = owned \ {l}
      /\ UNCHANGED <<kernel, loaded, hook, pins, fds, progFd, pinned>>
  BY DEF ReplaceFd
<1>2. l \in Link /\ l = FdLink(l.fd) /\ l.fd \in Fds
  BY <1>1, StateFacts, LinkFacts
<1>3. \A q \in Programs : links'[q] = IF q = p THEN links[p] \union {l} ELSE links[q]
  BY <1>1 DEF IInv, Types
<1>4. Types'
  <2>1. links' \in [Programs -> SUBSET Link]
    BY <1>1, <1>2 DEF IInv, Types
  <2>2. klinks' \in Seq(1 .. MaxLoads) /\ Len(klinks') <= MaxLinks
    <3>1. klinks \in Seq(1 .. MaxLoads) /\ Len(klinks) <= MaxLinks /\ ProgramOf(p) \in 1 .. MaxLoads
      BY <1>1, ProgramFdFacts DEF IInv, Types
    <3>2. PICK k, n : k = fds[l.fd].of /\ n = ProgramOf(p)
      OBVIOUS
    <3>3. klinks' = [klinks EXCEPT ![k] = n] /\ n \in 1 .. MaxLoads
      BY <1>1, <3>1, <3>2
    <3>4. klinks \in [1 .. Len(klinks) -> 1 .. MaxLoads] /\ Len(klinks) \in Nat
      BY <3>1, LenProperties
    <3>5. klinks' \in [1 .. Len(klinks) -> 1 .. MaxLoads]
      BY <3>3, <3>4
    <3>6. klinks' \in Seq(1 .. MaxLoads)
      BY <3>4, <3>5, SeqDef
    <3>7. Len(klinks') \in Nat /\ 1 .. Len(klinks') = 1 .. Len(klinks)
      BY <3>5, <3>6, LenProperties
    <3> QED
      BY <3>1, <3>4, <3>6, <3>7
  <2> QED
    BY <1>1, <2>1, <2>2 DEF IInv, Types
<1>5. ASSUME NEW f \in Fds PROVE Held(f)'
  <2>0. Held(f)
    BY DEF IInv
  <2>1. CASE FdLink(f) = l
    <3>1. Free(f)
      BY <2>1 DEF Free
    <3>2. /\ fds[f].kind = "link" /\ \A q \in Programs : ~Tracked(q, f)
          /\ \A x \in pinned : x.fd # f
          /\ \A q \in Programs : progFd[q] # f
      BY <2>0, <3>1 DEF Held
    <3>3. FdLink(f) \notin owned' /\ \A q \in Programs : FdLink(f) \in links'[q] <=> q = p
      BY <1>1, <1>3, <2>1, <3>2 DEF Tracked
    <3> QED
      BY <1>1, <3>2, <3>3 DEF Held, Tracked, Free
  <2>2. CASE FdLink(f) # l
    <3>1. /\ \A q \in Programs : FdLink(f) \in links'[q] <=> FdLink(f) \in links[q]
          /\ FdLink(f) \in owned' <=> FdLink(f) \in owned
      BY <1>1, <1>3, <2>2
    <3> QED
      BY <1>1, <2>0, <3>1, HeldKept
  <2> QED
    BY <2>1, <2>2
<1>6. \A q \in Programs : \A m \in links'[q] :
         m \in links[q] \/ (progFd[q] # 0 /\ m.kind # "nl")
  BY <1>1, <1>3
<1> QED
  BY <1>1, <1>4, <1>5, <1>6, SameFds

\* No descriptor is concerned, whether the new link is kept or refused.
LEMMA ReplaceNetlinkStep ==
  ASSUME IInv, NEW p \in Programs, NEW l \in owned, ReplaceNetlink(p, l)
  PROVE  IInv'
<1>0. l.kind = "nl" /\ l.ifc \in Interfaces /\ \A f : FdLink(f) # l
  BY StateFacts, LinkFacts DEF ReplaceNetlink
<1>1. PICK m : m = NlLink(l.ifc, progFd[p], ProgramOf(p))
  OBVIOUS
<1>2. /\ progFd[p] # 0 /\ owned' = owned \ {l}
      /\ \/ hook' = [hook EXCEPT ![l.ifc] = Nothing] /\ links' = links
         \/ /\ hook' = [hook EXCEPT ![l.ifc] = [by |-> "netlink", of |-> m.of]]
            /\ links' = [links EXCEPT ![p] = links[p] \union {m}]
      /\ UNCHANGED <<kernel, loaded, klinks, pins, fds, progFd, pinned>>
  BY <1>1 DEF ReplaceNetlink
<1>3. /\ m \in Link /\ m.kind = "nl" /\ m.fd = progFd[p] /\ m.of \in 1 .. MaxLoads
      /\ fds[m.fd] = [kind |-> "prog", of |-> m.of] /\ \A f : FdLink(f) # m
  BY <1>0, <1>1, <1>2, NetlinkMade
<1>4. \A q \in Programs : links'[q] = links[q] \/ (q = p /\ links'[q] = links[q] \union {m})
  BY <1>2 DEF IInv, Types
<1>5. Types'
  <2>1. links' \in [Programs -> SUBSET Link]
    <3>1. links \in [Programs -> SUBSET Link]
      BY DEF IInv, Types
    <3>2. CASE links' = links
      BY <3>1, <3>2
    <3>3. CASE links' = [links EXCEPT ![p] = links[p] \union {m}]
      BY <1>3, <3>1, <3>3
    <3> QED
      BY <1>2, <3>2, <3>3
  <2>2. hook' \in [Interfaces -> Attachments]
    <3>1. [by |-> "netlink", of |-> m.of] \in Attachments /\ Nothing \in Attachments
      BY <1>3 DEF Attachments
    <3> QED
      BY <1>2, <3>1 DEF IInv, Types, Attachments
  <2> QED
    BY <1>2, <2>1, <2>2 DEF IInv, Types, Attachments
<1>6. ASSUME NEW f \in Fds PROVE Held(f)'
  <2>1. Held(f) /\ \A q \in Programs : FdLink(f) \in links'[q] <=> FdLink(f) \in links[q]
    BY <1>3, <1>4 DEF IInv
  <2>2. FdLink(f) \in owned' <=> FdLink(f) \in owned
    BY <1>0, <1>2
  <2> QED
    BY <1>2, <2>1, <2>2, HeldKept
<1>7. \A q \in Programs : \A k \in links'[q] : k \in links[q] \/ (k = m /\ q = p)
  BY <1>4
<1> QED
  BY <1>2, <1>3, <1>5, <1>6, <1>7, SameFds

LEMMA ReplaceNetlinkRefusedStep ==
  ASSUME IInv, NEW p \in Programs, NEW l \in owned, ReplaceNetlinkRefused(p, l)
  PROVE  IInv'
<1>1. /\ owned' = owned \ {l}
      /\ UNCHANGED <<kernel, loaded, hook, klinks, pins, fds, progFd, links, pinned>>
  BY DEF ReplaceNetlinkRefused, kernelVars
<1>2. \A f : FdLink(f) # l
  BY LinkFacts DEF ReplaceNetlinkRefused
<1>3. Types'
  BY <1>1 DEF IInv, Types
<1>4. ASSUME NEW f \in Fds PROVE Held(f)'
  <2>1. Held(f) /\ (FdLink(f) \in owned' <=> FdLink(f) \in owned)
    BY <1>1, <1>2 DEF IInv
  <2> QED
    BY <1>1, <2>1, HeldKept
<1> QED
  BY <1>1, <1>3, <1>4, SameFds

-----------------------------------------------------------------------------
(* Links that are pinned *)

LEMMA PinStep ==
  ASSUME IInv, NEW l \in owned, NEW path \in Paths, Pin(l, path)
  PROVE  IInv'
<1>1. PICK g, x : g = l.fd /\ x = [fd |-> g, path |-> path]
  OBVIOUS
<1>2. /\ l.kind = "fd"
      /\ pins' = [pins EXCEPT ![path] = fds[g].of]
      /\ owned' = owned \ {l} /\ pinned' = pinned \union {x}
      /\ UNCHANGED <<kernel, loaded, hook, klinks, fds, progFd, links>>
  BY <1>1 DEF Pin
<1>3. l = FdLink(g) /\ g \in Fds /\ x.fd = g
  BY <1>1, <1>2, StateFacts, LinkFacts
<1>4. /\ fds[g].kind = "link" /\ \A q \in Programs : ~Tracked(q, g)
      /\ \A y \in pinned : y.fd # g
      /\ \A q \in Programs : progFd[q] # g
  <2>1. Held(g) /\ Free(g)
    BY <1>3 DEF IInv, Free
  <2> QED
    BY <2>1 DEF Held
<1>5. Types'
  <2>1. fds[g].of \in 1 .. MaxLinks
    BY <1>3, <1>4, StateFacts, ObjectFacts
  <2>2. pins' \in [Paths -> 0 .. MaxLinks]
    BY <1>2, <2>1 DEF IInv, Types
  <2> QED
    BY <1>1, <1>2, <1>3, <2>2 DEF IInv, Types
<1>6. ASSUME NEW f \in Fds PROVE Held(f)'
  <2>0. Held(f)
    BY DEF IInv
  <2>1. CASE f = g
    <3>1. FdLink(f) \notin owned' /\ \A y \in pinned' : y.fd = f <=> y = x
      BY <1>2, <1>3, <1>4, <2>1
    <3>2. x \in pinned'
      BY <1>2
    <3> QED
      BY <1>2, <1>3, <1>4, <2>1, <3>1, <3>2 DEF Held, Tracked, Free
  <2>2. CASE f # g
    <3>1. FdLink(f) # l
      BY <1>3, <2>2, LinkFacts
    <3>2. /\ FdLink(f) \in owned' <=> FdLink(f) \in owned
          /\ \A y : (y \in pinned' /\ y.fd = f) <=> (y \in pinned /\ y.fd = f)
      BY <1>2, <1>3, <2>2, <3>1
    <3> QED
      BY <1>2, <2>0, <3>2, HeldKept
  <2> QED
    BY <2>1, <2>2
<1> QED
  BY <1>2, <1>5, <1>6, SameFds

\* bpf_obj_get: a second descriptor for the kernel link that is pinned.
LEMMA FromPinStep ==
  ASSUME IInv, NEW path \in Paths, FromPin(path)
  PROVE  IInv'
<1>1. PICK g, n, x : g = NewFd /\ n = pins[path] /\ x = [fd |-> g, path |-> path]
  OBVIOUS
<1>2. /\ n # 0 /\ HasFreeFd
      /\ fds' = [fds EXCEPT ![g] = [kind |-> "link", of |-> n]]
      /\ pinned' = pinned \union {x}
      /\ UNCHANGED <<kernel, loaded, hook, klinks, pins, progFd, links, owned>>
  BY <1>1 DEF FromPin
<1>3. n \in 1 .. MaxLinks /\ g \in Fds /\ fds[g] = Closed /\ x.fd = g
  BY <1>1, <1>2, NewFdFacts DEF IInv, Types
<1>4. \A f \in Fds : fds'[f] = IF f = g THEN [kind |-> "link", of |-> n] ELSE fds[f]
  BY <1>2 DEF IInv, Types
<1>5. Types'
  <2>1. fds' \in [Fds -> Object]
    BY <1>2, <1>3, ObjectFacts DEF IInv, Types
  <2> QED
    BY <1>1, <1>2, <1>3, <2>1 DEF IInv, Types
<1>6. ASSUME NEW f \in Fds PROVE Held(f)'
  <2>0. Held(f)
    BY DEF IInv
  <2>1. CASE f = g
    <3>1. /\ \A q \in Programs : progFd[q] # f /\ ~Tracked(q, f)
          /\ ~Free(f) /\ \A y \in pinned : y.fd # f
      BY <1>3, <2>0, <2>1, ClosedIsFree
    <3>2. x \in pinned' /\ \A y \in pinned' : y.fd = f <=> y = x
      BY <1>2, <1>3, <2>1, <3>1
    <3> QED
      BY <1>2, <1>3, <1>4, <2>1, <3>1, <3>2 DEF Held, Tracked, Free
  <2>2. CASE f # g
    <3>1. \A y : (y \in pinned' /\ y.fd = f) <=> (y \in pinned /\ y.fd = f)
      BY <1>2, <1>3, <2>2
    <3> QED
      BY <1>2, <1>4, <2>0, <2>2, <3>1, HeldKept
  <2> QED
    BY <2>1, <2>2
<1>7. ASSUME NEW q \in Programs, NEW m \in links'[q]
      PROVE  /\ progFd'[q] # 0
             /\ m.kind = "nl" => m.fd = progFd'[q] /\ fds'[m.fd] = [kind |-> "prog", of |-> m.of]
  <2>1. progFd[q] # 0 /\ (m.kind = "nl" => m.fd = progFd[q] /\ fds[m.fd] = [kind |-> "prog", of |-> m.of])
    BY <1>2 DEF IInv, NetlinkRight
  <2>2. m.fd \in Fds
    BY <1>2, StateFacts, LinkFacts
  <2> QED
    BY <1>2, <1>3, <1>4, <2>1, <2>2 DEF Closed
<1>8. \A q \in Programs : NetlinkRight(q)'
  BY <1>7 DEF NetlinkRight
<1> QED
  BY <1>5, <1>6, <1>8 DEF IInv

\* A pinned link becomes a link of the application again, with or without its file.
LEMMA PinnedMoves ==
  ASSUME IInv, NEW x \in pinned, UNCHANGED <<fds, progFd, links>>, Types',
         pinned' = pinned \ {x}, owned' = owned \union {FdLink(x.fd)}
  PROVE  IInv'
<1>1. PICK g \in Fds : g = x.fd
  BY StateFacts
<1>2. /\ fds[g].kind = "link" /\ \A q \in Programs : ~Tracked(q, g)
      /\ \A y \in pinned : y.fd = g => y = x
      /\ \A q \in Programs : progFd[q] # g
  <2>1. Held(g)
    BY DEF IInv
  <2> QED
    BY <1>1, <2>1 DEF Held
<1>3. ASSUME NEW f \in Fds PROVE Held(f)'
  <2>0. Held(f)
    BY DEF IInv
  <2>1. CASE f = g
    <3>1. FdLink(f) \in owned' /\ \A y \in pinned' : y.fd # f
      BY <1>1, <1>2, <2>1
    <3> QED
      BY <1>2, <2>1, <3>1 DEF Held, Tracked, Free
  <2>2. CASE f # g
    <3>1. FdLink(f) # FdLink(g)
      BY <2>2, LinkFacts
    <3>2. /\ FdLink(f) \in owned' <=> FdLink(f) \in owned
          /\ \A y : (y \in pinned' /\ y.fd = f) <=> (y \in pinned /\ y.fd = f)
      BY <1>1, <2>2, <3>1
    <3> QED
      BY <2>0, <3>2, HeldKept
  <2> QED
    BY <2>1, <2>2
<1> QED
  BY <1>3, SameFds

LEMMA UnpinStep ==
  ASSUME IInv, NEW x \in pinned, Unpin(x)
  PROVE  IInv'
<1>1. /\ KernelBecomes(fds, [pins EXCEPT ![x.path] = 0], hook)
      /\ pinned' = pinned \ {x} /\ owned' = owned \union {FdLink(x.fd)}
      /\ UNCHANGED <<kernel, loaded, klinks, progFd, links>>
  BY DEF Unpin
<1>2. hook \in [Interfaces -> Attachments]
  BY DEF IInv, Types, Attachments
<1>3. /\ fds' = fds /\ pins' = [pins EXCEPT ![x.path] = 0] /\ hook' \in [Interfaces -> Attachments]
  BY <1>1, <1>2, KernelBecomesFacts
<1>4. Types'
  <2>1. pins' \in [Paths -> 0 .. MaxLinks]
    BY <1>3 DEF IInv, Types
  <2>2. owned' \subseteq Link
    BY <1>1, StateFacts, LinkFacts
  <2> QED
    BY <1>1, <1>3, <2>1, <2>2 DEF IInv, Types, Attachments
<1> QED
  BY <1>1, <1>3, <1>4, PinnedMoves

LEMMA KeepPinStep ==
  ASSUME IInv, NEW x \in pinned, KeepPin(x)
  PROVE  IInv'
<1>1. /\ pinned' = pinned \ {x} /\ owned' = owned \union {FdLink(x.fd)}
      /\ UNCHANGED <<kernel, loaded, hook, klinks, pins, fds, progFd, links>>
  BY DEF KeepPin, kernelVars
<1>2. Types'
  <2>1. owned' \subseteq Link
    BY <1>1, StateFacts, LinkFacts
  <2> QED
    BY <1>1, <2>1 DEF IInv, Types
<1> QED
  BY <1>1, <1>2, PinnedMoves

-----------------------------------------------------------------------------
(* The environment *)

LEMMA ClearedByOthersStep ==
  ASSUME IInv, NEW i \in Interfaces, ClearedByOthers(i)
  PROVE  IInv'
<1>1. /\ hook' = [hook EXCEPT ![i] = Nothing]
      /\ UNCHANGED <<kernel, loaded, klinks, pins, fds, progFd, links, owned, pinned>>
  BY DEF ClearedByOthers
<1>2. Types'
  BY <1>1 DEF IInv, Types
<1>3. \A f \in Fds : Held(f)'
  BY <1>1, HeldKept DEF IInv
<1> QED
  BY <1>1, <1>2, <1>3, SameFds

\* A killed process owns nothing, and has nothing open.
LEMMA RestartStep ==
  ASSUME IInv, Restart
  PROVE  IInv'
<1> DEFINE fds1 == [f \in Fds |-> Closed]
<1>1. /\ KernelBecomes(fds1, pins, hook)
      /\ progFd' = [p \in Programs |-> 0] /\ links' = [p \in Programs |-> {}]
      /\ owned' = {} /\ pinned' = {}
      /\ UNCHANGED <<kernel, loaded, klinks>>
  BY DEF Restart
<1>2. hook \in [Interfaces -> Attachments]
  BY DEF IInv, Types, Attachments
<1> HIDE DEF fds1
<1>3. fds' = fds1 /\ pins' = pins /\ hook' \in [Interfaces -> Attachments]
  BY <1>1, <1>2, KernelBecomesFacts
<1>4. \A f \in Fds : fds'[f] = Closed
  BY <1>3 DEF fds1
<1>5. Types'
  <2>1. fds' \in [Fds -> Object]
    BY <1>3, ObjectFacts DEF fds1
  <2> QED
    BY <1>1, <1>3, <2>1 DEF IInv, Types, Attachments
<1>6. \A f \in Fds : Held(f)'
  BY <1>1, <1>4, LinkFacts, HeldClosed
<1>7. \A p \in Programs : NetlinkRight(p)'
  BY <1>1 DEF NetlinkRight
<1> QED
  BY <1>5, <1>6, <1>7 DEF IInv

-----------------------------------------------------------------------------
(* The theorems *)

LEMMA StepInvariant == IInv /\ [Next]_vars => IInv'
<1> SUFFICES ASSUME IInv, [Next]_vars PROVE IInv'
  OBVIOUS
<1>1. ASSUME NEW p \in Programs, ProgramStep(p) PROVE IInv'
  <2>1. CASE Load(p)
    BY <2>1, LoadStep
  <2>2. CASE Unload(p)
    BY <2>2, UnloadStep
  <2>3. ASSUME NEW i \in Interfaces, AttachLink(p, i) \/ AttachNetlink(p, i) PROVE IInv'
    BY <2>3, AttachLinkStep, AttachNetlinkStep
  <2>4. ASSUME NEW l \in links[p], Detach(p, l) \/ TakeLink(p, l) PROVE IInv'
    BY <2>4, DetachStep, TakeLinkStep
  <2>5. ASSUME NEW l \in owned, AttachToLink(p, l) PROVE IInv'
    <3>1. CASE ReplaceNotLoaded(p, l)
      BY <3>1, OwnedDetached DEF ReplaceNotLoaded
    <3>2. CASE ReplaceFd(p, l)
      BY <3>2, ReplaceFdStep
    <3>3. CASE ReplaceFdRefused(p, l)
      BY <3>3, OwnedDetached DEF ReplaceFdRefused
    <3>4. CASE ReplaceNetlink(p, l)
      BY <3>4, ReplaceNetlinkStep
    <3>5. CASE ReplaceNetlinkRefused(p, l)
      BY <3>5, ReplaceNetlinkRefusedStep
    <3> QED
      BY <2>5, <3>1, <3>2, <3>3, <3>4, <3>5 DEF AttachToLink
  <2> QED
    BY <1>1, <2>1, <2>2, <2>3, <2>4, <2>5 DEF ProgramStep
<1>2. CASE LinkStep
  <2>1. ASSUME NEW l \in owned, DropLink(l) PROVE IInv'
    BY <2>1, OwnedDetached DEF DropLink
  <2>2. ASSUME NEW l \in owned, NEW path \in Paths, Pin(l, path) \/ PinRefused(l, path) PROVE IInv'
    BY <2>1, <2>2, PinStep DEF PinRefused
  <2>3. ASSUME NEW path \in Paths, FromPin(path) PROVE IInv'
    BY <2>3, FromPinStep
  <2>4. ASSUME NEW x \in pinned, Unpin(x) \/ DropPinned(x) \/ KeepPin(x) PROVE IInv'
    BY <2>4, UnpinStep, DropPinnedStep, KeepPinStep
  <2> QED
    BY <1>2, <2>1, <2>2, <2>3, <2>4 DEF LinkStep
<1>3. ASSUME NEW i \in Interfaces, ClearedByOthers(i) PROVE IInv'
  BY <1>3, ClearedByOthersStep
<1>4. CASE Restart
  BY <1>4, RestartStep
<1>5. CASE UNCHANGED vars
  <2>1. UNCHANGED <<kernel, loaded, hook, klinks, pins, fds, progFd, links, owned, pinned>>
    BY <1>5 DEF vars, kernelVars
  <2>2. Types'
    BY <2>1 DEF IInv, Types
  <2>3. \A f \in Fds : Held(f)'
    BY <2>1, HeldKept DEF IInv
  <2> QED
    BY <2>1, <2>2, <2>3, SameFds
<1> QED
  BY <1>1, <1>2, <1>3, <1>4, <1>5 DEF Next

\* Every open descriptor has an owner of its kind, no two values could close the same one,
\* and a program that tracks links is loaded with the descriptor that its netlink links
\* name (the fd fields of ProgramData, FdLink, PinnedLink and NlLink).
THEOREM InductiveInvariant == Spec => []IInv
BY InitInvariant, StepInvariant, PTL DEF Spec

\* Interfaces run programs, descriptors and pins refer to objects that the kernel knows,
\* and each owner's descriptor (ProgramData::fd, FdLink::fd) is open and of its kind.
THEOREM TypeCorrect == Spec => []TypeOK
<1>1. IInv => TypeOK
  <2> SUFFICES ASSUME IInv PROVE TypeOK
    OBVIOUS
  <2>1. ASSUME NEW p \in Programs, progFd[p] # 0 PROVE fds[progFd[p]].kind = "prog"
    BY <2>1, ProgramFdFacts
  <2>2. ASSUME NEW p \in Programs, NEW l \in links[p], l.kind = "fd"
        PROVE  fds[l.fd].kind = "link"
    <3>1. l.fd \in Fds /\ Tracked(p, l.fd) /\ Held(l.fd)
      BY <2>2, StateFacts, LinkFacts DEF IInv, Tracked
    <3> QED
      BY <3>1 DEF Held
  <2>3. ASSUME NEW l \in owned, l.kind = "fd" PROVE fds[l.fd].kind = "link"
    <3>1. l.fd \in Fds /\ Free(l.fd) /\ Held(l.fd)
      BY <2>3, StateFacts, LinkFacts DEF IInv, Free
    <3> QED
      BY <3>1 DEF Held
  <2>4. ASSUME NEW x \in pinned PROVE fds[x.fd].kind = "link"
    <3>1. x.fd \in Fds /\ Held(x.fd)
      BY StateFacts DEF IInv
    <3> QED
      BY <3>1 DEF Held
  <2> QED
    BY <2>1, <2>2, <2>3, <2>4 DEF IInv, TypeOK
<1> QED
  BY <1>1, InductiveInvariant, PTL

\* Through load, unload, attach, attach_to_link, take_link, pin, unpin and their failures
\* each open descriptor has exactly one owner, and no value owns a closed one.
THEOREM DescriptorsAreOwned == Spec => []DescriptorsOwned
<1>1. IInv => DescriptorsOwned
  <2> SUFFICES ASSUME IInv, NEW f \in Fds
               PROVE  Cardinality(Owners(f)) = (IF fds[f] = Closed THEN 0 ELSE 1)
    BY DEF DescriptorsOwned
  <2>0. Held(f) /\ fds[f] \in Object
    BY StateFacts DEF IInv
  <2>1. \A o : o \in Owners(f) <=>
          \/ \E p \in Programs : progFd[p] = f /\ o = <<"program", p>>
          \/ \E p \in Programs : Tracked(p, f) /\ o = <<"tracked", p>>
          \/ Free(f) /\ o = <<"owned", FdLink(f)>>
          \/ \E x \in pinned : x.fd = f /\ o = <<"pinned", x>>
    BY DEF Owners, Tracked, Free
  <2>2. CASE fds[f] = Closed
    <3>1. Owners(f) = {}
      BY <2>0, <2>1, <2>2, ClosedIsFree
    <3> QED
      BY <2>2, <3>1, FS_EmptySet
  <2>3. CASE fds[f] # Closed
    <3>1. \E o : Owners(f) = {o}
      <4>1. CASE fds[f].kind = "prog"
        <5>1. PICK p \in Programs : progFd[p] = f
          BY <2>0, <4>1 DEF Held
        <5>2. \A o : o \in Owners(f) <=> o = <<"program", p>>
          BY <2>0, <2>1, <4>1, <5>1 DEF Held
        <5>3. Owners(f) = {<<"program", p>>}
          BY <5>2
        <5> QED
          BY <5>3
      <4>2. CASE fds[f].kind = "link"
        <5>1. \A q \in Programs : progFd[q] # f
          BY <2>0, <4>2 DEF Held
        <5>2. CASE \E p \in Programs : Tracked(p, f)
          <6>1. PICK p \in Programs : Tracked(p, f)
            BY <5>2
          <6>2. \A o : o \in Owners(f) <=> o = <<"tracked", p>>
            BY <2>0, <2>1, <5>1, <6>1 DEF Held
          <6>3. Owners(f) = {<<"tracked", p>>}
            BY <6>2
          <6> QED
            BY <6>3
        <5>3. CASE Free(f)
          <6>1. \A o : o \in Owners(f) <=> o = <<"owned", FdLink(f)>>
            BY <2>0, <2>1, <5>1, <5>3 DEF Held
          <6>2. Owners(f) = {<<"owned", FdLink(f)>>}
            BY <6>1
          <6> QED
            BY <6>2
        <5>4. CASE \E x \in pinned : x.fd = f
          <6>1. PICK x \in pinned : x.fd = f
            BY <5>4
          <6>2. \A o : o \in Owners(f) <=> o = <<"pinned", x>>
            BY <2>0, <2>1, <5>1, <6>1 DEF Held
          <6>3. Owners(f) = {<<"pinned", x>>}
            BY <6>2
          <6> QED
            BY <6>3
        <5> QED
          BY <2>0, <4>2, <5>2, <5>3, <5>4 DEF Held
      <4> QED
        BY <2>0, <2>3, <4>1, <4>2, ObjectFacts
    <3>2. PICK o : Owners(f) = {o}
      BY <3>1
    <3>3. Cardinality({o}) = 1
      BY FS_Singleton
    <3> QED
      BY <2>3, <3>2, <3>3
  <2> QED
    BY <2>2, <2>3
<1> QED
  BY <1>1, InductiveInvariant, PTL

\* unload_program ends every attachment that a tracked link stands for, on each of the
\* kernels, unless a pin or another descriptor holds it.
THEOREM UnloadDetachesTracked == Spec => UnloadDetaches
<1>1. ASSUME IInv, NEW p \in Programs, Unload(p), NEW l \in links[p], NEW i \in Interfaces,
             Represents(l, i, hook[i])
      PROVE  \/ hook'[i] = Nothing
             \/ \E f \in Fds : fds'[f].kind = "link" /\ fds'[f].of = hook[i].of
             \/ \E path \in Paths : pins'[path] = hook[i].of
  <2> DEFINE fds1 == [f \in Fds |-> IF f \in {progFd[p]} \/ FdLink(f) \in links[p]
                                    THEN Closed ELSE fds[f]]
             hook1 == [j \in Interfaces |->
                        IF \E m \in links[p] : m.ifc = j /\ Clears(m, hook[j])
                        THEN Nothing ELSE hook[j]]
  <2>1. KernelBecomes(fds1, pins, hook1)
    BY <1>1 DEF Unload, DetachAndClose
  <2>2. /\ hook1[i] = hook[i] \/ hook1[i] = Nothing
        /\ (\E m \in links[p] : m.ifc = i /\ Clears(m, hook[i])) => hook1[i] = Nothing
    OBVIOUS
  <2> HIDE DEF fds1, hook1
  <2>3. /\ fds' = fds1 /\ pins' = pins
        /\ hook'[i] = IF /\ hook1[i].by = "link"
                         /\ \A f \in Fds : fds1[f] # [kind |-> "link", of |-> hook1[i].of]
                         /\ \A path \in Paths : pins[path] # hook1[i].of
                      THEN Nothing ELSE hook1[i]
    BY <2>1 DEF KernelBecomes
  <2>4. l \in Link
    BY <1>1, StateFacts
  <2>5. CASE l.kind = "fd"
    <3>1. hook[i].by = "link"
      BY <1>1, <2>5 DEF Represents
    <3>2. CASE hook1[i] = Nothing
      BY <2>3, <3>2 DEF Nothing
    <3>3. CASE hook1[i] = hook[i]
      BY <2>3, <3>1, <3>3
    <3> QED
      BY <2>2, <3>2, <3>3
  <2>6. CASE l.kind = "nl"
    <3>1. i = l.ifc /\ hook[i] = [by |-> "netlink", of |-> l.of]
      BY <1>1, <2>6 DEF Represents
    <3>2. fds[l.fd] = [kind |-> "prog", of |-> l.of]
      BY <1>1, <2>6 DEF IInv, NetlinkRight
    <3>3. Clears(l, hook[i])
      BY <3>1, <3>2 DEF Clears
    <3>4. hook1[i] = Nothing
      BY <1>1, <2>2, <3>1, <3>3
    <3> QED
      BY <2>3, <3>4 DEF Nothing
  <2> QED
    BY <2>4, <2>5, <2>6, LinkFacts
<1>2. IInv /\ [Next]_vars =>
        [\A p \in Programs : Unload(p) =>
           \A l \in links[p], i \in Interfaces :
             Represents(l, i, hook[i]) =>
               \/ hook'[i] = Nothing
               \/ \E f \in Fds : fds'[f].kind = "link" /\ fds'[f].of = hook[i].of
               \/ \E path \in Paths : pins'[path] = hook[i].of]_vars
  BY <1>1
<1> QED
  BY <1>2, InductiveInvariant, PTL DEF Spec, UnloadDetaches

\* What the kernel detaches is not pinned.
LEMMA PinnedSurvives ==
  ASSUME NEW fds1, NEW pins1, NEW hook1, KernelBecomes(fds1, pins1, hook1),
         NEW path \in Paths, NEW i \in Interfaces,
         pins1[path] = pins[path], hook1[i] = hook[i],
         hook[i] = [by |-> "link", of |-> pins[path]]
  PROVE  pins'[path] = pins[path] /\ hook'[i] = hook[i]
BY DEF KernelBecomes

\* Neither does detaching links or closing descriptors take off a pinned link.
LEMMA DetachSparesPinned ==
  ASSUME NEW S, NEW F, DetachAndClose(S, F), NEW path \in Paths, NEW i \in Interfaces,
         hook[i] = [by |-> "link", of |-> pins[path]]
  PROVE  pins'[path] = pins[path] /\ hook'[i] = hook[i]
<1> DEFINE fds1 == [f \in Fds |-> IF f \in F \/ FdLink(f) \in S THEN Closed ELSE fds[f]]
           hook1 == [j \in Interfaces |->
                      IF \E l \in S : l.ifc = j /\ Clears(l, hook[j]) THEN Nothing ELSE hook[j]]
<1>1. KernelBecomes(fds1, pins, hook1)
  BY DEF DetachAndClose
<1>2. \A l \in S : ~Clears(l, hook[i])
  BY DEF Clears
<1>3. hook1[i] = hook[i]
  BY <1>2
<1> HIDE DEF fds1, hook1
<1> QED
  BY <1>1, <1>3, PinnedSurvives

\* A pinned link stays attached and pinned until unpin removes its file: unload_program,
\* attach_to_link, drops of links and a crash leave it to PinnedLink::from_pin.
THEOREM PinnedLinksStayAttached == Spec => PinnedStaysAttached
<1>1. ASSUME IInv, Next, NEW path \in Paths, NEW i \in Interfaces
      PROVE  (pins[path] # 0 /\ hook[i] = [by |-> "link", of |-> pins[path]]) =>
               \/ pins'[path] = pins[path] /\ hook'[i] = hook[i]
               \/ \E x \in pinned : x.path = path /\ Unpin(x)
  <2> SUFFICES ASSUME pins[path] # 0, hook[i] = [by |-> "link", of |-> pins[path]]
               PROVE  \/ pins'[path] = pins[path] /\ hook'[i] = hook[i]
                      \/ \E x \in pinned : x.path = path /\ Unpin(x)
    OBVIOUS
  <2>0. hook[i] # Nothing /\ hook[i].by = "link" /\ hook \in [Interfaces -> Attachments]
    BY <1>1 DEF Nothing, IInv, Types, Attachments
  <2>1. ASSUME NEW p \in Programs, ProgramStep(p) PROVE pins'[path] = pins[path] /\ hook'[i] = hook[i]
    <3>1. CASE Load(p)
      BY <3>1 DEF Load
    <3>2. CASE Unload(p)
      BY <3>2, DetachSparesPinned DEF Unload
    <3>3. ASSUME NEW j \in Interfaces, AttachLink(p, j) \/ AttachNetlink(p, j)
          PROVE  pins' = pins /\ hook'[i] = hook[i]
      <4>1. CASE AttachLink(p, j)
        BY <2>0, <4>1 DEF AttachLink
      <4>2. CASE AttachNetlink(p, j)
        BY <2>0, <4>2 DEF AttachNetlink
      <4> QED
        BY <3>3, <4>1, <4>2
    <3>4. ASSUME NEW l \in links[p], Detach(p, l) \/ TakeLink(p, l)
          PROVE  pins'[path] = pins[path] /\ hook'[i] = hook[i]
      <4>1. CASE Detach(p, l)
        BY <4>1, DetachSparesPinned DEF Detach
      <4>2. CASE TakeLink(p, l)
        BY <4>2 DEF TakeLink, kernelVars
      <4> QED
        BY <3>4, <4>1, <4>2
    <3>5. ASSUME NEW l \in owned, AttachToLink(p, l)
          PROVE  pins'[path] = pins[path] /\ hook'[i] = hook[i]
      <4>1. CASE ReplaceNotLoaded(p, l)
        BY <4>1, DetachSparesPinned DEF ReplaceNotLoaded
      <4>2. CASE ReplaceFd(p, l)
        BY <4>2 DEF ReplaceFd
      <4>3. CASE ReplaceFdRefused(p, l)
        BY <4>3, DetachSparesPinned DEF ReplaceFdRefused
      <4>4. CASE ReplaceNetlink(p, l)
        <5>1. l.ifc # i /\ pins' = pins
          BY <2>0, <4>4 DEF ReplaceNetlink, Clears
        <5>2. hook'[i] = hook[i]
          BY <2>0, <4>4, <5>1 DEF ReplaceNetlink
        <5> QED
          BY <5>1, <5>2
      <4>5. CASE ReplaceNetlinkRefused(p, l)
        BY <4>5 DEF ReplaceNetlinkRefused, kernelVars
      <4> QED
        BY <3>5, <4>1, <4>2, <4>3, <4>4, <4>5 DEF AttachToLink
    <3> QED
      BY <2>1, <3>1, <3>2, <3>3, <3>4, <3>5 DEF ProgramStep
  <2>2. CASE LinkStep
    <3>1. ASSUME NEW l \in owned, DropLink(l) PROVE pins'[path] = pins[path] /\ hook'[i] = hook[i]
      BY <3>1, DetachSparesPinned DEF DropLink
    <3>2. ASSUME NEW l \in owned, NEW other \in Paths, Pin(l, other) \/ PinRefused(l, other)
          PROVE  pins'[path] = pins[path] /\ hook'[i] = hook[i]
      <4>1. CASE Pin(l, other)
        BY <1>1, <4>1 DEF Pin, IInv, Types
      <4>2. CASE PinRefused(l, other)
        BY <3>1, <4>2 DEF PinRefused
      <4> QED
        BY <3>2, <4>1, <4>2
    <3>3. ASSUME NEW other \in Paths, FromPin(other) PROVE pins'[path] = pins[path] /\ hook'[i] = hook[i]
      BY <3>3 DEF FromPin
    <3>4. ASSUME NEW x \in pinned, Unpin(x)
          PROVE  \/ pins'[path] = pins[path] /\ hook'[i] = hook[i]
                 \/ x.path = path
      <4>1. CASE x.path # path
        <5>1. PICK pins1 : pins1 = [pins EXCEPT ![x.path] = 0]
          OBVIOUS
        <5>2. KernelBecomes(fds, pins1, hook)
          BY <3>4, <5>1 DEF Unpin
        <5>3. pins1[path] = pins[path]
          BY <1>1, <4>1, <5>1 DEF IInv, Types
        <5> QED
          BY <5>2, <5>3, PinnedSurvives
      <4> QED
        BY <4>1
    <3>5. ASSUME NEW x \in pinned, DropPinned(x) \/ KeepPin(x)
          PROVE  pins'[path] = pins[path] /\ hook'[i] = hook[i]
      <4>1. CASE DropPinned(x)
        BY <4>1, DetachSparesPinned DEF DropPinned
      <4>2. CASE KeepPin(x)
        BY <4>2 DEF KeepPin, kernelVars
      <4> QED
        BY <3>5, <4>1, <4>2
    <3> QED
      BY <2>2, <3>1, <3>2, <3>3, <3>4, <3>5 DEF LinkStep
  <2>3. ASSUME NEW j \in Interfaces, ClearedByOthers(j) PROVE pins'[path] = pins[path] /\ hook'[i] = hook[i]
    BY <2>0, <2>3 DEF ClearedByOthers
  <2>4. CASE Restart
    BY <2>4, PinnedSurvives DEF Restart
  <2> QED
    BY <1>1, <2>1, <2>2, <2>3, <2>4 DEF Next
<1>2. IInv /\ [Next]_vars =>
        [\A path \in Paths, i \in Interfaces :
           (pins[path] # 0 /\ hook[i] = [by |-> "link", of |-> pins[path]]) =>
             \/ pins'[path] = pins[path] /\ hook'[i] = hook[i]
             \/ \E x \in pinned : x.path = path /\ Unpin(x)]_vars
  BY <1>1
<1> QED
  BY <1>2, InductiveInvariant, PTL DEF Spec, PinnedStaysAttached
=============================================================================
