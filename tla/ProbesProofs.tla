---------------------------- MODULE ProbesProofs ----------------------------
(***************************************************************************)
(* Theorems about Probes, for every set of threads, every kernel and every *)
(* bound.                                                                  *)
(***************************************************************************)
EXTENDS Probes, WellFoundedInduction, TLAPS

-----------------------------------------------------------------------------
(* The inductive invariant *)

Making == {"name", "write", "open", "link", "setbpf", "enable"}

Types ==
  /\ kernel \in Kernels
  /\ multi \in [Threads -> BOOLEAN]
  /\ tracefs \subseteq Names /\ foreign \subseteq Names /\ leftover \subseteq Names
  /\ fds \in [Fds -> [event : 0 .. MaxNames, of : Threads \union {Nobody},
                      points : 0 .. MaxPoints]]
  /\ index \in 0 .. MaxNames
  /\ mode \in [Threads -> {"single", "multi", "unknown"}]
  /\ pc \in [Threads -> {"idle", "multi", "drop"} \union Making]
  /\ want \in [Threads -> 0 .. MaxPoints]
  /\ cur \in [Threads -> Point]
  /\ vec \in [Threads -> Seq(Point)]
  /\ link \in [Threads -> Seq(Point)]
  /\ drops \in [Threads -> Seq(Point)]

\* What a thread has at each step of attach and detach.
Phase(t) ==
  /\ pc[t] # "idle" => link[t] = <<>>
  /\ pc[t] = "drop" <=> drops[t] # <<>>
  /\ pc[t] \notin Making => vec[t] = <<>>
  /\ pc[t] \in Making => Len(vec[t]) < want[t]
  /\ pc[t] = "multi" => want[t] > 0
  /\ pc[t] \in {"idle", "multi", "name", "drop"} => cur[t] = NoPoint
  /\ pc[t] \in {"name", "write"} => kernel = "tracefs"
  /\ pc[t] \in {"write", "open"} => cur[t].fd = 0
  /\ pc[t] \in {"link", "setbpf", "enable"} => cur[t].fd # 0
  /\ pc[t] \in {"write", "open", "link", "setbpf", "enable"} =>
       (cur[t].event # 0 <=> kernel = "tracefs")
  /\ pc[t] = "link" => kernel = "link"
  /\ pc[t] \in {"setbpf", "enable"} => kernel # "link"
  /\ pc[t] = "enable" => ~multi[t]

\* A thread keeps the points it has made in one list at a time. Together with the one it
\* is making, at place 0, they are all that it owns.
Points(t) == IF pc[t] = "idle" THEN link[t] ELSE IF pc[t] = "drop" THEN drops[t] ELSE vec[t]
Places(t) == 0 .. Len(Points(t))
At(t, i) == IF i = 0 THEN cur[t] ELSE Points(t)[i]

\* No two points have the same event or the same descriptor, and the names of all
\* events have been counted.
Apart(x, y) == /\ x.event # 0 => x.event # y.event
               /\ x.fd # 0 => x.fd # y.fd

PointsApart ==
  \A t \in Threads : \A i \in Places(t) :
    /\ At(t, i).event <= index
    /\ \A u \in Threads : \A j \in Places(u) : t # u \/ i # j => Apart(At(t, i), At(u, j))

\* A point's descriptor is open, and a descriptor that is open belongs to a point.
Holds(t, x) == x.fd # 0 => fds[x.fd].of = t /\ fds[x.fd].event = x.event

PointsHold == \A t \in Threads : \A i \in Places(t) : Holds(t, At(t, i))

FdsOwned ==
  \A f \in Fds : fds[f] # Closed => \E t \in Threads : \E i \in Places(t) : At(t, i).fd = f

\* EventsOwned, by place.
EventsHeld ==
  \A n \in tracefs : n \notin leftover =>
    \E t \in Threads : \E i \in Places(t) :
      At(t, i).event = n /\ (i = 0 => pc[t] \notin {"name", "write"})

\* The program runs at each point that is attached.
Runs(x, k) == x.fd # 0 /\ fds[x.fd].points = k

Attached(t) ==
  /\ pc[t] \in Making => \A i \in 1 .. Len(vec[t]) : Runs(vec[t][i], 1)
  /\ pc[t] = "idle" => \/ link[t] = <<>>
                       \/ Len(link[t]) = 1 /\ Runs(link[t][1], want[t])
                       \/ /\ Len(link[t]) = want[t]
                          /\ \A i \in 1 .. Len(link[t]) : Runs(link[t][i], 1)

IInv ==
  /\ Types /\ ModeIsRight
  /\ PointsApart /\ PointsHold /\ FdsOwned /\ EventsHeld
  /\ \A t \in Threads : Phase(t) /\ Attached(t)

-----------------------------------------------------------------------------
(* Facts about the kernel and about places *)

USE NobodyAssumption, KernelsAssumption, BoundsAssumption

\* A set of numbers that is not empty has a least element.
LEMMA LeastNumber ==
  ASSUME NEW U, U \subseteq Nat, U # {}
  PROVE  \E n \in U : \A m \in U : n <= m
<1> DEFINE R == OpToRel(<, Nat)
<1>1. IsWellFoundedOn(R, Nat)
  BY NatLessThanWellFounded, Zenon
<1>2. \A m, n \in Nat : m < n => <<m, n>> \in R
  BY Zenon DEF OpToRel
<1>3. PICK n \in U : \A m \in U : ~(<<m, n>> \in R)
  <2> HIDE DEF R
  <2> QED
    BY <1>1, WFMin
<1>4. \A m \in U : ~(m < n)
  BY <1>2, <1>3, Zenon
<1> QED
  BY <1>4

\* A new descriptor was closed, and no point has it.
LEMMA NewFdFacts ==
  ASSUME HasFreeFd
  PROVE  NewFd \in Fds /\ fds[NewFd] = Closed
<1> DEFINE free == {f \in Fds : fds[f] = Closed}
<1>1. free \subseteq Nat /\ free # {}
  BY DEF HasFreeFd, Fds
<1>2. \E f \in free : \A g \in free : f <= g
  BY <1>1, LeastNumber
<1>3. \E f \in Fds : fds[f] = Closed /\ \A g \in Fds : g < f => fds[g] # Closed
  BY <1>2 DEF Fds
<1> QED
  BY <1>3, Zenon DEF NewFd

LEMMA NewFdUnused ==
  ASSUME Types, PointsHold, HasFreeFd
  PROVE  /\ NewFd \in Fds /\ fds[NewFd] = Closed /\ NewFd # 0
         /\ \A t \in Threads : \A i \in Places(t) : At(t, i).fd # NewFd
<1>1. NewFd \in Fds /\ fds[NewFd] = Closed /\ NewFd # 0
  BY NewFdFacts DEF Fds
<1> QED
  BY <1>1 DEF PointsHold, Holds, Closed

\* What is at a place is a point.
LEMMA PlaceTypes ==
  ASSUME Types, NEW t \in Threads
  PROVE  /\ Points(t) \in Seq(Point) /\ Len(Points(t)) \in Nat
         /\ \A i \in Places(t) : At(t, i) \in Point
BY DEF Types, Points, Places, At

\* A thread that does not take the step keeps its places.
Same(u) ==
  /\ pc'[u] = pc[u] /\ cur'[u] = cur[u] /\ vec'[u] = vec[u] /\ link'[u] = link[u]
  /\ drops'[u] = drops[u] /\ want'[u] = want[u]

LEMMA SamePlaces ==
  ASSUME NEW u \in Threads, Same(u)
  PROVE  Places(u)' = Places(u) /\ \A i \in Places(u) : At(u, i)' = At(u, i)
BY DEF Same, Places, At, Points

\* Its phase, and that its program runs, depend on nothing else.
LEMMA OthersKeep ==
  ASSUME IInv, NEW u \in Threads, Same(u), UNCHANGED <<kernel, multi>>,
         \A f \in Fds : fds[f].of = u => fds'[f] = fds[f]
  PROVE  /\ Phase(u)' /\ Attached(u)'
         /\ \A i \in Places(u) : Holds(u, At(u, i))'
<1>1. Phase(u)'
  BY DEF IInv, Same, Phase
<1>2. \A i \in Places(u) : At(u, i) \in Point /\ Holds(u, At(u, i)) /\ At(u, i)' = At(u, i)
  BY PlaceTypes, SamePlaces DEF IInv, PointsHold
<1>3. \A i \in Places(u) :
        At(u, i).fd # 0 => At(u, i).fd \in Fds /\ fds'[At(u, i).fd] = fds[At(u, i).fd]
  BY <1>2 DEF Holds, Point, Fds
<1>4. \A i \in Places(u) : Holds(u, At(u, i))'
  BY <1>2, <1>3 DEF Holds
<1>5. \A i \in 1 .. Len(Points(u)) : LET f == Points(u)[i].fd IN f # 0 => fds'[f] = fds[f]
  <2>1. \A i \in 1 .. Len(Points(u)) : i \in Places(u) /\ At(u, i) = Points(u)[i]
    BY PlaceTypes DEF IInv, Places, At
  <2> QED
    BY <1>3, <2>1
<1>6. Attached(u)'
  <2>1. Attached(u) /\ vec[u] \in Seq(Point) /\ link[u] \in Seq(Point)
    BY DEF IInv, Types
  <2>2. CASE pc[u] \in Making
    <3>1. Points(u) = vec[u] /\ pc'[u] \in Making /\ vec'[u] = vec[u] /\ pc'[u] # "idle"
      BY <2>2 DEF Points, Making, Same
    <3>2. \A i \in 1 .. Len(vec[u]) : Runs(vec[u][i], 1) /\ fds'[vec[u][i].fd] = fds[vec[u][i].fd]
      BY <1>5, <2>1, <2>2, <3>1 DEF Attached, Runs
    <3> QED
      BY <3>1, <3>2 DEF Attached, Runs
  <2>3. CASE pc[u] = "idle"
    <3>1. /\ Points(u) = link[u] /\ pc'[u] = "idle" /\ link'[u] = link[u]
          /\ want'[u] = want[u] /\ pc'[u] \notin Making
      BY <2>3 DEF Points, Making, Same
    <3> QED
      BY <1>5, <2>1, <2>3, <3>1, SMTT(30) DEF Attached, Runs
  <2>4. CASE pc[u] \notin Making /\ pc[u] # "idle"
    BY <2>4 DEF Attached, Same
  <2> QED
    BY <2>2, <2>3, <2>4
<1> QED
  BY <1>1, <1>4, <1>6

\* A step moves the points of one thread about, and drops some. It may make one at
\* place k, or add to the one there, an event of a new name or a new descriptor.
Moved(t, g, k, n, f) ==
  /\ \A u \in Threads : u # t => Same(u)
  /\ index <= index'
  /\ n = 0 \/ (index < n /\ n <= index')
  /\ \A u \in Threads : \A i \in Places(u) : f # 0 => At(u, i).fd # f
  /\ \A i \in Places(t)' :
       /\ g[i] \in Places(t)
       /\ \/ At(t, i)'.event \in {0, At(t, g[i]).event}
          \/ i = k /\ At(t, i)'.event = n
       /\ \/ At(t, i)'.fd \in {0, At(t, g[i]).fd}
          \/ i = k /\ At(t, i)'.fd = f
  /\ \A i, j \in Places(t)' : g[i] = g[j] => i = j \/ At(t, i)' = NoPoint \/ At(t, j)' = NoPoint

LEMMA MovedApart ==
  ASSUME Types, Types', PointsApart, NEW t \in Threads, NEW g, NEW k, NEW n \in Nat, NEW f \in Nat,
         Moved(t, g, k, n, f)
  PROVE  PointsApart'
<1>1. \A u \in Threads : \A i \in Places(u) :
        /\ At(u, i) \in Point /\ At(u, i).event <= index
        /\ At(u, i).event \in Nat /\ At(u, i).fd \in Nat
  BY PlaceTypes DEF PointsApart, Point
<1>2. \A u \in Threads : u # t =>
        Places(u)' = Places(u) /\ \A i \in Places(u) : At(u, i)' = At(u, i)
  BY SamePlaces DEF Moved
<1>3. index \in Nat /\ index' \in Nat
  BY DEF Types
<1>4. ASSUME NEW u \in Threads, NEW i \in Places(u)'
      PROVE  At(u, i)'.event <= index'
  BY <1>1, <1>2, <1>3, <1>4 DEF Moved
<1>5. ASSUME NEW i \in Places(t)', NEW u \in Threads, u # t, NEW j \in Places(u)
      PROVE  Apart(At(t, i)', At(u, j)) /\ Apart(At(u, j), At(t, i)')
  <2>1. Apart(At(t, g[i]), At(u, j)) /\ g[i] \in Places(t)
    BY <1>5 DEF PointsApart, Moved
  <2>2. At(u, j).event <= index /\ At(u, j).event \in Nat
    BY <1>1, <1>5
  <2> QED
    BY <1>3, <1>5, <2>1, <2>2 DEF Apart, Moved
<1>6. ASSUME NEW i \in Places(t)', NEW j \in Places(t)', i # j
      PROVE  Apart(At(t, i)', At(t, j)')
  <2>1. CASE At(t, i)' = NoPoint \/ At(t, j)' = NoPoint
    BY <2>1 DEF NoPoint, Apart
  <2>2. CASE g[i] # g[j]
    <3>1. /\ Apart(At(t, g[i]), At(t, g[j])) /\ g[i] \in Places(t) /\ g[j] \in Places(t)
          /\ At(t, g[i]).event <= index /\ At(t, g[j]).event <= index
          /\ At(t, g[i]).event \in Nat /\ At(t, g[j]).event \in Nat
      BY <1>1, <1>6, <2>2 DEF PointsApart, Moved
    <3> QED
      BY <1>3, <1>6, <3>1 DEF Apart, Moved
  <2> QED
    BY <1>6, <2>1, <2>2 DEF Moved
<1>7. \A u \in Threads : \A i \in Places(u)' :
        \A v \in Threads : \A j \in Places(v)' :
          u # v \/ i # j => Apart(At(u, i)', At(v, j)')
  <2>1. TAKE u \in Threads
  <2>2. TAKE i \in Places(u)'
  <2>3. TAKE v \in Threads
  <2>4. TAKE j \in Places(v)'
  <2>5. HAVE u # v \/ i # j
  <2>6. CASE u = t /\ v = t
    BY <1>6, <2>5, <2>6
  <2>7. CASE u = t /\ v # t
    BY <1>2, <1>5, <2>7
  <2>8. CASE u # t /\ v = t
    BY <1>2, <1>5, <2>8
  <2>9. CASE u # t /\ v # t
    BY <1>2, <2>5, <2>9 DEF PointsApart
  <2> QED
    BY <2>6, <2>7, <2>8, <2>9
<1> QED
  BY <1>4, <1>7 DEF PointsApart, Apart

\* What one step of thread t has to keep about its own points for the whole to be kept.
FdsKept(t) ==
  \A f \in Fds : fds'[f] # Closed =>
    \/ \E j \in Places(t)' : At(t, j)'.fd = f
    \/ fds[f] # Closed /\ \A i \in Places(t) : At(t, i).fd # f

EventsKept(t) ==
  \A n \in tracefs' : n \notin leftover' =>
    \/ \E j \in Places(t)' : At(t, j)'.event = n /\ (j = 0 => pc'[t] \notin {"name", "write"})
    \/ /\ n \in tracefs /\ n \notin leftover
       /\ \A i \in Places(t) : At(t, i).event = n => i = 0 /\ pc[t] \in {"name", "write"}

LEMMA LocalStep ==
  ASSUME IInv, NEW t \in Threads, NEW g, NEW k, NEW n \in Nat, NEW f \in Nat,
         Moved(t, g, k, n, f), UNCHANGED <<kernel, multi>>, Types', ModeIsRight',
         \A d \in Fds : fds[d].of \notin {t, Nobody} => fds'[d] = fds[d],
         \A i \in Places(t)' : Holds(t, At(t, i))',
         FdsKept(t), EventsKept(t), Phase(t)', Attached(t)'
  PROVE  IInv'
<1>1. \A u \in Threads : u # t => Same(u)
  BY DEF Moved
<1>2. \A u \in Threads : u # t =>
        Places(u)' = Places(u) /\ \A i \in Places(u) : At(u, i)' = At(u, i)
  BY <1>1, SamePlaces
<1>3. PointsApart'
  BY MovedApart DEF IInv
<1>4. ASSUME NEW u \in Threads, u # t
      PROVE  /\ Phase(u)' /\ Attached(u)'
             /\ \A i \in Places(u) : Holds(u, At(u, i))'
  BY <1>1, <1>4, OthersKeep
<1>5. PointsHold'
  BY <1>2, <1>4 DEF PointsHold
<1>6. FdsOwned'
  <2>1. SUFFICES ASSUME NEW d \in Fds, fds'[d] # Closed
                 PROVE  \E u \in Threads : \E i \in Places(u)' : At(u, i)'.fd = d
    BY DEF FdsOwned, Closed
  <2>2. CASE \E j \in Places(t)' : At(t, j)'.fd = d
    BY <2>2
  <2>3. CASE fds[d] # Closed /\ \A i \in Places(t) : At(t, i).fd # d
    <3>1. PICK u \in Threads : \E i \in Places(u) : At(u, i).fd = d
      BY <2>3 DEF IInv, FdsOwned
    <3> QED
      BY <1>2, <2>3, <3>1
  <2> QED
    BY <2>1, <2>2, <2>3 DEF FdsKept
<1>7. EventsHeld'
  <2>1. SUFFICES ASSUME NEW m \in tracefs', m \notin leftover'
                 PROVE  \E u \in Threads : \E i \in Places(u)' :
                          At(u, i)'.event = m /\ (i = 0 => pc'[u] \notin {"name", "write"})
    BY DEF EventsHeld
  <2>2. CASE \E j \in Places(t)' : At(t, j)'.event = m /\ (j = 0 => pc'[t] \notin {"name", "write"})
    BY <2>2
  <2>3. CASE /\ m \in tracefs /\ m \notin leftover
             /\ \A i \in Places(t) : At(t, i).event = m => i = 0 /\ pc[t] \in {"name", "write"}
    <3>1. PICK u \in Threads : \E i \in Places(u) :
            At(u, i).event = m /\ (i = 0 => pc[u] \notin {"name", "write"})
      BY <2>3 DEF IInv, EventsHeld
    <3>2. u # t
      BY <2>3, <3>1
    <3>3. pc'[u] = pc[u]
      BY <1>1, <3>2 DEF Same
    <3> QED
      BY <1>2, <3>1, <3>2, <3>3
  <2> QED
    BY <2>1, <2>2, <2>3 DEF EventsKept
<1> QED
  BY <1>3, <1>4, <1>5, <1>6, <1>7 DEF IInv

-----------------------------------------------------------------------------
(* The initial states, and a restart *)

LEMMA NothingMade ==
  ASSUME NEW t \in Threads, pc[t] = "idle", vec[t] = <<>>, link[t] = <<>>, drops[t] = <<>>,
         cur[t] = NoPoint
  PROVE  /\ Phase(t) /\ Attached(t)
         /\ Places(t) = {0} /\ At(t, 0) = NoPoint
<1>1. Points(t) = <<>> /\ Places(t) = {0} /\ At(t, 0) = NoPoint
  BY DEF Points, Places, At
<1> QED
  BY <1>1 DEF Phase, Attached, Making

LEMMA InitInvariant == Init => IInv
<1> SUFFICES ASSUME Init PROVE IInv
  OBVIOUS
<1>1. Types
  BY DEF Init, Types, Closed, NoPoint, Point
<1>2. \A t \in Threads : /\ Phase(t) /\ Attached(t)
                         /\ Places(t) = {0} /\ At(t, 0) = NoPoint
  BY NothingMade DEF Init
<1>3. PointsApart /\ PointsHold /\ FdsOwned /\ EventsHeld
  BY <1>2 DEF Init, PointsApart, PointsHold, FdsOwned, EventsHeld, Apart, Holds, NoPoint
<1>4. ModeIsRight
  BY DEF Init, Modes, ModeIsRight
<1> QED
  BY <1>1, <1>2, <1>3, <1>4 DEF IInv

LEMMA RestartStep ==
  ASSUME IInv, Restart
  PROVE  IInv'
<1>1. Types'
  BY DEF IInv, Restart, Types, Closed, NoPoint, Point
<1>2. \A t \in Threads : /\ Phase(t)' /\ Attached(t)'
                         /\ Places(t)' = {0} /\ At(t, 0)' = NoPoint
  <2>1. ASSUME NEW t \in Threads
        PROVE  /\ pc'[t] = "idle" /\ vec'[t] = <<>> /\ link'[t] = <<>> /\ drops'[t] = <<>>
               /\ cur'[t] = NoPoint
    BY DEF Restart
  <2>2. ASSUME NEW t \in Threads
        PROVE  Points(t)' = <<>> /\ Places(t)' = {0} /\ At(t, 0)' = NoPoint
    BY <2>1 DEF Points, Places, At
  <2> QED
    BY <2>1, <2>2 DEF Phase, Attached, Making
<1>3. PointsApart' /\ PointsHold' /\ FdsOwned' /\ EventsHeld'
  BY <1>2 DEF IInv, Restart, PointsApart, PointsHold, FdsOwned, EventsHeld, Apart, Holds, NoPoint
<1>4. ModeIsRight'
  BY DEF IInv, Types, Restart, Modes, ModeIsRight
<1> QED
  BY <1>1, <1>2, <1>3, <1>4 DEF IInv

-----------------------------------------------------------------------------
(* The steps of other processes *)

LEMMA EnvironmentStep ==
  ASSUME IInv, NEW n \in Names, OpenedByOthers(n) \/ ClosedByOthers(n) \/ RemovedByOthers(n)
  PROVE  IInv'
<1>1. /\ UNCHANGED <<kernel, multi, fds, index, mode, pc, want, cur, vec, link, drops>>
      /\ tracefs' \subseteq tracefs /\ leftover' \subseteq leftover
      /\ tracefs' \ leftover' \subseteq tracefs \ leftover
      /\ foreign' \subseteq Names
  BY DEF IInv, Types, OpenedByOthers, ClosedByOthers, RemovedByOthers
<1>2. Types' /\ ModeIsRight'
  BY <1>1 DEF IInv, Types, ModeIsRight
<1>3. \A u \in Threads : /\ Phase(u)' /\ Attached(u)'
                         /\ \A i \in Places(u) : Holds(u, At(u, i))'
  BY <1>1, OthersKeep DEF Same
<1>4. \A u \in Threads : Places(u)' = Places(u) /\ \A i \in Places(u) : At(u, i)' = At(u, i)
  BY <1>1, SamePlaces DEF Same
<1>5. PointsApart' /\ PointsHold' /\ FdsOwned' /\ EventsHeld'
  BY <1>1, <1>3, <1>4 DEF IInv, PointsApart, PointsHold, FdsOwned, EventsHeld, Apart, Closed
<1> QED
  BY <1>2, <1>3, <1>5 DEF IInv

-----------------------------------------------------------------------------
(* attach *)

\* The steps that make no point, open nothing and close nothing.
LEMMA PlainStep ==
  ASSUME IInv, NEW t \in Threads,
         \/ \E k \in 1 .. MaxPoints : Attach(t, k)
         \/ MultiRefused(t) \/ MultiFails(t) \/ SetBpf(t)
  PROVE  IInv'
<1>1. /\ UNCHANGED <<kernel, multi, tracefs, foreign, fds, index, mode, cur, vec, link, drops, leftover>>
      /\ \A u \in Threads : u # t => pc'[u] = pc[u] /\ want'[u] = want[u]
  BY DEF IInv, Types, Attach, MultiRefused, MultiFails, SetBpf, Goto, kernelVars
<1>2. Types' /\ ModeIsRight'
  <2>1. pc' \in [Threads -> {"idle", "multi", "drop"} \union Making]
    BY DEF IInv, Types, Attach, MultiRefused, MultiFails, SetBpf, Goto, FirstStep, Making
  <2>2. want' \in [Threads -> 0 .. MaxPoints]
    <3>1. ASSUME NEW k \in 1 .. MaxPoints, Attach(t, k) PROVE want' \in [Threads -> 0 .. MaxPoints]
      BY <3>1 DEF IInv, Types, Attach
    <3> QED
      BY <3>1 DEF IInv, Types, MultiRefused, MultiFails, SetBpf
  <2> QED
    BY <1>1, <2>1, <2>2 DEF IInv, Types, ModeIsRight
<1>3. vec[t] \in Seq(Point) /\ link[t] \in Seq(Point)
  BY DEF IInv, Types
<1>4. /\ Points(t)' = Points(t) /\ Places(t)' = Places(t)
      /\ \A i \in Places(t) : At(t, i)' = At(t, i)
      /\ pc'[t] \in {"name", "write"} => cur[t] = NoPoint
  <2>1. Points(t)' = Points(t)
    BY <1>1, <1>3 DEF IInv, Types, Phase, Attach, MultiRefused, MultiFails, SetBpf, Goto, FirstStep,
       Points, Making
  <2>2. pc'[t] \in {"name", "write"} => cur[t] = NoPoint
    BY <1>1, <1>3 DEF IInv, Types, Phase, Attach, MultiRefused, MultiFails, SetBpf, Goto, FirstStep
  <2> QED
    BY <1>1, <2>1, <2>2 DEF Places, At
<1>5. Phase(t)'
  <2>1. ASSUME NEW k \in 1 .. MaxPoints, Attach(t, k) PROVE Phase(t)'
    BY <1>1, <1>3, <2>1 DEF IInv, Types, Phase, Attach, Goto, FirstStep, Making, NoPoint
  <2>2. CASE MultiRefused(t) \/ MultiFails(t)
    BY <1>1, <1>3, <2>2 DEF IInv, Types, Phase, MultiRefused, MultiFails, Goto, FirstStep, Making, NoPoint
  <2>3. CASE SetBpf(t)
    BY <1>1, <1>3, <2>3 DEF IInv, Types, Phase, SetBpf, Goto, Making
  <2> QED
    BY <2>1, <2>2, <2>3
<1>6. Attached(t)'
  BY <1>1, <1>3 DEF IInv, Types, Phase, Attach, MultiRefused, MultiFails, SetBpf, Goto, FirstStep, Making,
     Attached, Runs
<1>7. Moved(t, [i \in Places(t) |-> i], 0, 0, 0)
  BY <1>1, <1>4 DEF IInv, Types, Moved, Same
<1>8. FdsKept(t) /\ EventsKept(t)
  <2>1. FdsKept(t)
    BY <1>1, <1>4 DEF FdsKept
  <2>2. ASSUME NEW n \in tracefs, NEW i \in Places(t), At(t, i).event = n, i = 0
        PROVE  pc'[t] \notin {"name", "write"}
    BY <1>4, <2>2 DEF IInv, Types, At, NoPoint, Names
  <2> QED
    BY <1>1, <1>4, <2>1, <2>2 DEF EventsKept
<1>9. \A i \in Places(t)' : Holds(t, At(t, i))'
  BY <1>1, <1>4 DEF IInv, PointsHold, Holds
<1> QED
  BY <1>1, <1>2, <1>5, <1>6, <1>7, <1>8, <1>9, LocalStep

\* The kernel makes one link for all points.
LEMMA AttachMultiStep ==
  ASSUME IInv, NEW t \in Threads, AttachMulti(t)
  PROVE  IInv'
<1> DEFINE point == [event |-> 0, fd |-> NewFd]
<1>1. /\ NewFd \in Fds /\ fds[NewFd] = Closed /\ NewFd # 0
      /\ \A u \in Threads : \A i \in Places(u) : At(u, i).fd # NewFd
  BY NewFdUnused DEF IInv, AttachMulti
<1>2. point \in Point /\ point.fd = NewFd /\ point.event = 0
  BY <1>1 DEF Point, Fds
<1>3. /\ pc[t] = "multi" /\ pc'[t] = "idle" /\ vec[t] = <<>> /\ cur[t] = NoPoint
      /\ link'[t] = <<point>> /\ Len(link'[t]) = 1 /\ link'[t][1] = point
      /\ fds'[NewFd] = Opened(0, t, want[t]) /\ \A f \in Fds : f # NewFd => fds'[f] = fds[f]
      /\ UNCHANGED <<kernel, multi, tracefs, foreign, index, want, cur, vec, drops, leftover>>
      /\ \A u \in Threads : u # t => Same(u)
  BY <1>1 DEF IInv, Types, AttachMulti, Goto, Phase, Making, Same
<1> HIDE DEF point
<1>4. Types' /\ ModeIsRight'
  <2>1. Opened(0, t, want[t]) \in [event : 0 .. MaxNames, of : Threads \union {Nobody},
                                   points : 0 .. MaxPoints]
    BY DEF IInv, Types, Opened
  <2>2. link' \in [Threads -> Seq(Point)]
    BY <1>2 DEF IInv, Types, AttachMulti, point
  <2>3. fds' \in [Fds -> [event : 0 .. MaxNames, of : Threads \union {Nobody},
                          points : 0 .. MaxPoints]]
    BY <2>1 DEF IInv, Types, AttachMulti
  <2>4. Types'
    BY <1>3, <2>2, <2>3 DEF IInv, Types, AttachMulti, Goto
  <2> QED
    <3>1. multi[t] = TRUE /\ mode'[t] = "multi"
      BY DEF IInv, Types, AttachMulti
    <3>2. \A u \in Threads : u # t => mode'[u] = mode[u]
      BY DEF IInv, Types, AttachMulti
    <3>3. \A u \in Threads : mode'[u] # "unknown" => (mode'[u] = "multi") = multi[u]
      <4>1. \A u \in Threads : mode[u] # "unknown" => (mode[u] = "multi") = multi[u]
        BY DEF IInv, ModeIsRight
      <4>2. multi[t] = TRUE /\ mode'[t] = "multi"
        BY <3>1
      <4> QED
        BY <3>2, <4>1, <4>2, Zenon
    <3> QED
      BY <1>3, <2>4, <3>3, Zenon DEF ModeIsRight
<1>5. /\ Places(t) = {0} /\ At(t, 0) = NoPoint
      /\ Places(t)' = {0, 1} /\ At(t, 0)' = NoPoint /\ At(t, 1)' = point
  <2>1. Points(t) = <<>> /\ Points(t)' = <<point>>
    BY <1>3 DEF Points
  <2> QED
    BY <1>3, <2>1 DEF Places, At
<1>6. Phase(t)'
  BY <1>3 DEF IInv, Phase, Making
<1>7. Attached(t)'
  BY <1>1, <1>2, <1>3 DEF Attached, Runs, Opened, Making
<1>8. Moved(t, [i \in {0, 1} |-> 0], 1, 0, NewFd)
  BY <1>1, <1>2, <1>3, <1>5 DEF IInv, Types, Moved, NoPoint
<1>9. FdsKept(t) /\ EventsKept(t)
  BY <1>1, <1>2, <1>3, <1>5 DEF IInv, Types, FdsKept, EventsKept, NoPoint, Names
<1>10. \A i \in Places(t)' : Holds(t, At(t, i))'
  BY <1>2, <1>3, <1>5 DEF Holds, Opened, NoPoint
<1>11. \A d \in Fds : fds[d].of \notin {t, Nobody} => fds'[d] = fds[d]
  BY <1>1, <1>3 DEF Closed
<1>12. NewFd \in Nat
  BY <1>1 DEF Fds
<1> QED
  BY <1>3, <1>4, <1>6, <1>7, <1>8, <1>9, <1>10, <1>11, <1>12, LocalStep

\* While a thread makes its points, those made are in vec.
LEMMA MakingPlaces ==
  ASSUME Types, NEW t \in Threads, pc[t] \in Making
  PROVE  /\ vec[t] \in Seq(Point) /\ Len(vec[t]) \in Nat
         /\ Places(t) = 0 .. Len(vec[t]) /\ At(t, 0) = cur[t]
         /\ \A i \in 1 .. Len(vec[t]) : At(t, i) = vec[t][i] /\ vec[t][i] \in Point
BY DEF Types, Making, Points, Places, At

LEMMA TakeNameStep ==
  ASSUME IInv, NEW t \in Threads, TakeName(t)
  PROVE  IInv'
<1> DEFINE point == [event |-> index + 1, fd |-> 0]
<1>1. /\ pc[t] = "name" /\ pc'[t] = "write" /\ cur[t] = NoPoint /\ cur'[t] = point
      /\ index' = index + 1 /\ index + 1 \in 1 .. MaxNames /\ index \in Nat
      /\ UNCHANGED <<kernel, multi, tracefs, foreign, fds, mode, want, vec, link, drops, leftover>>
      /\ \A u \in Threads : u # t => Same(u)
  BY DEF IInv, Types, TakeName, Goto, Phase, Same, kernelVars
<1>2. point \in Point /\ point.fd = 0 /\ point.event = index + 1
  BY <1>1 DEF Point
<1> HIDE DEF point
<1>3. Types' /\ ModeIsRight'
  <2>1. cur' \in [Threads -> Point]
    BY <1>1, <1>2 DEF IInv, Types, TakeName, point
  <2> QED
    BY <1>1, <2>1, SMTT(30) DEF IInv, Types, TakeName, Goto, Making, ModeIsRight
<1>4. /\ Places(t)' = Places(t) /\ Places(t) = 0 .. Len(vec[t]) /\ Len(vec[t]) \in Nat
      /\ At(t, 0) = NoPoint /\ At(t, 0)' = point
      /\ \A i \in Places(t) : i # 0 => At(t, i)' = At(t, i)
  BY <1>1, MakingPlaces DEF IInv, Points, Places, At, Making
<1>5. Phase(t)'
  BY <1>1, <1>2 DEF IInv, Phase, Making
<1>6. Attached(t)'
  BY <1>1 DEF IInv, Attached, Making, Runs
<1>7. Moved(t, [i \in Places(t) |-> i], 0, index + 1, 0)
  BY <1>1, <1>2, <1>4 DEF Moved
<1>8. FdsKept(t) /\ EventsKept(t)
  <2>1. FdsKept(t)
    BY <1>1, <1>2, <1>4 DEF FdsKept, NoPoint, Fds
  <2>2. At(t, 0).event \notin tracefs
    BY <1>4 DEF IInv, Types, NoPoint, Names
  <2> QED
    BY <1>1, <1>4, <2>1, <2>2 DEF EventsKept
<1>9. \A i \in Places(t)' : Holds(t, At(t, i))'
  BY <1>1, <1>2, <1>4 DEF IInv, PointsHold, Holds
<1> QED
  BY <1>1, <1>3, <1>5, <1>6, <1>7, <1>8, <1>9, LocalStep

LEMMA WriteEventStep ==
  ASSUME IInv, NEW t \in Threads, WriteEvent(t)
  PROVE  IInv'
<1>1. /\ pc[t] = "write" /\ pc'[t] = "open" /\ cur[t].event # 0 /\ cur[t] \in Point
      /\ tracefs' = tracefs \union {cur[t].event} /\ leftover' = leftover \ {cur[t].event}
      /\ UNCHANGED <<kernel, multi, foreign, fds, index, mode, want, cur, vec, link, drops>>
      /\ \A u \in Threads : u # t => Same(u)
  BY DEF IInv, Types, WriteEvent, Goto, Phase, Same
<1>2. Types' /\ ModeIsRight'
  <2>1. cur[t].event \in Names
    BY <1>1 DEF Point, Names
  <2>2. tracefs' \subseteq Names /\ leftover' \subseteq Names
    BY <1>1, <2>1 DEF IInv, Types
  <2> QED
    BY <1>1, <2>2 DEF IInv, Types, WriteEvent, Goto, Making, ModeIsRight
<1>3. /\ Places(t)' = Places(t) /\ Places(t) = 0 .. Len(vec[t]) /\ Len(vec[t]) \in Nat
      /\ At(t, 0) = cur[t]
      /\ \A i \in Places(t) : At(t, i)' = At(t, i)
  BY <1>1, MakingPlaces DEF IInv, Points, Places, At, Making
<1>4. Phase(t)'
  BY <1>1 DEF IInv, Phase, Making
<1>5. Attached(t)'
  BY <1>1 DEF IInv, Attached, Making, Runs
<1>6. Moved(t, [i \in Places(t) |-> i], 0, 0, 0)
  BY <1>1, <1>3 DEF IInv, Types, Moved
<1>7. FdsKept(t) /\ EventsKept(t)
  BY <1>1, <1>3 DEF IInv, FdsKept, EventsKept
<1>8. \A i \in Places(t)' : Holds(t, At(t, i))'
  BY <1>1, <1>3 DEF IInv, PointsHold, Holds
<1> QED
  BY <1>1, <1>2, <1>4, <1>5, <1>6, <1>7, <1>8, LocalStep

LEMMA OpenPerfStep ==
  ASSUME IInv, NEW t \in Threads, OpenPerf(t)
  PROVE  IInv'
<1> DEFINE point == [event |-> cur[t].event, fd |-> NewFd]
<1>1. /\ NewFd \in Fds /\ NewFd \in Nat /\ fds[NewFd] = Closed /\ NewFd # 0
      /\ \A u \in Threads : \A i \in Places(u) : At(u, i).fd # NewFd
  BY NewFdUnused DEF IInv, OpenPerf, Fds
<1>2. /\ cur[t] \in Point /\ point \in Point
      /\ point.fd = NewFd /\ point.event = cur[t].event
  BY <1>1 DEF IInv, Types, Point, Fds
<1>3. /\ pc[t] = "open" /\ pc'[t] = IF kernel = "link" THEN "link" ELSE "setbpf"
      /\ cur[t].fd = 0 /\ cur'[t] = point
      /\ fds'[NewFd] = Opened(cur[t].event, t, 0) /\ \A f \in Fds : f # NewFd => fds'[f] = fds[f]
      /\ UNCHANGED <<kernel, multi, tracefs, foreign, index, mode, want, vec, link, drops, leftover>>
      /\ \A u \in Threads : u # t => Same(u)
  BY <1>1, <1>2 DEF IInv, Types, OpenPerf, Goto, Phase, Same, Point
<1> HIDE DEF point
<1>4. Types' /\ ModeIsRight'
  <2>1. Opened(cur[t].event, t, 0) \in [event : 0 .. MaxNames, of : Threads \union {Nobody},
                                        points : 0 .. MaxPoints]
    BY <1>2 DEF IInv, Types, Opened, Point
  <2>2. fds' \in [Fds -> [event : 0 .. MaxNames, of : Threads \union {Nobody},
                          points : 0 .. MaxPoints]]
    BY <2>1 DEF IInv, Types, OpenPerf
  <2>3. cur' \in [Threads -> Point]
    BY <1>2, <1>3 DEF IInv, Types, OpenPerf
  <2> QED
    BY <1>3, <2>2, <2>3 DEF IInv, Types, OpenPerf, Goto, Making, ModeIsRight
<1>5. /\ Places(t)' = Places(t) /\ Places(t) = 0 .. Len(vec[t]) /\ Len(vec[t]) \in Nat
      /\ At(t, 0) = cur[t] /\ At(t, 0)' = point
      /\ \A i \in Places(t) : i # 0 => At(t, i)' = At(t, i)
      /\ \A i \in 1 .. Len(vec[t]) : At(t, i) = vec[t][i] /\ vec[t][i] \in Point
  BY <1>3, MakingPlaces DEF IInv, Points, Places, At, Making
<1>6. Phase(t)'
  BY <1>1, <1>2, <1>3 DEF IInv, Phase, Making
<1>7. Attached(t)'
  <2>1. \A i \in 1 .. Len(vec[t]) : Runs(vec[t][i], 1) /\ vec[t][i].fd # NewFd /\ vec[t][i].fd \in 0 .. MaxFd
    BY <1>1, <1>3, <1>5 DEF IInv, Attached, Making, Point
  <2> QED
    BY <1>3, <2>1 DEF Attached, Making, Runs, Fds
<1>8. Moved(t, [i \in Places(t) |-> i], 0, 0, NewFd)
  BY <1>1, <1>2, <1>3, <1>5 DEF IInv, Types, Moved
<1>9. FdsKept(t) /\ EventsKept(t)
  <2>1. FdsKept(t)
    BY <1>1, <1>2, <1>3, <1>5 DEF FdsKept, Fds
  <2> QED
    BY <1>2, <1>3, <1>5, <2>1 DEF EventsKept
<1>10. \A i \in Places(t)' : Holds(t, At(t, i))'
  <2>1. \A i \in Places(t) : At(t, i).fd \in 0 .. MaxFd /\ At(t, i).fd # NewFd
    BY <1>1, PlaceTypes DEF IInv, Point
  <2> QED
    BY <1>1, <1>2, <1>3, <1>5, <2>1 DEF IInv, PointsHold, Holds, Opened, Fds
<1>11. \A d \in Fds : fds[d].of \notin {t, Nobody} => fds'[d] = fds[d]
  BY <1>1, <1>3 DEF Closed
<1> QED
  BY <1>1, <1>3, <1>4, <1>6, <1>7, <1>8, <1>9, <1>10, <1>11, LocalStep

\* A point that is done moves from place 0 to the end.
LEMMA PointDoneStep ==
  ASSUME IInv, NEW t \in Threads, pc[t] \in {"link", "enable"}, ~multi[t],
         NEW p \in Point, PointDone(t, p), UNCHANGED <<kernel, multi, want, drops>>,
         NEW n, n = Len(vec[t])
  PROVE  /\ cur' \in [Threads -> Point] /\ vec' \in [Threads -> Seq(Point)]
         /\ link' \in [Threads -> Seq(Point)]
         /\ mode' \in [Threads -> {"single", "multi", "unknown"}]
         /\ pc' \in [Threads -> {"idle", "multi", "drop"} \union Making]
         /\ ModeIsRight' /\ Phase(t)'
         /\ \A u \in Threads : u # t => Same(u)
         /\ pc'[t] \in {"idle", "name", "open"}
         /\ Points(t)' = Append(vec[t], p)
         /\ Places(t)' = 0 .. n + 1
         /\ At(t, 0)' = NoPoint /\ At(t, n + 1)' = p
         /\ \A i \in 1 .. n : At(t, i)' = At(t, i)
<1> DEFINE points == Append(vec[t], p)
<1>1. /\ vec[t] \in Seq(Point) /\ n = Len(vec[t]) /\ n \in Nat /\ n < want[t]
      /\ want[t] \in 0 .. MaxPoints /\ link[t] = <<>> /\ drops[t] = <<>>
      /\ \A i \in 1 .. n : At(t, i) = vec[t][i]
  BY MakingPlaces DEF IInv, Types, Phase, Making
<1>2. /\ points \in Seq(Point) /\ Len(points) = n + 1
      /\ points[n + 1] = p
      /\ \A i \in 1 .. n : points[i] = vec[t][i]
  BY <1>1
<1>3. points # <<>>
  <2>1. Len(points) # 0
    BY <1>1, <1>2
  <2> QED
    BY <2>1
<1>4. /\ cur' = [cur EXCEPT ![t] = NoPoint]
      /\ \/ /\ Len(points) = want[t] /\ pc' = [pc EXCEPT ![t] = "idle"]
            /\ link' = [link EXCEPT ![t] = points] /\ vec' = [vec EXCEPT ![t] = <<>>]
            /\ mode' = [mode EXCEPT ![t] = "single"]
         \/ /\ Len(points) # want[t] /\ pc' = [pc EXCEPT ![t] = FirstStep]
            /\ vec' = [vec EXCEPT ![t] = points] /\ UNCHANGED <<link, mode>>
  BY DEF PointDone, Goto
<1> HIDE DEF points
<1>5. NoPoint \in Point
  BY DEF NoPoint, Point
<1>6. /\ cur' \in [Threads -> Point] /\ vec' \in [Threads -> Seq(Point)]
      /\ link' \in [Threads -> Seq(Point)]
      /\ mode' \in [Threads -> {"single", "multi", "unknown"}]
      /\ pc' \in [Threads -> {"idle", "multi", "drop"} \union Making]
  <2>1. FirstStep \in Making
    BY DEF FirstStep, Making
  <2>2. cur' \in [Threads -> Point]
    BY <1>4, <1>5 DEF IInv, Types
  <2>3. vec' \in [Threads -> Seq(Point)] /\ link' \in [Threads -> Seq(Point)]
    <3>1. <<>> \in Seq(Point) /\ vec \in [Threads -> Seq(Point)] /\ link \in [Threads -> Seq(Point)]
      BY DEF IInv, Types
    <3>2. vec' \in [Threads -> Seq(Point)]
      BY <1>2, <1>4, <3>1
    <3>3. link' \in [Threads -> Seq(Point)]
      BY <1>2, <1>4, <3>1
    <3> QED
      BY <3>2, <3>3
  <2>4. pc' \in [Threads -> {"idle", "multi", "drop"} \union Making]
    BY <1>4, <2>1, ZenonT(40) DEF IInv, Types
  <2>5. mode' \in [Threads -> {"single", "multi", "unknown"}]
    <3>1. mode \in [Threads -> {"single", "multi", "unknown"}]
      BY DEF IInv, Types
    <3> QED
      BY <1>4, <3>1
  <2> QED
    BY <2>2, <2>3, <2>4, <2>5
<1>7. \A u \in Threads : u # t => Same(u) /\ mode'[u] = mode[u]
  BY <1>4 DEF IInv, Types, Same
<1>8. ModeIsRight'
  <2>1. multi[t] = FALSE /\ mode'[t] \in {mode[t], "single"}
    BY <1>4 DEF IInv, Types
  <2> QED
    BY <1>7, <2>1 DEF IInv, ModeIsRight
<1>9. /\ pc'[t] \in {"idle", FirstStep} /\ cur'[t] = NoPoint
      /\ Points(t)' = points
      /\ pc'[t] = "idle" => vec'[t] = <<>>
      /\ pc'[t] # "idle" => Len(vec'[t]) < want[t] /\ link'[t] = <<>>
  BY <1>1, <1>2, <1>4 DEF IInv, Types, Points, FirstStep
<1>10. Phase(t)'
  BY <1>1, <1>9 DEF Phase, FirstStep, NoPoint, Making
<1>11. /\ Places(t)' = 0 .. n + 1
       /\ At(t, 0)' = NoPoint /\ At(t, n + 1)' = p
       /\ \A i \in 1 .. n : At(t, i)' = At(t, i)
  <2>1. n + 1 # 0 /\ \A i \in 1 .. n : i # 0
    BY <1>1
  <2> QED
    BY <1>1, <1>2, <1>9, <2>1 DEF Places, At
<1> QED
  BY <1>6, <1>7, <1>8, <1>9, <1>10, <1>11 DEF FirstStep, points

\* The program runs at the point that is done, and at those before it.
LEMMA PointDoneRuns ==
  ASSUME IInv, NEW t \in Threads, pc[t] \in {"link", "enable"},
         NEW p \in Point, PointDone(t, p), UNCHANGED want,
         p.fd # 0, fds'[p.fd].points = 1,
         \A i \in 1 .. Len(vec[t]) : fds'[vec[t][i].fd] = fds[vec[t][i].fd]
  PROVE  Attached(t)'
<1> DEFINE points == Append(vec[t], p)
<1>1. /\ vec[t] \in Seq(Point) /\ Len(vec[t]) \in Nat
      /\ \A i \in 1 .. Len(vec[t]) : vec[t][i].fd # 0 /\ fds'[vec[t][i].fd].points = 1
  <2>1. \A i \in 1 .. Len(vec[t]) : Runs(vec[t][i], 1)
    BY DEF IInv, Attached, Making
  <2>2. vec[t] \in Seq(Point) /\ Len(vec[t]) \in Nat
    BY DEF IInv, Types
  <2> QED
    BY <2>1, <2>2 DEF Runs
<1>2. Len(points) = Len(vec[t]) + 1
  BY <1>1
<1>3. \A i \in 1 .. Len(points) : points[i].fd # 0 /\ fds'[points[i].fd].points = 1
  BY <1>1, <1>2
<1>4. \/ Len(points) = want[t] /\ pc'[t] = "idle" /\ link'[t] = points
      \/ pc'[t] = FirstStep /\ vec'[t] = points
  BY DEF IInv, Types, PointDone, Goto
<1> HIDE DEF points
<1> QED
  BY <1>3, <1>4 DEF Attached, Runs, Making, FirstStep

LEMMA MovedToEnd ==
  ASSUME NEW t \in Threads, NEW n \in Nat, NEW f, NEW p,
         Places(t) = 0 .. n, Places(t)' = 0 .. n + 1,
         At(t, 0)' = NoPoint, At(t, n + 1)' = p, \A i \in 1 .. n : At(t, i)' = At(t, i),
         p.event \in {0, At(t, 0).event}, p.fd \in {f, At(t, 0).fd},
         \A u \in Threads : \A i \in Places(u) : f # 0 => At(u, i).fd # f,
         \A u \in Threads : u # t => Same(u), index <= index'
  PROVE  /\ Moved(t, [i \in 0 .. n + 1 |-> IF i = n + 1 THEN 0 ELSE i], n + 1, 0, f)
         /\ \A i \in Places(t)' : i = 0 \/ i \in 1 .. n \/ i = n + 1
         /\ \A i \in Places(t) : i = 0 \/ (i \in 1 .. n /\ i \in Places(t)')
         /\ n + 1 \in Places(t)' /\ n + 1 # 0
<1> DEFINE g == [i \in 0 .. n + 1 |-> IF i = n + 1 THEN 0 ELSE i]
<1>1. \A i \in Places(t)' : i = 0 \/ i \in 1 .. n \/ i = n + 1
  OBVIOUS
<1>2. g[0] = 0 /\ g[n + 1] = 0 /\ \A i \in 1 .. n : g[i] = i
  OBVIOUS
<1>3. 0 \in Places(t) /\ n + 1 # 0 /\ \A i \in 1 .. n : i # 0 /\ i \in Places(t)
  OBVIOUS
<1> HIDE DEF g
<1>4. \A i \in Places(t)' :
        /\ g[i] \in Places(t)
        /\ \/ At(t, i)'.event \in {0, At(t, g[i]).event}
           \/ i = n + 1 /\ At(t, i)'.event = 0
        /\ \/ At(t, i)'.fd \in {0, At(t, g[i]).fd}
           \/ i = n + 1 /\ At(t, i)'.fd = f
  BY <1>1, <1>2, <1>3 DEF NoPoint
<1>5. \A i, j \in Places(t)' :
        g[i] = g[j] => i = j \/ At(t, i)' = NoPoint \/ At(t, j)' = NoPoint
  BY <1>1, <1>2, <1>3
<1>6. Moved(t, g, n + 1, 0, f)
  BY <1>4, <1>5 DEF Moved
<1> QED
  BY <1>1, <1>6 DEF g

LEMMA CreateLinkStep ==
  ASSUME IInv, NEW t \in Threads, CreateLink(t)
  PROVE  IInv'
<1> DEFINE point == [event |-> 0, fd |-> NewFd]
<1>1. /\ NewFd \in Fds /\ NewFd \in Nat /\ fds[NewFd] = Closed /\ NewFd # 0
      /\ \A u \in Threads : \A i \in Places(u) : At(u, i).fd # NewFd
  BY NewFdUnused DEF IInv, CreateLink, Fds
<1>2. /\ point \in Point /\ point.fd = NewFd /\ point.event = 0
  BY <1>1 DEF Point, Fds
<1>3. /\ pc[t] = "link" /\ ~multi[t] /\ cur[t].fd \in Fds /\ cur[t].fd # NewFd /\ cur[t].event = 0
      /\ fds[cur[t].fd].of = t
      /\ PointDone(t, point)
      /\ UNCHANGED <<kernel, multi, tracefs, foreign, index, want, drops, leftover>>
  <2>1. pc[t] = "link" /\ ~multi[t] /\ cur[t] \in Point /\ cur[t].fd # 0 /\ cur[t].event = 0
    BY DEF IInv, Types, CreateLink, Phase, Making
  <2>2. 0 \in Places(t) /\ At(t, 0) = cur[t]
    BY <2>1, MakingPlaces DEF IInv, Making
  <2>3. cur[t].fd # NewFd /\ fds[cur[t].fd].of = t
    BY <1>1, <2>1, <2>2 DEF IInv, PointsHold, Holds
  <2> QED
    BY <2>1, <2>3 DEF CreateLink, Point, Fds
<1>4. /\ fds'[NewFd] = Opened(0, t, 1) /\ fds'[cur[t].fd] = Closed
      /\ \A f \in Fds : f # NewFd /\ f # cur[t].fd => fds'[f] = fds[f]
  BY <1>1, <1>3 DEF IInv, Types, CreateLink
<1>5. fds' \in [Fds -> [event : 0 .. MaxNames, of : Threads \union {Nobody},
                        points : 0 .. MaxPoints]]
  <2>1. MaxPoints \in Nat \ {0} /\ MaxNames \in Nat
    BY <1>3 DEF IInv, Types, Phase, Making
  <2>2. /\ Opened(0, t, 1) \in [event : 0 .. MaxNames, of : Threads \union {Nobody},
                                points : 0 .. MaxPoints]
        /\ Closed \in [event : 0 .. MaxNames, of : Threads \union {Nobody},
                       points : 0 .. MaxPoints]
    BY <2>1 DEF Opened, Closed
  <2> QED
    BY <2>2 DEF IInv, Types, CreateLink
<1> HIDE DEF point
<1> PICK n : n = Len(vec[t])
  OBVIOUS
<1>6. /\ Types' /\ ModeIsRight' /\ Phase(t)'
      /\ \A u \in Threads : u # t => Same(u)
      /\ pc'[t] \in {"idle", "name", "open"}
      /\ Places(t)' = 0 .. n + 1
      /\ At(t, 0)' = NoPoint /\ At(t, n + 1)' = point
      /\ \A i \in 1 .. n : At(t, i)' = At(t, i)
  BY <1>2, <1>3, <1>5, PointDoneStep DEF IInv, Types
<1>7. /\ n = Len(vec[t]) /\ n \in Nat /\ Places(t) = 0 .. n /\ At(t, 0) = cur[t]
      /\ \A i \in 1 .. n : At(t, i) = vec[t][i] /\ vec[t][i] \in Point
  BY <1>3, MakingPlaces DEF IInv, Making
<1>8. \A i \in 1 .. n :
        /\ vec[t][i].fd # NewFd /\ (vec[t][i].fd # 0 => vec[t][i].fd # cur[t].fd)
        /\ vec[t][i].fd \in {0} \union Fds
  <2>1. \A i \in 1 .. n :
          i \in Places(t) /\ 0 \in Places(t) /\ i # 0 /\ At(t, i) = vec[t][i]
    BY <1>7
  <2>2. \A i \in 1 .. n : Apart(vec[t][i], cur[t]) /\ vec[t][i].fd # NewFd
    BY <1>1, <1>7, <2>1 DEF IInv, PointsApart
  <2> QED
    BY <1>7, <2>2 DEF Apart, Point, Fds
<1>9. Attached(t)'
  <2>1. \A i \in 1 .. n : vec[t][i].fd # 0
    BY <1>3 DEF IInv, Attached, Runs, Making
  <2>2. \A i \in 1 .. n : fds'[vec[t][i].fd] = fds[vec[t][i].fd]
    BY <1>4, <1>8, <2>1
  <2> QED
    BY <1>1, <1>2, <1>3, <1>4, <2>2, PointDoneRuns DEF Opened
<1>10. /\ Moved(t, [i \in 0 .. n + 1 |-> IF i = n + 1 THEN 0 ELSE i],
                n + 1, 0, NewFd)
       /\ \A i \in Places(t)' : i = 0 \/ i \in 1 .. n \/ i = n + 1
       /\ \A i \in Places(t) : i = 0 \/ (i \in 1 .. n /\ i \in Places(t)')
       /\ n + 1 \in Places(t)' /\ n + 1 # 0
  <2>1. index <= index'
    BY <1>3 DEF IInv, Types
  <2> QED
    <3>1. point.event \in {0, At(t, 0).event} /\ point.fd \in {NewFd, At(t, 0).fd}
      BY <1>2
    <3>2. \A u \in Threads : \A i \in Places(u) : NewFd # 0 => At(u, i).fd # NewFd
      BY <1>1
    <3>3. /\ Places(t) = 0 .. n /\ Places(t)' = 0 .. n + 1 /\ n \in Nat
          /\ At(t, 0)' = NoPoint /\ At(t, n + 1)' = point
          /\ \A i \in 1 .. n : At(t, i)' = At(t, i)
          /\ \A u \in Threads : u # t => Same(u)
      BY <1>6, <1>7
    <3> QED
      BY <2>1, <3>1, <3>2, <3>3, MovedToEnd
<1>11. FdsKept(t) /\ EventsKept(t)
  <2>1. ASSUME NEW f \in Fds, fds'[f] # Closed
        PROVE  f = NewFd \/ (f # cur[t].fd /\ fds'[f] = fds[f])
    BY <1>4, <2>1
  <2>2. FdsKept(t)
    BY <1>2, <1>6, <1>7, <1>10, <2>1 DEF FdsKept
  <2>3. 0 \notin tracefs
    BY DEF IInv, Types, Names
  <2> QED
    BY <1>3, <1>6, <1>7, <1>10, <2>2, <2>3 DEF EventsKept
<1>12. \A i \in Places(t)' : Holds(t, At(t, i))'
  <2>1. ASSUME NEW i \in 1 .. n PROVE Holds(t, At(t, i))'
    <3>1. Holds(t, At(t, i)) /\ At(t, i)' = At(t, i) /\ At(t, i) = vec[t][i]
      BY <1>6, <1>7 DEF IInv, PointsHold
    <3> QED
      BY <1>4, <1>8, <3>1 DEF Holds
  <2>2. Holds(t, At(t, 0))' /\ Holds(t, At(t, n + 1))'
    BY <1>1, <1>2, <1>4, <1>6 DEF Holds, NoPoint, Opened
  <2> QED
    BY <1>10, <2>1, <2>2
<1>13. \A d \in Fds : fds[d].of \notin {t, Nobody} => fds'[d] = fds[d]
  <2>1. fds[NewFd].of = Nobody /\ fds[cur[t].fd].of = t
    BY <1>1, <1>3 DEF Closed
  <2> QED
    BY <1>4, <2>1
<1> QED
  BY <1>1, <1>3, <1>6, <1>9, <1>10, <1>11, <1>12, <1>13, LocalStep

LEMMA EnableStep ==
  ASSUME IInv, NEW t \in Threads, Enable(t)
  PROVE  IInv'
<1>1. /\ pc[t] = "enable" /\ ~multi[t] /\ cur[t] \in Point /\ cur[t].fd \in Fds
      /\ fds[cur[t].fd].of = t
      /\ PointDone(t, cur[t])
      /\ UNCHANGED <<kernel, multi, tracefs, foreign, index, want, drops, leftover>>
  <2>1. pc[t] = "enable" /\ ~multi[t] /\ cur[t] \in Point /\ cur[t].fd # 0
    BY DEF IInv, Types, Enable, Phase, Making
  <2>2. 0 \in Places(t) /\ At(t, 0) = cur[t]
    BY <2>1, MakingPlaces DEF IInv, Making
  <2>3. fds[cur[t].fd].of = t
    BY <2>1, <2>2 DEF IInv, PointsHold, Holds
  <2> QED
    BY <2>1, <2>3 DEF Enable, Point, Fds
<1>2. /\ fds'[cur[t].fd] = [fds[cur[t].fd] EXCEPT !.points = 1]
      /\ fds[cur[t].fd] \in [event : 0 .. MaxNames, of : Threads \union {Nobody}, points : 0 .. MaxPoints]
      /\ \A f \in Fds : f # cur[t].fd => fds'[f] = fds[f]
  BY <1>1 DEF IInv, Types, Enable
<1>3. /\ fds'[cur[t].fd].points = 1 /\ fds'[cur[t].fd].of = t
      /\ fds'[cur[t].fd].event = fds[cur[t].fd].event
  BY <1>1, <1>2
<1>4. fds' \in [Fds -> [event : 0 .. MaxNames, of : Threads \union {Nobody},
                        points : 0 .. MaxPoints]]
  <2>1. MaxPoints \in Nat \ {0}
    BY <1>1 DEF IInv, Types, Phase, Making
  <2>2. [fds[cur[t].fd] EXCEPT !.points = 1]
          \in [event : 0 .. MaxNames, of : Threads \union {Nobody}, points : 0 .. MaxPoints]
    BY <1>2, <2>1
  <2> QED
    BY <1>1, <2>2 DEF IInv, Types, Enable
<1> PICK n : n = Len(vec[t])
  OBVIOUS
<1>5. /\ Types' /\ ModeIsRight' /\ Phase(t)'
      /\ \A u \in Threads : u # t => Same(u)
      /\ pc'[t] \in {"idle", "name", "open"}
      /\ Places(t)' = 0 .. n + 1
      /\ At(t, 0)' = NoPoint /\ At(t, n + 1)' = cur[t]
      /\ \A i \in 1 .. n : At(t, i)' = At(t, i)
  BY <1>1, <1>4, PointDoneStep DEF IInv, Types
<1>6. /\ n = Len(vec[t]) /\ n \in Nat /\ Places(t) = 0 .. n /\ At(t, 0) = cur[t]
      /\ \A i \in 1 .. n : At(t, i) = vec[t][i] /\ vec[t][i] \in Point
  BY <1>1, MakingPlaces DEF IInv, Making
<1>7. \A i \in 1 .. n :
        /\ vec[t][i].fd # cur[t].fd
        /\ vec[t][i].fd # 0 => vec[t][i].fd \in Fds
  <2>1. \A i \in 1 .. n :
          i \in Places(t) /\ 0 \in Places(t) /\ i # 0 /\ At(t, i) = vec[t][i]
    BY <1>6
  <2>2. \A i \in 1 .. n : Apart(vec[t][i], cur[t])
    BY <1>6, <2>1 DEF IInv, PointsApart
  <2> QED
    BY <1>1, <1>6, <2>2 DEF Apart, Point, Fds
<1>9. Attached(t)'
  <2>1. \A i \in 1 .. n : vec[t][i].fd # 0
    BY <1>1 DEF IInv, Attached, Runs, Making
  <2>2. \A i \in 1 .. n : fds'[vec[t][i].fd] = fds[vec[t][i].fd]
    BY <1>2, <1>7, <2>1
  <2> QED
    BY <1>1, <1>3, <2>2, PointDoneRuns DEF Fds
<1>10. /\ Moved(t, [i \in 0 .. n + 1 |-> IF i = n + 1 THEN 0 ELSE i],
                n + 1, 0, 0)
       /\ \A i \in Places(t)' : i = 0 \/ i \in 1 .. n \/ i = n + 1
       /\ \A i \in Places(t) : i = 0 \/ (i \in 1 .. n /\ i \in Places(t)')
       /\ n + 1 \in Places(t)' /\ n + 1 # 0
  <2>1. index <= index'
    BY <1>1 DEF IInv, Types
  <2> QED
    BY <1>5, <1>6, <2>1, MovedToEnd
<1>11. FdsKept(t) /\ EventsKept(t)
  <2>1. \A f \in Fds : fds'[f] # Closed /\ f # cur[t].fd => fds[f] # Closed
    BY <1>2
  <2>2. FdsKept(t)
    BY <1>5, <1>6, <1>10, <2>1 DEF FdsKept
  <2> QED
    BY <1>1, <1>5, <1>6, <1>10, <2>2 DEF EventsKept
<1>12. \A i \in Places(t)' : Holds(t, At(t, i))'
  <2>1. ASSUME NEW i \in 1 .. n PROVE Holds(t, At(t, i))'
    <3>1. Holds(t, At(t, i)) /\ At(t, i)' = At(t, i) /\ At(t, i) = vec[t][i]
      BY <1>5, <1>6 DEF IInv, PointsHold
    <3> QED
      BY <1>2, <1>7, <3>1 DEF Holds
  <2>2. Holds(t, cur[t])
    BY <1>6 DEF IInv, PointsHold
  <2>3. Holds(t, At(t, 0))' /\ Holds(t, At(t, n + 1))'
    BY <1>3, <1>5, <2>2 DEF Holds, NoPoint
  <2> QED
    BY <1>10, <2>1, <2>3
<1>13. \A d \in Fds : fds[d].of \notin {t, Nobody} => fds'[d] = fds[d]
  BY <1>1, <1>2
<1> QED
  BY <1>1, <1>5, <1>9, <1>10, <1>11, <1>12, <1>13, LocalStep

-----------------------------------------------------------------------------
(* Failures, detach and drop *)

\* A thread that starts or goes on dropping points has those, and nothing else.
LEMMA DropAllStep ==
  ASSUME IInv, NEW t \in Threads, NEW s \in Seq(Point), DropAll(t, s),
         cur'[t] = NoPoint, vec'[t] = <<>>, link'[t] = <<>>,
         \A u \in Threads : u # t => cur'[u] = cur[u] /\ vec'[u] = vec[u] /\ link'[u] = link[u],
         UNCHANGED <<kernel, multi, want>>
  PROVE  /\ drops' \in [Threads -> Seq(Point)]
         /\ pc' \in [Threads -> {"idle", "multi", "drop"} \union Making]
         /\ Phase(t)' /\ Attached(t)'
         /\ \A u \in Threads : u # t => Same(u)
         /\ pc'[t] \notin {"name", "write"}
         /\ Points(t)' = s /\ Places(t)' = 0 .. Len(s)
         /\ At(t, 0)' = NoPoint /\ \A i \in 1 .. Len(s) : At(t, i)' = s[i]
<1>1. /\ drops' = [drops EXCEPT ![t] = s]
      /\ pc' = [pc EXCEPT ![t] = IF s = <<>> THEN "idle" ELSE "drop"]
  BY DEF DropAll, Goto
<1>2. drops'[t] = s /\ pc'[t] = IF s = <<>> THEN "idle" ELSE "drop"
  BY <1>1 DEF IInv, Types
<1>3. drops' \in [Threads -> Seq(Point)]
  BY <1>1 DEF IInv, Types
<1>4. pc' \in [Threads -> {"idle", "multi", "drop"} \union Making]
  BY <1>1 DEF IInv, Types
<1>5. Phase(t)' /\ Attached(t)'
  BY <1>2 DEF Phase, Attached, Making
<1>6. \A u \in Threads : u # t => Same(u)
  BY <1>1 DEF IInv, Types, Same
<1>7. Points(t)' = s
  BY <1>2 DEF Points
<1>8. /\ Places(t)' = 0 .. Len(s)
      /\ At(t, 0)' = NoPoint /\ \A i \in 1 .. Len(s) : At(t, i)' = s[i]
  BY <1>7 DEF Places, At
<1> QED
  BY <1>2, <1>3, <1>4, <1>5, <1>6, <1>7, <1>8

\* Nothing was made at the point where the attach failed.
LEMMA FailsBeforeMade ==
  ASSUME IInv, NEW t \in Threads, AttachFails(t),
         pc[t] \in {"name", "write"} \/ cur[t] = NoPoint
  PROVE  IInv'
<1>1. /\ pc[t] \in Making /\ DropAll(t, HalfMade(t) \o vec[t])
      /\ cur' = [cur EXCEPT ![t] = NoPoint] /\ vec' = [vec EXCEPT ![t] = <<>>]
      /\ UNCHANGED <<kernel, multi, tracefs, foreign, fds, index, mode, want, link, leftover>>
  BY DEF AttachFails, kernelVars, Making
<1>2. /\ cur'[t] = NoPoint /\ vec'[t] = <<>> /\ link'[t] = <<>>
      /\ \A u \in Threads : u # t => cur'[u] = cur[u] /\ vec'[u] = vec[u] /\ link'[u] = link[u]
      /\ cur[t].fd = 0
      /\ pc[t] \notin {"name", "write"} => cur[t].event = 0
  BY <1>1 DEF IInv, Types, Phase, NoPoint, Making
<1>3. HalfMade(t) \o vec[t] = vec[t]
  BY DEF HalfMade, IInv, Types
<1>4. PICK n : n = Len(vec[t])
  OBVIOUS
<1>5. /\ n \in Nat /\ Places(t) = 0 .. n /\ At(t, 0) = cur[t]
      /\ \A i \in 1 .. n : At(t, i) = vec[t][i]
  BY <1>1, <1>4, MakingPlaces DEF IInv
<1>6. /\ drops' \in [Threads -> Seq(Point)]
      /\ pc' \in [Threads -> {"idle", "multi", "drop"} \union Making]
      /\ Phase(t)' /\ Attached(t)'
      /\ \A u \in Threads : u # t => Same(u)
      /\ pc'[t] \notin {"name", "write"}
      /\ Places(t)' = 0 .. n /\ At(t, 0)' = NoPoint
      /\ \A i \in 1 .. n : At(t, i)' = At(t, i)
  BY <1>1, <1>2, <1>3, <1>4, <1>5, DropAllStep DEF IInv, Types
<1>7. Types' /\ ModeIsRight'
  <2>1. cur' \in [Threads -> Point] /\ vec' \in [Threads -> Seq(Point)]
    <3>1. NoPoint \in Point /\ <<>> \in Seq(Point)
      BY DEF NoPoint, Point
    <3> QED
      BY <1>1, <3>1 DEF IInv, Types
  <2> QED
    BY <1>1, <1>6, <2>1 DEF IInv, Types, ModeIsRight
<1>8. \A i \in 0 .. n : i = 0 \/ i \in 1 .. n
  BY <1>5
<1>9. Moved(t, [i \in 0 .. n |-> i], 0, 0, 0)
  <2>1. index <= index'
    BY <1>1 DEF IInv, Types
  <2> QED
    BY <1>5, <1>6, <1>8, <2>1 DEF Moved, NoPoint
<1>10. FdsKept(t) /\ EventsKept(t)
  <2>1. FdsKept(t)
    BY <1>1, <1>2, <1>5, <1>6, <1>8 DEF FdsKept, Fds
  <2>2. 0 \notin tracefs
    BY DEF IInv, Types, Names
  <2> QED
    BY <1>1, <1>2, <1>5, <1>6, <1>8, <2>1, <2>2 DEF EventsKept
<1>11. \A i \in Places(t)' : Holds(t, At(t, i))'
  <2>1. \A i \in Places(t) : Holds(t, At(t, i))
    BY DEF IInv, PointsHold
  <2> QED
    BY <1>1, <1>5, <1>6, <1>8, <2>1 DEF Holds, NoPoint
<1> QED
  BY <1>1, <1>6, <1>7, <1>9, <1>10, <1>11, LocalStep

\* The point that was being made is dropped first.
LEMMA FailsHalfMade ==
  ASSUME IInv, NEW t \in Threads, AttachFails(t),
         pc[t] \notin {"name", "write"}, cur[t] # NoPoint
  PROVE  IInv'
<1>1. /\ pc[t] \in Making /\ DropAll(t, HalfMade(t) \o vec[t])
      /\ cur' = [cur EXCEPT ![t] = NoPoint] /\ vec' = [vec EXCEPT ![t] = <<>>]
      /\ UNCHANGED <<kernel, multi, tracefs, foreign, fds, index, mode, want, link, leftover>>
  BY DEF AttachFails, kernelVars, Making
<1>2. /\ cur'[t] = NoPoint /\ vec'[t] = <<>> /\ link'[t] = <<>>
      /\ \A u \in Threads : u # t => cur'[u] = cur[u] /\ vec'[u] = vec[u] /\ link'[u] = link[u]
  BY <1>1 DEF IInv, Types, Phase, Making
<1> DEFINE s == <<cur[t]>> \o vec[t]
<1>3. PICK n : n = Len(vec[t])
  OBVIOUS
<1>4. /\ n \in Nat /\ Places(t) = 0 .. n /\ At(t, 0) = cur[t]
      /\ \A i \in 1 .. n : At(t, i) = vec[t][i]
  BY <1>1, <1>3, MakingPlaces DEF IInv
<1>5. /\ HalfMade(t) \o vec[t] = s /\ s \in Seq(Point) /\ Len(s) = n + 1
      /\ s[1] = cur[t] /\ \A i \in 1 .. n : s[i + 1] = vec[t][i]
  <2>1. cur[t] \in Point /\ vec[t] \in Seq(Point)
    BY DEF IInv, Types
  <2>2. <<cur[t]>> \in Seq(Point) /\ Len(<<cur[t]>>) = 1
    BY <2>1
  <2>3. s \in Seq(Point) /\ Len(s) = n + 1
    BY <1>3, <2>1, <2>2
  <2>4. s[1] = cur[t] /\ \A i \in 1 .. n : s[i + 1] = vec[t][i]
    BY <1>3, <1>4, <2>1, <2>2
  <2> QED
    BY <2>3, <2>4 DEF HalfMade
<1> HIDE DEF s
<1>6. /\ drops' \in [Threads -> Seq(Point)]
      /\ pc' \in [Threads -> {"idle", "multi", "drop"} \union Making]
      /\ Phase(t)' /\ Attached(t)'
      /\ \A u \in Threads : u # t => Same(u)
      /\ pc'[t] \notin {"name", "write"}
      /\ Places(t)' = 0 .. n + 1 /\ At(t, 0)' = NoPoint
      /\ \A i \in 1 .. n + 1 : At(t, i)' = s[i]
  BY <1>1, <1>2, <1>5, DropAllStep DEF IInv, Types
<1>7. \A i \in 0 .. n : i + 1 \in 1 .. n + 1 /\ At(t, i + 1)' = At(t, i)
  <2>1. ASSUME NEW i \in 0 .. n PROVE i + 1 \in 1 .. n + 1 /\ s[i + 1] = At(t, i)
    <3>1. CASE i = 0
      BY <1>4, <1>5, <3>1
    <3>2. CASE i # 0
      <4>1. i \in 1 .. n /\ i + 1 \in 1 .. n + 1
        BY <1>4, <3>2
      <4>2. s[i + 1] = vec[t][i] /\ At(t, i) = vec[t][i]
        BY <1>4, <1>5, <4>1
      <4> QED
        BY <4>1, <4>2
    <3> QED
      BY <3>1, <3>2
  <2> QED
    BY <1>4, <1>6, <2>1
<1>8. \A i \in 0 .. n + 1 : i = 0 \/ (i - 1 \in 0 .. n /\ i \in 1 .. n + 1 /\ At(t, i)' = At(t, i - 1))
  <2>1. \A i \in 1 .. n + 1 : i - 1 \in 0 .. n /\ (i - 1) + 1 = i
    BY <1>4
  <2>2. \A i \in 1 .. n + 1 : At(t, i)' = At(t, i - 1)
    BY <1>7, <2>1
  <2> QED
    BY <1>4, <2>1, <2>2
<1>9. Types' /\ ModeIsRight'
  <2>1. cur' \in [Threads -> Point] /\ vec' \in [Threads -> Seq(Point)]
    <3>1. NoPoint \in Point /\ <<>> \in Seq(Point)
      BY DEF NoPoint, Point
    <3> QED
      BY <1>1, <3>1 DEF IInv, Types
  <2> QED
    BY <1>1, <1>6, <2>1 DEF IInv, Types, ModeIsRight
<1>10. Moved(t, [i \in 0 .. n + 1 |-> IF i = 0 THEN 0 ELSE i - 1], 0, 0, 0)
  <2> DEFINE g == [i \in 0 .. n + 1 |-> IF i = 0 THEN 0 ELSE i - 1]
  <2>1. index <= index'
    BY <1>1 DEF IInv, Types
  <2>2. \A i \in 0 .. n + 1 : g[i] \in 0 .. n /\ (i = 0 \/ At(t, i)' = At(t, g[i]))
    BY <1>4, <1>8
  <2>3. \A i, j \in 0 .. n + 1 : g[i] = g[j] => i = j \/ i = 0 \/ j = 0
    BY <1>4
  <2> HIDE DEF g
  <2>4. Moved(t, g, 0, 0, 0)
    BY <1>4, <1>6, <2>1, <2>2, <2>3, SMTT(30) DEF Moved, NoPoint
  <2> QED
    BY <2>4 DEF g
<1>11. FdsKept(t) /\ EventsKept(t)
  <2>1. \A i \in Places(t) : i + 1 \in Places(t)' /\ i + 1 # 0 /\ At(t, i + 1)' = At(t, i)
    BY <1>4, <1>6, <1>7
  <2>2. FdsKept(t)
    BY <1>1, <2>1 DEF FdsKept
  <2> QED
    BY <1>1, <2>1, <2>2 DEF EventsKept
<1>12. \A i \in Places(t)' : Holds(t, At(t, i))'
  <2>1. \A i \in Places(t) : Holds(t, At(t, i))
    BY DEF IInv, PointsHold
  <2>2. ASSUME NEW i \in 0 .. n + 1 PROVE Holds(t, At(t, i))'
    <3>1. CASE i = 0
      BY <1>6, <3>1 DEF Holds, NoPoint
    <3>2. CASE i # 0
      <4>1. At(t, i)' = At(t, i - 1) /\ Holds(t, At(t, i - 1))
        BY <1>4, <1>8, <2>1, <3>2
      <4> QED
        BY <1>1, <4>1 DEF Holds
    <3> QED
      BY <3>1, <3>2
  <2> QED
    BY <1>6, <2>2
<1> QED
  BY <1>1, <1>6, <1>9, <1>10, <1>11, <1>12, LocalStep

LEMMA DetachStep ==
  ASSUME IInv, NEW t \in Threads, Detach(t)
  PROVE  IInv'
<1>1. /\ pc[t] = "idle" /\ DropAll(t, link[t]) /\ link' = [link EXCEPT ![t] = <<>>]
      /\ UNCHANGED <<kernel, multi, tracefs, foreign, fds, index, mode, want, cur, vec, leftover>>
  BY DEF Detach, kernelVars
<1>2. /\ cur'[t] = NoPoint /\ vec'[t] = <<>> /\ link'[t] = <<>> /\ cur[t] = NoPoint
      /\ \A u \in Threads : u # t => cur'[u] = cur[u] /\ vec'[u] = vec[u] /\ link'[u] = link[u]
      /\ link[t] \in Seq(Point)
  BY <1>1 DEF IInv, Types, Phase, Making
<1>3. PICK n : n = Len(link[t])
  OBVIOUS
<1>4. /\ n \in Nat /\ Places(t) = 0 .. n /\ At(t, 0) = NoPoint
      /\ \A i \in 1 .. n : At(t, i) = link[t][i]
  BY <1>1, <1>2, <1>3 DEF Places, At, Points
<1>5. /\ drops' \in [Threads -> Seq(Point)]
      /\ pc' \in [Threads -> {"idle", "multi", "drop"} \union Making]
      /\ Phase(t)' /\ Attached(t)'
      /\ \A u \in Threads : u # t => Same(u)
      /\ pc'[t] \notin {"name", "write"}
      /\ Places(t)' = 0 .. n /\ At(t, 0)' = NoPoint
      /\ \A i \in 1 .. n : At(t, i)' = At(t, i)
  <2>1. PICK s : s = link[t]
    OBVIOUS
  <2>2. s \in Seq(Point) /\ DropAll(t, s) /\ Len(s) = n
    BY <1>1, <1>2, <1>3, <2>1
  <2>3. /\ drops' \in [Threads -> Seq(Point)]
        /\ pc' \in [Threads -> {"idle", "multi", "drop"} \union Making]
        /\ Phase(t)' /\ Attached(t)'
        /\ \A u \in Threads : u # t => Same(u)
        /\ pc'[t] \notin {"name", "write"}
        /\ Places(t)' = 0 .. n /\ At(t, 0)' = NoPoint
        /\ \A i \in 1 .. n : At(t, i)' = s[i]
    BY <1>1, <1>2, <2>2, DropAllStep
  <2> QED
    BY <1>4, <2>1, <2>3
<1>6. Types' /\ ModeIsRight'
  <2>1. link' \in [Threads -> Seq(Point)]
    BY <1>1 DEF IInv, Types
  <2> QED
    BY <1>1, <1>5, <2>1 DEF IInv, Types, ModeIsRight
<1>7. \A i \in 0 .. n : At(t, i)' = At(t, i)
  BY <1>4, <1>5
<1>8. Moved(t, [i \in 0 .. n |-> i], 0, 0, 0)
  <2>1. index <= index'
    BY <1>1 DEF IInv, Types
  <2> QED
    BY <1>4, <1>5, <1>7, <2>1 DEF Moved
<1>9. FdsKept(t) /\ EventsKept(t)
  <2>1. FdsKept(t)
    BY <1>1, <1>4, <1>5, <1>7 DEF FdsKept
  <2> QED
    BY <1>1, <1>4, <1>5, <1>7, <2>1 DEF EventsKept
<1>10. \A i \in Places(t)' : Holds(t, At(t, i))'
  <2>1. \A i \in Places(t) : Holds(t, At(t, i))
    BY DEF IInv, PointsHold
  <2> QED
    BY <1>1, <1>4, <1>5, <1>7, <2>1 DEF Holds
<1> QED
  BY <1>1, <1>5, <1>6, <1>8, <1>9, <1>10, LocalStep

\* The points of a thread that is dropping them.
LEMMA DropPlaces ==
  ASSUME IInv, NEW t \in Threads, pc[t] = "drop"
  PROVE  \E n \in Nat :
           /\ Len(drops[t]) = n + 1 /\ Places(t) = 0 .. n + 1
           /\ At(t, 0) = NoPoint /\ At(t, 1) = Head(drops[t]) /\ Head(drops[t]) \in Point
           /\ \A i \in 1 .. n + 1 : At(t, i) = drops[t][i]
           /\ cur[t] = NoPoint /\ vec[t] = <<>> /\ link[t] = <<>>
<1>1. /\ cur[t] = NoPoint /\ vec[t] = <<>> /\ link[t] = <<>>
      /\ drops[t] \in Seq(Point) /\ drops[t] # <<>> /\ Points(t) = drops[t]
  BY DEF IInv, Types, Phase, Making, Points
<1>2. /\ Len(drops[t]) \in Nat /\ Len(drops[t]) # 0
      /\ Head(drops[t]) = drops[t][1] /\ Head(drops[t]) \in Point
  BY <1>1
<1>3. PICK n \in Nat : Len(drops[t]) = n + 1
  <2>1. Len(drops[t]) - 1 \in Nat /\ Len(drops[t]) = (Len(drops[t]) - 1) + 1
    BY <1>2
  <2> QED
    BY <2>1
<1>4. 1 \in 1 .. n + 1 /\ \A i \in 1 .. n + 1 : i # 0
  OBVIOUS
<1> QED
  BY <1>1, <1>2, <1>3, <1>4 DEF Places, At

\* The point at the head of the list is gone, and the others move up.
LEMMA DroppedStep ==
  ASSUME IInv, NEW t \in Threads, pc[t] = "drop", Dropped(t),
         UNCHANGED <<kernel, multi, index, want, cur, vec, link>>,
         NEW n \in Nat, Len(drops[t]) = n + 1
  PROVE  /\ drops' \in [Threads -> Seq(Point)]
         /\ pc' \in [Threads -> {"idle", "multi", "drop"} \union Making]
         /\ Phase(t)' /\ Attached(t)'
         /\ \A u \in Threads : u # t => Same(u)
         /\ pc'[t] \notin {"name", "write"}
         /\ Places(t)' = 0 .. n /\ At(t, 0)' = NoPoint
         /\ \A i \in Places(t)' : i = 0 \/ (i + 1 \in Places(t) /\ i + 1 # 1 /\ At(t, i)' = At(t, i + 1))
         /\ \A i \in Places(t) : i = 0 \/ i = 1 \/
              (i - 1 \in Places(t)' /\ i - 1 # 0 /\ At(t, i - 1)' = At(t, i))
         /\ Moved(t, [i \in 0 .. n |-> IF i = 0 THEN 0 ELSE i + 1], 0, 0, 0)
<1>1. /\ Places(t) = 0 .. n + 1 /\ At(t, 0) = NoPoint
      /\ \A i \in 1 .. n + 1 : At(t, i) = drops[t][i]
      /\ cur[t] = NoPoint /\ vec[t] = <<>> /\ link[t] = <<>>
  BY DropPlaces
<1>2. PICK s : s = Tail(drops[t])
  OBVIOUS
<1>3. /\ s \in Seq(Point) /\ Len(s) = n /\ \A i \in 1 .. n : s[i] = drops[t][i + 1]
      /\ DropAll(t, s)
  <2>1. drops[t] \in Seq(Point) /\ drops[t] # <<>>
    BY DEF IInv, Types, Phase
  <2>2. s \in Seq(Point) /\ Len(s) = n /\ \A i \in 1 .. n : s[i] = drops[t][i + 1]
    BY <1>2, <2>1
  <2> QED
    BY <1>2, <2>2 DEF Dropped
<1>4. /\ drops' \in [Threads -> Seq(Point)]
      /\ pc' \in [Threads -> {"idle", "multi", "drop"} \union Making]
      /\ Phase(t)' /\ Attached(t)'
      /\ \A u \in Threads : u # t => Same(u)
      /\ pc'[t] \notin {"name", "write"}
      /\ Places(t)' = 0 .. n /\ At(t, 0)' = NoPoint
      /\ \A i \in 1 .. n : At(t, i)' = s[i]
  BY <1>1, <1>3, DropAllStep
<1>5. \A i \in 1 .. n : i + 1 \in 1 .. n + 1 /\ i + 1 # 1 /\ At(t, i)' = At(t, i + 1)
  <2>1. \A i \in 1 .. n : i + 1 \in 1 .. n + 1 /\ i + 1 # 1
    OBVIOUS
  <2>2. \A i \in 1 .. n : drops[t][i + 1] = At(t, i + 1)
    BY <1>1, <2>1
  <2>3. \A i \in 1 .. n : At(t, i)' = drops[t][i + 1]
    BY <1>3, <1>4
  <2> QED
    BY <2>1, <2>2, <2>3
<1>6. \A i \in Places(t)' : i = 0 \/ i \in 1 .. n
  BY <1>4
<1>7. \A i \in Places(t)' :
        i = 0 \/ (i + 1 \in Places(t) /\ i + 1 # 1 /\ At(t, i)' = At(t, i + 1))
  <2>1. \A i \in 1 .. n + 1 : i \in Places(t)
    BY <1>1
  <2> QED
    BY <1>5, <1>6, <2>1
<1>8. \A i \in Places(t) :
        i = 0 \/ i = 1 \/ (i - 1 \in Places(t)' /\ i - 1 # 0 /\ At(t, i - 1)' = At(t, i))
  <2>1. SUFFICES ASSUME NEW i \in Places(t), i # 0, i # 1
                 PROVE  i - 1 \in Places(t)' /\ i - 1 # 0 /\ At(t, i - 1)' = At(t, i)
    OBVIOUS
  <2>2. i - 1 \in 1 .. n /\ (i - 1) + 1 = i
    BY <1>1, <2>1
  <2>3. At(t, i - 1)' = At(t, i)
    BY <1>5, <2>2
  <2> QED
    BY <1>4, <2>2, <2>3
<1>9. Moved(t, [i \in 0 .. n |-> IF i = 0 THEN 0 ELSE i + 1], 0, 0, 0)
  <2> DEFINE g == [i \in 0 .. n |-> IF i = 0 THEN 0 ELSE i + 1]
  <2>1. index <= index'
    BY DEF IInv, Types
  <2>2. \A i \in 0 .. n : g[i] \in 0 .. n + 1 /\ (i = 0 \/ At(t, i)' = At(t, g[i]))
    <3>1. \A i \in 0 .. n : g[i] \in 0 .. n + 1
      OBVIOUS
    <3>2. \A i \in 0 .. n : i = 0 \/ At(t, i)' = At(t, i + 1)
      BY <1>4, <1>7
    <3> QED
      BY <3>1, <3>2
  <2>3. \A i, j \in 0 .. n : g[i] = g[j] => i = j
    OBVIOUS
  <2> HIDE DEF g
  <2>4. Moved(t, g, 0, 0, 0)
    BY <1>1, <1>4, <2>1, <2>2, <2>3 DEF Moved, NoPoint
  <2> QED
    BY <2>4 DEF g
<1> QED
  BY <1>4, <1>7, <1>8, <1>9

\* The last field of a point is dropped.
LEMMA DropFdOnlyStep ==
  ASSUME IInv, NEW t \in Threads, DropFd(t), Head(drops[t]).event = 0
  PROVE  IInv'
<1>1. /\ pc[t] = "drop" /\ Head(drops[t]).fd # 0
      /\ fds' = [fds EXCEPT ![Head(drops[t]).fd] = Closed]
      /\ Dropped(t)
      /\ UNCHANGED <<kernel, multi, tracefs, foreign, index, mode, want, cur, vec, link, leftover>>
  BY DEF DropFd
<1>2. PICK n \in Nat : /\ Len(drops[t]) = n + 1 /\ Places(t) = 0 .. n + 1
                       /\ At(t, 0) = NoPoint /\ At(t, 1) = Head(drops[t])
                       /\ Head(drops[t]) \in Point
  BY <1>1, DropPlaces
<1>3. PICK d : d = Head(drops[t]).fd
  OBVIOUS
<1>4. 1 \in Places(t)
  BY <1>2
<1>5. d \in Fds /\ fds[d].of = t
  <2>1. d \in Fds
    BY <1>1, <1>2, <1>3 DEF Point, Fds
  <2> QED
    BY <1>1, <1>2, <1>3, <1>4, <2>1 DEF IInv, PointsHold, Holds
<1>6. fds'[d] = Closed /\ \A f \in Fds : f # d => fds'[f] = fds[f]
  BY <1>1, <1>3, <1>5 DEF IInv, Types
<1>7. /\ drops' \in [Threads -> Seq(Point)]
      /\ pc' \in [Threads -> {"idle", "multi", "drop"} \union Making]
      /\ Phase(t)' /\ Attached(t)'
      /\ \A u \in Threads : u # t => Same(u)
      /\ pc'[t] \notin {"name", "write"}
      /\ Places(t)' = 0 .. n /\ At(t, 0)' = NoPoint
      /\ \A i \in Places(t)' :
           i = 0 \/ (i + 1 \in Places(t) /\ i + 1 # 1 /\ At(t, i)' = At(t, i + 1))
      /\ \A i \in Places(t) :
           i = 0 \/ i = 1 \/ (i - 1 \in Places(t)' /\ i - 1 # 0 /\ At(t, i - 1)' = At(t, i))
      /\ Moved(t, [i \in 0 .. n |-> IF i = 0 THEN 0 ELSE i + 1], 0, 0, 0)
  BY <1>1, <1>2, DroppedStep
<1>8. Types' /\ ModeIsRight'
  <2>1. fds' \in [Fds -> [event : 0 .. MaxNames, of : Threads \union {Nobody},
                          points : 0 .. MaxPoints]]
    <3>1. Closed \in [event : 0 .. MaxNames, of : Threads \union {Nobody}, points : 0 .. MaxPoints]
      BY DEF Closed
    <3> QED
      BY <1>1, <3>1 DEF IInv, Types
  <2> QED
    BY <1>1, <1>7, <2>1 DEF IInv, Types, ModeIsRight
<1>9. FdsKept(t)
  <2>1. SUFFICES ASSUME NEW f \in Fds, fds'[f] # Closed, NEW i \in Places(t), At(t, i).fd = f
                 PROVE  \E j \in Places(t)' : At(t, j)'.fd = f
    BY <1>6 DEF FdsKept
  <2>2. f # d /\ f # 0
    BY <1>6, <2>1 DEF Fds
  <2>3. i # 0 /\ i # 1
    BY <1>2, <1>3, <2>1, <2>2 DEF NoPoint
  <2> QED
    BY <1>7, <2>1, <2>3
<1>10. EventsKept(t)
  <2>1. SUFFICES ASSUME NEW m \in tracefs, NEW i \in Places(t), At(t, i).event = m
                 PROVE  \E j \in Places(t)' : At(t, j)'.event = m
    BY <1>1, <1>7 DEF EventsKept
  <2>2. m # 0
    BY <2>1 DEF IInv, Types, Names
  <2>3. i # 0 /\ i # 1
    BY <1>2, <2>1, <2>2 DEF NoPoint
  <2> QED
    BY <1>7, <2>1, <2>3
<1>11. \A i \in Places(t)' : Holds(t, At(t, i))'
  <2>1. SUFFICES ASSUME NEW i \in Places(t)', i # 0 PROVE Holds(t, At(t, i))'
    BY <1>7 DEF Holds, NoPoint
  <2>2. i + 1 \in Places(t) /\ i + 1 # 1 /\ At(t, i)' = At(t, i + 1)
    BY <1>7, <2>1
  <2>3. Holds(t, At(t, i + 1)) /\ Apart(At(t, i + 1), At(t, 1)) /\ At(t, i + 1) \in Point
    BY <1>4, <2>2, PlaceTypes DEF IInv, PointsHold, PointsApart
  <2>4. At(t, i + 1).fd # 0 => At(t, i + 1).fd \in Fds /\ At(t, i + 1).fd # d
    BY <1>2, <1>3, <2>3 DEF Point, Fds, Apart
  <2> QED
    BY <1>6, <2>2, <2>3, <2>4 DEF Holds
<1>12. \A f \in Fds : fds[f].of \notin {t, Nobody} => fds'[f] = fds[f]
  BY <1>5, <1>6
<1> QED
  <2>1. Moved(t, [i \in 0 .. n |-> IF i = 0 THEN 0 ELSE i + 1], 0, 0, 0) /\ Phase(t)' /\ Attached(t)'
    BY <1>7
  <2>2. UNCHANGED <<kernel, multi>>
    BY <1>1
  <2> QED
    BY <1>8, <1>9, <1>10, <1>11, <1>12, <2>1, <2>2, LocalStep

\* The descriptor of a point is dropped, and its event is left.
LEMMA DropFdFirstStep ==
  ASSUME IInv, NEW t \in Threads, DropFd(t), Head(drops[t]).event # 0
  PROVE  IInv'
<1>1. /\ pc[t] = "drop" /\ Head(drops[t]).fd # 0
      /\ fds' = [fds EXCEPT ![Head(drops[t]).fd] = Closed]
      /\ drops' = [drops EXCEPT ![t][1].fd = 0]
      /\ UNCHANGED <<kernel, multi, tracefs, foreign, index, mode, pc, want, cur, vec, link, leftover>>
  BY DEF DropFd
<1>2. PICK n \in Nat : /\ Len(drops[t]) = n + 1 /\ Places(t) = 0 .. n + 1
                       /\ At(t, 0) = NoPoint /\ At(t, 1) = Head(drops[t])
                       /\ Head(drops[t]) \in Point
                       /\ \A i \in 1 .. n + 1 : At(t, i) = drops[t][i]
                       /\ cur[t] = NoPoint /\ vec[t] = <<>> /\ link[t] = <<>>
  BY <1>1, DropPlaces
<1>3. PICK d : d = Head(drops[t]).fd
  OBVIOUS
<1>4. 1 \in Places(t) /\ 1 \in 1 .. n + 1 /\ \A i \in Places(t) : i = 0 \/ i \in 1 .. n + 1
  BY <1>2
<1>5. d \in Fds /\ fds[d].of = t
  <2>1. d \in Fds
    BY <1>1, <1>2, <1>3 DEF Point, Fds
  <2> QED
    BY <1>1, <1>2, <1>3, <1>4, <2>1 DEF IInv, PointsHold, Holds
<1>6. fds'[d] = Closed /\ \A f \in Fds : f # d => fds'[f] = fds[f]
  BY <1>1, <1>3, <1>5 DEF IInv, Types
<1> DEFINE h == [Head(drops[t]) EXCEPT !.fd = 0]
<1>7. h \in Point /\ h.fd = 0 /\ h.event = Head(drops[t]).event
  BY <1>2 DEF Point, NoPoint
<1>8. /\ drops'[t] \in Seq(Point) /\ Len(drops'[t]) = n + 1
      /\ drops'[t][1] = h /\ \A i \in 1 .. n + 1 : i # 1 => drops'[t][i] = drops[t][i]
      /\ \A u \in Threads : u # t => drops'[u] = drops[u]
  <2>1. drops[t] \in Seq(Point) /\ drops[t][1] = Head(drops[t])
    BY <1>2, <1>4 DEF IInv, Types
  <2>2. drops'[t] = [drops[t] EXCEPT ![1] = h]
    BY <1>1, <2>1 DEF IInv, Types
  <2>3. \A u \in Threads : u # t => drops'[u] = drops[u]
    BY <1>1 DEF IInv, Types
  <2> HIDE DEF h
  <2>4. drops'[t] \in Seq(Point) /\ Len(drops'[t]) = n + 1
    BY <1>2, <1>4, <1>7, <2>1, <2>2
  <2>5. drops'[t][1] = h /\ \A i \in 1 .. n + 1 : i # 1 => drops'[t][i] = drops[t][i]
    BY <1>2, <1>4, <2>1, <2>2
  <2> QED
    BY <2>3, <2>4, <2>5
<1> HIDE DEF h
<1>9. \A u \in Threads : u # t => Same(u)
  BY <1>1, <1>8 DEF Same
<1>10. Types' /\ ModeIsRight'
  <2>1. fds' \in [Fds -> [event : 0 .. MaxNames, of : Threads \union {Nobody},
                          points : 0 .. MaxPoints]]
    <3>1. Closed \in [event : 0 .. MaxNames, of : Threads \union {Nobody}, points : 0 .. MaxPoints]
      BY DEF Closed
    <3> QED
      BY <1>1, <3>1 DEF IInv, Types
  <2>2. drops' \in [Threads -> Seq(Point)]
    <3>1. drops' = [u \in Threads |-> drops'[u]]
      BY <1>1 DEF IInv, Types
    <3>2. \A u \in Threads : drops'[u] \in Seq(Point)
      BY <1>8 DEF IInv, Types
    <3> QED
      BY <3>1, <3>2
  <2> QED
    BY <1>1, <2>1, <2>2 DEF IInv, Types, ModeIsRight
<1>11. Phase(t)' /\ Attached(t)'
  <2>1. drops'[t] # <<>>
    <3>1. Len(drops'[t]) # 0
      BY <1>8
    <3> QED
      BY <3>1
  <2> QED
    BY <1>1, <2>1 DEF IInv, Phase, Attached, Making
<1>12. /\ Places(t)' = Places(t) /\ At(t, 0)' = NoPoint /\ At(t, 1)' = h
       /\ \A i \in Places(t) : i # 1 => At(t, i)' = At(t, i)
  <2>1. Points(t)' = drops'[t] /\ cur'[t] = NoPoint
    BY <1>1, <1>2 DEF Points
  <2> QED
    BY <1>2, <1>4, <1>8, <2>1 DEF Places, At
<1>13. Moved(t, [i \in Places(t) |-> i], 0, 0, 0)
  <2>1. index <= index'
    BY <1>1 DEF IInv, Types
  <2>2. At(t, 1)'.event = At(t, 1).event /\ At(t, 1)'.fd = 0
    BY <1>2, <1>7, <1>12
  <2> QED
    BY <1>9, <1>12, <2>1, <2>2 DEF Moved
<1>14. FdsKept(t)
  <2>1. SUFFICES ASSUME NEW f \in Fds, fds'[f] # Closed, NEW i \in Places(t), At(t, i).fd = f
                 PROVE  \E j \in Places(t)' : At(t, j)'.fd = f
    BY <1>6 DEF FdsKept
  <2>2. i # 1
    BY <1>2, <1>3, <1>6, <2>1
  <2> QED
    BY <1>12, <2>1, <2>2
<1>15. EventsKept(t)
  <2>1. \A i \in Places(t) : At(t, i)'.event = At(t, i).event
    BY <1>2, <1>7, <1>12
  <2> QED
    BY <1>1, <1>12, <2>1 DEF EventsKept
<1>16. \A i \in Places(t)' : Holds(t, At(t, i))'
  <2>1. SUFFICES ASSUME NEW i \in Places(t), i # 1 PROVE Holds(t, At(t, i))'
    BY <1>7, <1>12 DEF Holds
  <2>2. Holds(t, At(t, i)) /\ Apart(At(t, i), At(t, 1)) /\ At(t, i) \in Point /\ At(t, i)' = At(t, i)
    BY <1>4, <1>12, <2>1, PlaceTypes DEF IInv, PointsHold, PointsApart
  <2>3. At(t, i).fd # 0 => At(t, i).fd \in Fds /\ At(t, i).fd # d
    BY <1>2, <1>3, <2>2 DEF Point, Fds, Apart
  <2> QED
    BY <1>6, <2>2, <2>3 DEF Holds
<1>17. \A f \in Fds : fds[f].of \notin {t, Nobody} => fds'[f] = fds[f]
  BY <1>5, <1>6
<1> QED
  BY <1>1, <1>10, <1>11, <1>13, <1>14, <1>15, <1>16, <1>17, LocalStep

\* An event that is deleted is nobody else's; one that is still open is another
\* process's doing, since the point's own descriptor is closed by now.
LEMMA DropEventStep ==
  ASSUME IInv, NEW t \in Threads, DropEvent(t)
  PROVE  IInv'
<1>1. PICK e : e = Head(drops[t]).event
  OBVIOUS
<1>2. /\ pc[t] = "drop" /\ Head(drops[t]).fd = 0
      /\ tracefs' = IF Busy(e) THEN tracefs ELSE tracefs \ {e}
      /\ leftover' = IF e \in foreign THEN leftover \union {e} ELSE leftover
      /\ Dropped(t)
      /\ UNCHANGED <<kernel, multi, foreign, fds, index, mode, want, cur, vec, link>>
  BY <1>1 DEF DropEvent
<1>3. PICK n \in Nat : /\ Len(drops[t]) = n + 1 /\ Places(t) = 0 .. n + 1
                       /\ At(t, 0) = NoPoint /\ At(t, 1) = Head(drops[t])
                       /\ Head(drops[t]) \in Point
  BY <1>2, DropPlaces
<1>4. 1 \in Places(t)
  BY <1>3
<1>5. /\ drops' \in [Threads -> Seq(Point)]
      /\ pc' \in [Threads -> {"idle", "multi", "drop"} \union Making]
      /\ Phase(t)' /\ Attached(t)'
      /\ \A u \in Threads : u # t => Same(u)
      /\ pc'[t] \notin {"name", "write"}
      /\ Places(t)' = 0 .. n /\ At(t, 0)' = NoPoint
      /\ \A i \in Places(t)' :
           i = 0 \/ (i + 1 \in Places(t) /\ i + 1 # 1 /\ At(t, i)' = At(t, i + 1))
      /\ \A i \in Places(t) :
           i = 0 \/ i = 1 \/ (i - 1 \in Places(t)' /\ i - 1 # 0 /\ At(t, i - 1)' = At(t, i))
      /\ Moved(t, [i \in 0 .. n |-> IF i = 0 THEN 0 ELSE i + 1], 0, 0, 0)
  BY <1>2, <1>3, DroppedStep
<1>6. ASSUME e \in tracefs, e \notin foreign PROVE ~Busy(e)
  <2>1. SUFFICES ASSUME NEW f \in Fds, fds[f].event = e PROVE FALSE
    BY <1>6 DEF Busy
  <2>2. e # 0 /\ fds[f] # Closed
    BY <1>6, <2>1 DEF IInv, Types, Names, Closed
  <2>3. PICK u \in Threads : \E i \in Places(u) : At(u, i).fd = f
    BY <2>2 DEF IInv, FdsOwned
  <2>4. PICK i \in Places(u) : At(u, i).fd = f
    BY <2>3
  <2>5. f # 0
    BY DEF Fds
  <2>6. At(u, i).event = e
    BY <2>1, <2>4, <2>5 DEF IInv, PointsHold, Holds
  <2>7. At(t, 1).event = e /\ At(t, 1).fd = 0
    BY <1>1, <1>2, <1>3
  <2>8. t = u /\ i = 1
    BY <1>4, <2>2, <2>6, <2>7 DEF IInv, PointsApart, Apart
  <2> QED
    BY <2>4, <2>5, <2>7, <2>8
<1>7. Types' /\ ModeIsRight'
  <2>1. tracefs' \subseteq Names /\ leftover' \subseteq Names
    BY <1>2 DEF IInv, Types
  <2> QED
    BY <1>2, <1>5, <2>1 DEF IInv, Types, ModeIsRight
<1>8. FdsKept(t)
  <2>1. SUFFICES ASSUME NEW f \in Fds, fds[f] # Closed, NEW i \in Places(t), At(t, i).fd = f
                 PROVE  \E j \in Places(t)' : At(t, j)'.fd = f
    BY <1>2 DEF FdsKept
  <2>2. f # 0
    BY <2>1 DEF Fds
  <2>3. i # 0 /\ i # 1
    BY <1>2, <1>3, <2>1, <2>2 DEF NoPoint
  <2> QED
    BY <1>5, <2>1, <2>3
<1>9. EventsKept(t)
  <2>1. SUFFICES ASSUME NEW m \in tracefs', m \notin leftover', NEW i \in Places(t), At(t, i).event = m
                 PROVE  \E j \in Places(t)' : At(t, j)'.event = m
    BY <1>2, <1>5 DEF EventsKept
  <2>2. m \in tracefs /\ m \notin leftover /\ m # e
    BY <1>2, <1>6, <2>1
  <2>3. m # 0
    BY <2>2 DEF IInv, Types, Names
  <2>4. i # 0 /\ i # 1
    BY <1>1, <1>3, <2>1, <2>2, <2>3 DEF NoPoint
  <2> QED
    BY <1>5, <2>1, <2>4
<1>10. \A i \in Places(t)' : Holds(t, At(t, i))'
  <2>1. SUFFICES ASSUME NEW i \in Places(t)', i # 0 PROVE Holds(t, At(t, i))'
    BY <1>5 DEF Holds, NoPoint
  <2>2. i + 1 \in Places(t) /\ At(t, i)' = At(t, i + 1)
    BY <1>5, <2>1
  <2>3. Holds(t, At(t, i + 1))
    BY <2>2 DEF IInv, PointsHold
  <2> QED
    BY <1>2, <2>2, <2>3 DEF Holds
<1> QED
  <2>1. Moved(t, [i \in 0 .. n |-> IF i = 0 THEN 0 ELSE i + 1], 0, 0, 0) /\ Phase(t)' /\ Attached(t)'
    BY <1>5
  <2>2. UNCHANGED <<kernel, multi, fds>>
    BY <1>2
  <2> QED
    BY <1>7, <1>8, <1>9, <1>10, <2>1, <2>2, LocalStep

-----------------------------------------------------------------------------
(* Theorems *)

LEMMA StepInvariant == IInv /\ [Next]_vars => IInv'
<1> SUFFICES ASSUME IInv, [Next]_vars PROVE IInv'
  OBVIOUS
<1>1. ASSUME NEW t \in Threads, ThreadStep(t) PROVE IInv'
  <2>1. CASE (\E k \in 1 .. MaxPoints : Attach(t, k)) \/ MultiRefused(t) \/ MultiFails(t) \/ SetBpf(t)
    BY <2>1, PlainStep
  <2>2. CASE AttachMulti(t)
    BY <2>2, AttachMultiStep
  <2>3. CASE TakeName(t)
    BY <2>3, TakeNameStep
  <2>4. CASE WriteEvent(t)
    BY <2>4, WriteEventStep
  <2>5. CASE OpenPerf(t)
    BY <2>5, OpenPerfStep
  <2>6. CASE CreateLink(t)
    BY <2>6, CreateLinkStep
  <2>7. CASE Enable(t)
    BY <2>7, EnableStep
  <2>8. CASE AttachFails(t)
    BY <2>8, FailsBeforeMade, FailsHalfMade
  <2>9. CASE Detach(t)
    BY <2>9, DetachStep
  <2>10. CASE DropFd(t)
    BY <2>10, DropFdOnlyStep, DropFdFirstStep
  <2>11. CASE DropEvent(t)
    BY <2>11, DropEventStep
  <2> QED
    BY <1>1, <2>1, <2>2, <2>3, <2>4, <2>5, <2>6, <2>7, <2>8, <2>9, <2>10, <2>11 DEF ThreadStep
<1>2. ASSUME NEW n \in Names, OpenedByOthers(n) \/ ClosedByOthers(n) \/ RemovedByOthers(n)
      PROVE  IInv'
  BY <1>2, EnvironmentStep
<1>3. CASE Restart
  BY <1>3, RestartStep
<1>4. CASE UNCHANGED vars
  <2>1. (Types /\ ModeIsRight)'
    BY <1>4 DEF vars, kernelVars, IInv, Types, ModeIsRight
  <2>2. UNCHANGED <<index, fds, pc, cur, vec, link, drops>>
    BY <1>4 DEF vars, kernelVars
  <2>3. PointsApart'
    <3>1. PointsApart
      BY DEF IInv
    <3> QED
      BY <2>2, <3>1, SMTT(30) DEF PointsApart, Apart, Places, At, Points
  <2>4. PointsHold'
    <3>1. PointsHold
      BY DEF IInv
    <3> QED
      BY <2>2, <3>1, SMTT(30) DEF PointsHold, Holds, Places, At, Points
  <2>5. (FdsOwned /\ EventsHeld)'
    BY <1>4 DEF vars, kernelVars, IInv, FdsOwned, EventsHeld, Places, At, Points, Closed
  <2>6. \A t \in Threads : (Phase(t) /\ Attached(t))'
    BY <1>4 DEF vars, kernelVars, IInv, Phase, Attached, Runs
  <2> QED
    BY <2>1, <2>3, <2>4, <2>5, <2>6 DEF IInv
<1> QED
  BY <1>1, <1>2, <1>3, <1>4 DEF Next

\* What a thread owns is what is at its places, but for a name that is only taken.
LEMMA OwnedAtPlaces ==
  ASSUME IInv, NEW t \in Threads
  PROVE  /\ \A x \in Owned(t) : \E i \in Places(t) : At(t, i) = x
         /\ \A i \in Places(t) : At(t, i) \in Owned(t) \/ (i = 0 /\ pc[t] \in {"name", "write"})
<1>1. /\ vec[t] \in Seq(Point) /\ link[t] \in Seq(Point) /\ drops[t] \in Seq(Point)
      /\ Elements(<<>>) = {}
  BY DEF IInv, Types, Elements
<1>2. Elements(vec[t]) \union Elements(link[t]) \union Elements(drops[t]) = Elements(Points(t))
  <2>1. CASE pc[t] = "idle"
    BY <1>1, <2>1 DEF IInv, Phase, Points, Making
  <2>2. CASE pc[t] = "drop"
    BY <1>1, <2>2 DEF IInv, Phase, Points, Making
  <2>3. CASE pc[t] # "idle" /\ pc[t] # "drop"
    BY <1>1, <2>3 DEF IInv, Phase, Points
  <2> QED
    BY <2>1, <2>2, <2>3
<1>3. Owned(t) = Elements(Points(t)) \union (IF pc[t] \in {"name", "write"} THEN {} ELSE {cur[t]})
  BY <1>2 DEF Owned
<1>4. Len(Points(t)) \in Nat
  BY PlaceTypes DEF IInv
<1>5. \A x \in Elements(Points(t)) : \E i \in Places(t) : At(t, i) = x
  BY <1>4 DEF Elements, Places, At
<1>6. \A i \in Places(t) : i # 0 => At(t, i) \in Elements(Points(t))
  BY <1>4 DEF Elements, Places, At
<1>7. 0 \in Places(t) /\ At(t, 0) = cur[t]
  BY <1>4 DEF Places, At
<1> QED
  BY <1>3, <1>5, <1>6, <1>7

LEMMA InvariantTypes == IInv => TypeOK
<1> SUFFICES ASSUME IInv PROVE TypeOK
  OBVIOUS
<1>1. ASSUME NEW t \in Threads
      PROVE  /\ pc[t] \in {"idle", "multi", "name", "write", "open", "link", "setbpf", "enable", "drop"}
             /\ Elements(vec[t]) \union Elements(link[t]) \union Elements(drops[t]) \subseteq Point
             /\ pc[t] = "idle" => vec[t] = <<>> /\ drops[t] = <<>> /\ cur[t] = NoPoint
             /\ pc[t] = "drop" => drops[t] # <<>>
  <2>1. vec[t] \in Seq(Point) /\ link[t] \in Seq(Point) /\ drops[t] \in Seq(Point)
    BY DEF IInv, Types
  <2>2. Elements(vec[t]) \subseteq Point /\ Elements(link[t]) \subseteq Point
        /\ Elements(drops[t]) \subseteq Point
    BY <2>1 DEF Elements
  <2> QED
    BY <2>2 DEF IInv, Types, Phase, Making
<1> QED
  BY <1>1 DEF TypeOK, IInv, Types

LEMMA InvariantEvents == IInv => EventsOwned
<1> SUFFICES ASSUME IInv, NEW n \in tracefs, n \notin leftover
             PROVE  \E t \in Threads : \E x \in Owned(t) : x.event = n
  BY DEF EventsOwned
<1>1. PICK t \in Threads : \E i \in Places(t) :
        At(t, i).event = n /\ (i = 0 => pc[t] \notin {"name", "write"})
  BY DEF IInv, EventsHeld
<1> QED
  BY <1>1, OwnedAtPlaces

LEMMA InvariantNames == IInv => NamesUnique
<1> SUFFICES ASSUME IInv, NEW t \in Threads, NEW u \in Threads, NEW x \in Owned(t), NEW y \in Owned(u),
                    x.event # 0, x.event = y.event
             PROVE  t = u /\ x = y
  BY DEF NamesUnique
<1>1. PICK i \in Places(t) : At(t, i) = x
  BY OwnedAtPlaces
<1>2. PICK j \in Places(u) : At(u, j) = y
  BY OwnedAtPlaces
<1>3. t = u /\ i = j
  BY <1>1, <1>2 DEF IInv, PointsApart, Apart
<1> QED
  BY <1>1, <1>2, <1>3

LEMMA InvariantAllOrNothing == IInv => AllOrNothing
<1> SUFFICES ASSUME IInv, NEW t \in Threads, pc[t] = "idle"
             PROVE  /\ Descriptors(t) = {x.fd : x \in Elements(link[t])}
                    /\ \/ link[t] = <<>>
                       \/ Len(link[t]) = 1 /\ fds[link[t][1].fd].points = want[t]
                       \/ Len(link[t]) = want[t] /\ \A f \in Descriptors(t) : fds[f].points = 1
  BY DEF AllOrNothing
<1>1. PICK n : n = Len(link[t])
  OBVIOUS
<1>2. /\ link[t] \in Seq(Point) /\ n \in Nat /\ Points(t) = link[t] /\ cur[t] = NoPoint
      /\ Places(t) = 0 .. n /\ At(t, 0) = NoPoint
      /\ \A i \in 1 .. n : i \in Places(t) /\ At(t, i) = link[t][i] /\ link[t][i] \in Point
  <2>1. link[t] \in Seq(Point) /\ n \in Nat /\ Points(t) = link[t] /\ cur[t] = NoPoint
    BY <1>1 DEF IInv, Types, Phase, Points
  <2> QED
    BY <1>1, <2>1 DEF Places, At
<1>3. \A i \in 1 .. n : link[t][i].fd # 0
  BY <1>1 DEF IInv, Attached, Runs
<1>4. ASSUME NEW f \in Descriptors(t) PROVE \E i \in 1 .. n : link[t][i].fd = f
  <2>1. f \in Fds /\ fds[f] # Closed /\ fds[f].of = t /\ f # 0
    BY <1>4 DEF Descriptors, Closed, Fds
  <2>2. PICK u \in Threads : \E i \in Places(u) : At(u, i).fd = f
    BY <2>1 DEF IInv, FdsOwned
  <2>3. PICK i \in Places(u) : At(u, i).fd = f
    BY <2>2
  <2>4. u = t
    BY <2>1, <2>3 DEF IInv, PointsHold, Holds
  <2>5. i \in 1 .. n
    BY <1>2, <2>1, <2>3, <2>4 DEF NoPoint
  <2> QED
    BY <1>2, <2>3, <2>4, <2>5
<1>5. ASSUME NEW i \in 1 .. n PROVE link[t][i].fd \in Descriptors(t)
  <2>1. Holds(t, link[t][i]) /\ link[t][i].fd \in Fds
    BY <1>2, <1>3 DEF IInv, PointsHold, Point, Fds
  <2> QED
    BY <1>3, <2>1 DEF Holds, Descriptors
<1>6. Descriptors(t) = {x.fd : x \in Elements(link[t])}
  BY <1>1, <1>4, <1>5 DEF Elements
<1>7. Attached(t)
  BY DEF IInv
<1>8. CASE Len(link[t]) = want[t] /\ \A i \in 1 .. Len(link[t]) : Runs(link[t][i], 1)
  <2>1. \A i \in 1 .. n : fds[link[t][i].fd].points = 1
    BY <1>1, <1>8 DEF Runs
  <2>2. \A f \in Descriptors(t) : fds[f].points = 1
    BY <1>4, <2>1
  <2> QED
    BY <1>6, <1>8, <2>2
<1> QED
  BY <1>6, <1>7, <1>8 DEF Attached, Runs

\* The invariant, which the theorems about what holds in every state follow from.
THEOREM InductiveInvariant == Spec => []IInv
BY InitInvariant, StepInvariant, PTL DEF Spec

\* The variables keep their types, and an idle thread has nothing half made.
THEOREM TypeCorrect == Spec => []TypeOK
BY InductiveInvariant, InvariantTypes, PTL

\* No step of attach, of its failures, of detach or of drop leaves an event in tracefs
\* that nobody is going to delete.
THEOREM EventsAreOwned == Spec => []EventsOwned
BY InductiveInvariant, InvariantEvents, PTL

\* PROBE_NAME_INDEX gives the events of all threads names of their own.
THEOREM NamesAreUnique == Spec => []NamesUnique
BY InductiveInvariant, InvariantNames, PTL

\* Between two operations a thread has the descriptors of its link and no others, and
\* its program runs at each of the points that were asked for, or at none.
THEOREM AttachIsAllOrNothing == Spec => []AllOrNothing
BY InductiveInvariant, InvariantAllOrNothing, PTL

\* The mode that attach settles on is the one of the program.
THEOREM SettledModeIsRight == Spec => []ModeIsRight
<1>1. IInv => ModeIsRight
  BY DEF IInv
<1> QED
  BY <1>1, InductiveInvariant, PTL
=============================================================================
