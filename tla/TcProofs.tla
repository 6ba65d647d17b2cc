------------------------------ MODULE TcProofs ------------------------------
(***************************************************************************)
(* Theorems about Tc, for every finite set of programs and every number of *)
(* keys, TCX links and equal links in the application's hands.             *)
(***************************************************************************)
EXTENDS Tc, FiniteSetTheorems, TLAPS

-----------------------------------------------------------------------------
(* The inductive invariant *)

\* The types of all but the histories that only Watch writes.
CoreTypes ==
  /\ filters \in [Keys -> {NoFilter} \union [name : Programs, ours : BOOLEAN]]
  /\ tcx \in [1 .. MaxTcx -> Programs \union {Nobody}]
  /\ loaded \in [Programs -> BOOLEAN]
  /\ links \in [Programs -> SUBSET Link]
  /\ owned \in [Link -> 0 .. MaxOwned]
  /\ pc \in [Programs -> {"idle", "undo", "unload", "drain"}]
  /\ undo \in [Programs -> 0 .. MaxKey]
  /\ \A p \in Programs : (pc[p] = "undo") = (undo[p] # 0)
  /\ finder \in [step : {"none", "dump", "delete", "ok"}, name : Programs \union {Nobody},
                 next : 0 .. MaxKey, found : SUBSET Keys]
  /\ abandoned \subseteq Keys

\* A key without a filter has no link, a key with one has at most one.
AtMostOne(k) ==
  k \notin tampered => Holders(Nl(k)) <= (IF filters[k] = NoFilter THEN 0 ELSE 1)

\* Where the dump has a filter: behind those with a smaller key.
Place(k) == Cardinality({j \in Present : j < k})

\* A filter that was there since the search began was found, or its turn is still to come.
\* When the dump is over, it was found.
SearchRight ==
  /\ finder.step \notin {"dump", "delete"} => stood = {}
  /\ \A k \in stood : filters[k] # NoFilter /\ filters[k].name = finder.name
  /\ finder.step \in {"dump", "delete"} => finder.name \in Programs
  /\ finder.step = "dump" /\ ~shifted =>
       \A k \in stood : k \in finder.found \/ Place(k) >= finder.next
  /\ finder.step = "delete" /\ ~shifted => stood \subseteq finder.found

IInv == TypeOK /\ AttachmentsHeld /\ (\A k \in Keys : AtMostOne(k)) /\ SearchRight

-----------------------------------------------------------------------------
(* Counting links *)

USE ProgramsAssumption, BoundsAssumption

LEMMA LinkFacts ==
  /\ \A k : Nl(k).kind = "nl" /\ Nl(k).at = k
  /\ \A n : Tcx(n).kind = "tcx" /\ Tcx(n).at = n
  /\ \A k \in Keys : Nl(k) \in Link /\ k # 0 /\ k \in 1 .. MaxKey /\ k \in Nat
  /\ \A n \in 1 .. MaxTcx : Tcx(n) \in Link
  /\ \A l \in Link : \/ l.kind = "nl" /\ l.at \in Keys /\ l = Nl(l.at)
                     \/ l.kind = "tcx" /\ l.at \in 1 .. MaxTcx /\ l = Tcx(l.at)
  /\ \A k, n : Nl(k) # Tcx(n)
<1>1. \A k : Nl(k).kind = "nl" /\ Nl(k).at = k
  BY DEF Nl
<1>2. \A n : Tcx(n).kind = "tcx" /\ Tcx(n).at = n
  BY DEF Tcx
<1>3. \A k \in Keys : Nl(k) \in Link /\ k # 0 /\ k \in 1 .. MaxKey /\ k \in Nat
  BY DEF Link, Keys
<1>4. \A n \in 1 .. MaxTcx : Tcx(n) \in Link
  BY DEF Link
<1>5. \A l \in Link : \/ l.kind = "nl" /\ l.at \in Keys /\ l = Nl(l.at)
                      \/ l.kind = "tcx" /\ l.at \in 1 .. MaxTcx /\ l = Tcx(l.at)
  BY <1>1, <1>2 DEF Link
<1>6. \A k, n : Nl(k) # Tcx(n)
  BY <1>1, <1>2
<1> QED
  BY <1>1, <1>2, <1>3, <1>4, <1>5, <1>6

\* The size of a set of programs is that of the rest, and one for p if it is in the set.
LEMMA SizeWithout ==
  ASSUME NEW S, S \subseteq Programs, NEW p
  PROVE  /\ Cardinality(S) \in Nat /\ Cardinality(S \ {p}) \in Nat
         /\ Cardinality(S) = Cardinality(S \ {p}) + (IF p \in S THEN 1 ELSE 0)
<1>1. IsFiniteSet(S)
  BY FS_Subset
<1>2. Cardinality(S) \in Nat
  BY <1>1, FS_CardinalityType
<1>3. /\ IsFiniteSet(S \ {p})
      /\ Cardinality(S \ {p}) = IF p \in S THEN Cardinality(S) - 1 ELSE Cardinality(S)
  BY <1>1, FS_RemoveElement
<1>4. Cardinality(S \ {p}) \in Nat
  BY <1>3, FS_CardinalityType
<1> QED
  BY <1>2, <1>3, <1>4

Trackers(l) == {p \in Programs : l \in links[p]}
Undoers(l) == {p \in Programs : l.kind = "nl" /\ undo[p] = l.at}

\* What program p contributes to Holders(l).
Mine(p, l) == (IF l \in links[p] THEN 1 ELSE 0) + (IF l.kind = "nl" /\ undo[p] = l.at THEN 1 ELSE 0)

LEMMA HoldersFacts ==
  ASSUME CoreTypes, NEW l \in Link
  PROVE  /\ Holders(l) \in Nat /\ owned[l] \in Nat /\ Holders(l) >= owned[l]
         /\ \A p \in Programs : Mine(p, l) \in Nat /\ Holders(l) >= owned[l] + Mine(p, l)
         /\ Holders(l) = owned[l] + Cardinality(Trackers(l)) + Cardinality(Undoers(l))
<1>1. Trackers(l) \subseteq Programs /\ Undoers(l) \subseteq Programs
  BY DEF Trackers, Undoers
<1>2. owned[l] \in Nat
  BY DEF CoreTypes
<1>3. Holders(l) = owned[l] + Cardinality(Trackers(l)) + Cardinality(Undoers(l))
  BY DEF Holders, Trackers, Undoers
<1>4. Cardinality(Trackers(l)) \in Nat /\ Cardinality(Undoers(l)) \in Nat
  BY <1>1, SizeWithout
<1>5. ASSUME NEW p \in Programs PROVE Mine(p, l) \in Nat /\ Holders(l) >= owned[l] + Mine(p, l)
  <2>1. /\ Cardinality(Trackers(l) \ {p}) \in Nat /\ Cardinality(Undoers(l) \ {p}) \in Nat
        /\ Cardinality(Trackers(l)) =
             Cardinality(Trackers(l) \ {p}) + (IF p \in Trackers(l) THEN 1 ELSE 0)
        /\ Cardinality(Undoers(l)) =
             Cardinality(Undoers(l) \ {p}) + (IF p \in Undoers(l) THEN 1 ELSE 0)
    BY <1>1, SizeWithout
  <2>2. Mine(p, l) = (IF p \in Trackers(l) THEN 1 ELSE 0) + (IF p \in Undoers(l) THEN 1 ELSE 0)
    BY DEF Mine, Trackers, Undoers
  <2> QED
    BY <1>2, <1>3, <2>1, <2>2
<1> QED
  BY <1>2, <1>3, <1>4, <1>5

\* A step that concerns no program's hold on l.
LEMMA HoldersKept ==
  ASSUME NEW l, \A q \in Programs : l \in links'[q] <=> l \in links[q],
         \A q \in Programs : l.kind = "nl" => (undo'[q] = l.at <=> undo[q] = l.at)
  PROVE  /\ Holders(l)' = owned'[l] + Cardinality(Trackers(l)) + Cardinality(Undoers(l))
<1>1. /\ {p \in Programs : l \in links'[p]} = Trackers(l)
      /\ {p \in Programs : l.kind = "nl" /\ undo'[p] = l.at} = Undoers(l)
  BY DEF Trackers, Undoers
<1>2. Holders(l)' = owned'[l] + Cardinality({p \in Programs : l \in links'[p]})
                      + Cardinality({p \in Programs : l.kind = "nl" /\ undo'[p] = l.at})
  BY DEF Holders
<1> QED
  BY <1>1, <1>2

\* A step that concerns only p's hold on l.
LEMMA HoldersChange ==
  ASSUME CoreTypes, NEW l \in Link, NEW p \in Programs, owned'[l] \in Nat,
         \A q \in Programs : q # p => /\ l \in links'[q] <=> l \in links[q]
                                      /\ l.kind = "nl" => (undo'[q] = l.at <=> undo[q] = l.at)
  PROVE  \E r \in Nat : /\ Holders(l) = owned[l] + Mine(p, l) + r
                        /\ Holders(l)' = owned'[l] + Mine(p, l)' + r
<1> DEFINE T == {q \in Programs : l \in links'[q]}
           U == {q \in Programs : l.kind = "nl" /\ undo'[q] = l.at}
<1>1. /\ Trackers(l) \subseteq Programs /\ Undoers(l) \subseteq Programs
      /\ T \subseteq Programs /\ U \subseteq Programs
  BY DEF Trackers, Undoers
<1>2. T \ {p} = Trackers(l) \ {p} /\ U \ {p} = Undoers(l) \ {p}
  BY DEF Trackers, Undoers
<1>3. /\ Mine(p, l) = (IF p \in Trackers(l) THEN 1 ELSE 0) + (IF p \in Undoers(l) THEN 1 ELSE 0)
      /\ Mine(p, l)' = (IF p \in T THEN 1 ELSE 0) + (IF p \in U THEN 1 ELSE 0)
  BY DEF Mine, Trackers, Undoers
<1>4. /\ Holders(l) = owned[l] + Cardinality(Trackers(l)) + Cardinality(Undoers(l))
      /\ Holders(l)' = owned'[l] + Cardinality(T) + Cardinality(U)
      /\ owned[l] \in Nat
  BY HoldersFacts DEF Holders
<1> HIDE DEF T, U
<1>5. PICK a \in Nat, b \in Nat :
        a = Cardinality(Trackers(l) \ {p}) /\ b = Cardinality(Undoers(l) \ {p})
  BY <1>1, SizeWithout
<1>6. /\ Cardinality(Trackers(l)) = a + (IF p \in Trackers(l) THEN 1 ELSE 0)
      /\ Cardinality(Undoers(l)) = b + (IF p \in Undoers(l) THEN 1 ELSE 0)
  BY <1>1, <1>5, SizeWithout
<1>7. /\ Cardinality(T) = a + (IF p \in T THEN 1 ELSE 0)
      /\ Cardinality(U) = b + (IF p \in U THEN 1 ELSE 0)
  BY <1>1, <1>2, <1>5, SizeWithout
<1>8. a + b \in Nat
  OBVIOUS
<1>9. /\ Holders(l) = owned[l] + Mine(p, l) + (a + b)
      /\ Holders(l)' = owned'[l] + Mine(p, l)' + (a + b)
  BY <1>3, <1>4, <1>6, <1>7
<1> QED
  BY <1>8, <1>9

-----------------------------------------------------------------------------
(* What the steps keep. Each concerns at most one link. *)

\* The step changes nobody's hold on a link other than l.
OthersKept(l) ==
  \A m \in Link : m # l =>
    /\ owned'[m] = owned[m]
    /\ \A q \in Programs : /\ m \in links'[q] <=> m \in links[q]
                           /\ m.kind = "nl" => (undo'[q] = m.at <=> undo[q] = m.at)

\* A key gets a link only with a filter, or when the application makes one up.
GainsRightly(k) ==
  \/ Holders(Nl(k))' <= Holders(Nl(k))
  \/ filters[k] = NoFilter /\ filters'[k] # NoFilter /\ Holders(Nl(k))' = Holders(Nl(k)) + 1
  \/ Attached(k)

CoreStep == CoreTypes' /\ AttachmentsHeld' /\ \A k \in Keys : GainsRightly(k)

LEMMA OneLink ==
  ASSUME CoreTypes, AttachmentsHeld, CoreTypes', NEW l \in Link, OthersKept(l),
         \A k \in Keys : Nl(k) # l => /\ filters'[k] = filters[k]
                                      /\ k \in abandoned' <=> k \in abandoned,
         \A n \in 1 .. MaxTcx : Tcx(n) # l => tcx'[n] = tcx[n],
         l.kind = "nl" => /\ filters'[l.at].ours => (Holders(l)' > 0 \/ l.at \in abandoned')
                          /\ GainsRightly(l.at),
         l.kind = "tcx" => Holders(l)' = (IF tcx'[l.at] \in Programs THEN 1 ELSE 0)
  PROVE  CoreStep
<1>1. ASSUME NEW m \in Link, m # l PROVE Holders(m)' = Holders(m)
  <2>1. /\ \A q \in Programs : m \in links'[q] <=> m \in links[q]
        /\ \A q \in Programs : m.kind = "nl" => (undo'[q] = m.at <=> undo[q] = m.at)
        /\ owned'[m] = owned[m]
    BY <1>1 DEF OthersKept
  <2>2. Holders(m)' = owned'[m] + Cardinality(Trackers(m)) + Cardinality(Undoers(m))
    BY <2>1, HoldersKept
  <2> QED
    BY <2>1, <2>2, HoldersFacts
<1>2. ASSUME NEW k \in Keys
      PROVE  (filters'[k].ours => (Holders(Nl(k))' > 0 \/ k \in abandoned')) /\ GainsRightly(k)
  <2>1. CASE Nl(k) = l
    BY <2>1, LinkFacts
  <2>2. CASE Nl(k) # l
    <3>1. Nl(k) \in Link /\ Holders(Nl(k))' = Holders(Nl(k)) /\ Holders(Nl(k)) \in Nat
      BY <1>1, <2>2, LinkFacts, HoldersFacts
    <3> QED
      BY <2>2, <3>1 DEF AttachmentsHeld, GainsRightly
  <2> QED
    BY <2>1, <2>2
<1>3. ASSUME NEW n \in 1 .. MaxTcx
      PROVE  Holders(Tcx(n))' = (IF tcx'[n] \in Programs THEN 1 ELSE 0)
  <2>1. CASE Tcx(n) = l
    BY <2>1, LinkFacts
  <2>2. CASE Tcx(n) # l
    <3>1. Tcx(n) \in Link /\ Holders(Tcx(n))' = Holders(Tcx(n))
      BY <1>1, <2>2, LinkFacts
    <3> QED
      BY <2>2, <3>1 DEF AttachmentsHeld
  <2> QED
    BY <2>1, <2>2
<1> QED
  BY <1>2, <1>3 DEF CoreStep, AttachmentsHeld

\* A request to delete removes the filter, or its key is abandoned.
LEMMA DeletesFacts ==
  ASSUME CoreTypes, NEW k \in Keys, NEW ok, Deletes(k, ok)
  PROVE  /\ filters' \in [Keys -> {NoFilter} \union [name : Programs, ours : BOOLEAN]]
         /\ abandoned' \subseteq Keys
         /\ \A j \in Keys : j # k => /\ filters'[j] = filters[j]
                                     /\ j \in abandoned' <=> j \in abandoned
         /\ filters'[k] = NoFilter \/ filters'[k] = filters[k]
         /\ filters'[k].ours => k \in abandoned'
         /\ ok => filters'[k] = NoFilter /\ filters[k] # NoFilter
<1>1. PICK deleted \in BOOLEAN :
        /\ ok => deleted
        /\ deleted => filters[k] # NoFilter
        /\ filters' = IF deleted THEN [filters EXCEPT ![k] = NoFilter] ELSE filters
        /\ abandoned' = IF deleted THEN abandoned \ {k}
                        ELSE IF filters[k].ours THEN abandoned \union {k} ELSE abandoned
  BY DEF Deletes
<1>2. CASE deleted
  <2>1. /\ filters' = [filters EXCEPT ![k] = NoFilter] /\ abandoned' = abandoned \ {k}
        /\ filters[k] # NoFilter
    BY <1>1, <1>2
  <2> QED
    BY <2>1 DEF CoreTypes, NoFilter
<1>3. CASE ~deleted
  <2>1. /\ filters' = filters /\ ~ok
        /\ abandoned' = IF filters[k].ours THEN abandoned \union {k} ELSE abandoned
    BY <1>1, <1>3
  <2> QED
    BY <2>1 DEF CoreTypes
<1> QED
  BY <1>2, <1>3

\* A link is detached and gone.
LEMMA LinkGone ==
  ASSUME CoreTypes, AttachmentsHeld, NEW l \in Link, NEW ok, DetachLink(l, ok), OthersKept(l),
         Holders(l)' = Holders(l) - 1, UNCHANGED finder,
         loaded' \in [Programs -> BOOLEAN], links' \in [Programs -> SUBSET Link],
         owned' \in [Link -> 0 .. MaxOwned],
         pc' \in [Programs -> {"idle", "undo", "unload", "drain"}],
         undo' \in [Programs -> 0 .. MaxKey],
         \A p \in Programs : (pc'[p] = "undo") = (undo'[p] # 0)
  PROVE  CoreStep
<1>1. Holders(l) \in Nat
  BY HoldersFacts
<1>2. CASE l.kind = "nl"
  <2>1. PICK k \in Keys : l.at = k /\ l = Nl(k)
    BY <1>2, LinkFacts
  <2>2. Deletes(k, ok) /\ tcx' = tcx
    BY <1>2, <2>1 DEF DetachLink
  <2>3. /\ filters' \in [Keys -> {NoFilter} \union [name : Programs, ours : BOOLEAN]]
        /\ abandoned' \subseteq Keys
        /\ \A j \in Keys : j # k => /\ filters'[j] = filters[j]
                                    /\ j \in abandoned' <=> j \in abandoned
        /\ filters'[k].ours => k \in abandoned'
    BY <2>2, DeletesFacts
  <2>4. CoreTypes'
    BY <2>2, <2>3 DEF CoreTypes
  <2>5. GainsRightly(k)
    BY <1>1, <2>1 DEF GainsRightly
  <2>6. \A j \in Keys : Nl(j) # l => j # k
    BY <2>1
  <2> QED
    BY <1>2, <2>1, <2>2, <2>3, <2>4, <2>5, <2>6, OneLink
<1>3. CASE l.kind = "tcx"
  <2>1. PICK n \in 1 .. MaxTcx : l.at = n /\ l = Tcx(n)
    BY <1>3, LinkFacts
  <2>2. tcx' = [tcx EXCEPT ![n] = Nobody] /\ UNCHANGED <<filters, abandoned>>
    BY <1>3, <2>1 DEF DetachLink
  <2>3. CoreTypes'
    BY <2>2 DEF CoreTypes
  <2>4. tcx'[n] = Nobody /\ \A m \in 1 .. MaxTcx : Tcx(m) # l => tcx'[m] = tcx[m]
    BY <2>1, <2>2 DEF CoreTypes
  <2>5. Holders(l)' = 0
    <3>1. Holders(l) = (IF tcx[n] \in Programs THEN 1 ELSE 0)
      BY <2>1 DEF AttachmentsHeld
    <3>2. Holders(l)' \in Nat
      <4>1. \A m \in Link : owned'[m] \in Nat
        OBVIOUS
      <4>2. /\ {p \in Programs : l \in links'[p]} \subseteq Programs
            /\ {p \in Programs : l.kind = "nl" /\ undo'[p] = l.at} \subseteq Programs
        OBVIOUS
      <4>3. /\ Cardinality({p \in Programs : l \in links'[p]}) \in Nat
            /\ Cardinality({p \in Programs : l.kind = "nl" /\ undo'[p] = l.at}) \in Nat
        BY <4>2, SizeWithout
      <4> QED
        BY <4>1, <4>3 DEF Holders
    <3> QED
      BY <3>1, <3>2
  <2>6. l.kind # "nl"
    BY <1>3
  <2> QED
    BY <1>3, <2>1, <2>2, <2>3, <2>4, <2>5, <2>6, OneLink
<1> QED
  BY <1>2, <1>3, LinkFacts

\* A program's link leaves its set.
LEMMA Untracked ==
  ASSUME CoreTypes, NEW p \in Programs, NEW l \in links[p],
         links' = [links EXCEPT ![p] = links[p] \ {l}], undo' = undo,
         owned' \in [Link -> 0 .. MaxOwned], \A m \in Link : m # l => owned'[m] = owned[m]
  PROVE  /\ l \in Link /\ links' \in [Programs -> SUBSET Link] /\ OthersKept(l)
         /\ Holders(l) \in Nat /\ owned[l] \in Nat /\ owned'[l] \in Nat
         /\ Holders(l)' = Holders(l) - 1 + (owned'[l] - owned[l])
<1>1. l \in Link /\ links' \in [Programs -> SUBSET Link]
  BY DEF CoreTypes
<1>2. \A q \in Programs : links'[q] = IF q = p THEN links[p] \ {l} ELSE links[q]
  BY DEF CoreTypes
<1>3. OthersKept(l)
  BY <1>2 DEF OthersKept
<1>4. PICK r \in Nat : /\ Holders(l) = owned[l] + Mine(p, l) + r
                       /\ Holders(l)' = owned'[l] + Mine(p, l)' + r
  <2>1. owned'[l] \in Nat
    BY <1>1
  <2>2. \A q \in Programs : q # p => /\ l \in links'[q] <=> l \in links[q]
                                     /\ l.kind = "nl" => (undo'[q] = l.at <=> undo[q] = l.at)
    BY <1>2
  <2> QED
    BY <1>1, <2>1, <2>2, HoldersChange
<1>5. Mine(p, l)' = Mine(p, l) - 1 /\ Mine(p, l) \in Nat
  BY <1>2 DEF Mine
<1>6. Holders(l) \in Nat /\ owned[l] \in Nat /\ owned'[l] \in Nat
  BY <1>1, HoldersFacts
<1> QED
  BY <1>1, <1>3, <1>4, <1>5, <1>6

\* The application gives a link away.
LEMMA Given ==
  ASSUME CoreTypes, NEW l \in Link, owned[l] > 0, Give(l)
  PROVE  /\ owned' \in [Link -> 0 .. MaxOwned] /\ owned[l] \in Nat /\ owned'[l] = owned[l] - 1
         /\ \A m \in Link : m # l => owned'[m] = owned[m]
BY DEF Give, CoreTypes

LEMMA GivenGone ==
  ASSUME CoreTypes, NEW l \in Link, owned[l] > 0, Give(l), UNCHANGED <<links, undo>>
  PROVE  /\ OthersKept(l) /\ Holders(l)' = Holders(l) - 1 /\ Holders(l) \in Nat
<1>1. /\ owned[l] \in Nat /\ owned'[l] = owned[l] - 1
      /\ \A m \in Link : m # l => owned'[m] = owned[m]
  BY Given
<1>2. OthersKept(l)
  BY <1>1 DEF OthersKept
<1>3. Holders(l)' = owned'[l] + Cardinality(Trackers(l)) + Cardinality(Undoers(l))
  BY HoldersKept
<1>4. /\ Holders(l) = owned[l] + Cardinality(Trackers(l)) + Cardinality(Undoers(l))
      /\ Holders(l) \in Nat
  BY HoldersFacts
<1>5. Cardinality(Trackers(l)) \in Nat /\ Cardinality(Undoers(l)) \in Nat
  <2>1. Trackers(l) \subseteq Programs /\ Undoers(l) \subseteq Programs
    BY DEF Trackers, Undoers
  <2> QED
    BY <2>1, SizeWithout
<1> QED
  BY <1>1, <1>2, <1>3, <1>4, <1>5

-----------------------------------------------------------------------------
(* Programs *)

\* Nothing is attached, detached or handed over.
LEMMA NothingMoves ==
  ASSUME CoreTypes, AttachmentsHeld, CoreTypes',
         UNCHANGED <<filters, tcx, links, owned, undo, abandoned>>
  PROVE  CoreStep
<1>1. \A l \in Link : Holders(l)' = Holders(l)
  BY DEF Holders
<1>2. \A l \in Link : Holders(l) \in Nat
  BY HoldersFacts
<1> QED
  BY <1>1, <1>2, LinkFacts DEF CoreStep, AttachmentsHeld, GainsRightly

LEMMA LoadStep ==
  ASSUME CoreTypes, AttachmentsHeld, NEW p \in Programs, Load(p)
  PROVE  CoreStep
<1>1. /\ loaded' = [loaded EXCEPT ![p] = TRUE]
      /\ UNCHANGED <<filters, tcx, links, owned, pc, undo, finder, abandoned>>
  BY DEF Load
<1>2. CoreTypes'
  BY <1>1 DEF CoreTypes
<1> QED
  BY <1>1, <1>2, NothingMoves

LEMMA StartUnloadStep ==
  ASSUME CoreTypes, AttachmentsHeld, NEW p \in Programs, StartUnload(p)
  PROVE  CoreStep
<1>1. /\ pc[p] = "idle" /\ pc' = [pc EXCEPT ![p] = "unload"]
      /\ UNCHANGED <<filters, tcx, loaded, links, owned, undo, finder, abandoned>>
  BY DEF StartUnload
<1>2. CoreTypes'
  BY <1>1 DEF CoreTypes
<1> QED
  BY <1>1, <1>2, NothingMoves

LEMMA FinishUnloadStep ==
  ASSUME CoreTypes, AttachmentsHeld, NEW p \in Programs, FinishUnload(p)
  PROVE  CoreStep
<1>1. /\ pc[p] \in {"unload", "drain"} /\ pc' = [pc EXCEPT ![p] = "idle"]
      /\ loaded' = [loaded EXCEPT ![p] = (pc[p] = "drain")]
      /\ UNCHANGED <<filters, tcx, links, owned, undo, finder, abandoned>>
  BY DEF FinishUnload
<1>2. CoreTypes'
  <2>1. loaded' \in [Programs -> BOOLEAN]
    BY <1>1 DEF CoreTypes
  <2> QED
    BY <1>1, <2>1 DEF CoreTypes
<1> QED
  BY <1>1, <1>2, NothingMoves

\* Links::insert: the program holds the link once more, tracked or being dropped.
LEMMA InsertFacts ==
  ASSUME CoreTypes, NEW p \in Programs, NEW l \in Link, Insert(p, l), pc[p] = "idle",
         l.kind = "tcx" => l \notin links[p],
         owned' \in [Link -> 0 .. MaxOwned], \A m \in Link : m # l => owned'[m] = owned[m]
  PROVE  /\ links' \in [Programs -> SUBSET Link]
         /\ pc' \in [Programs -> {"idle", "undo", "unload", "drain"}]
         /\ undo' \in [Programs -> 0 .. MaxKey]
         /\ \A q \in Programs : (pc'[q] = "undo") = (undo'[q] # 0)
         /\ OthersKept(l)
         /\ Holders(l) \in Nat /\ owned[l] \in Nat /\ owned'[l] \in Nat
         /\ Holders(l)' = Holders(l) + 1 + (owned'[l] - owned[l])
<1>1. undo[p] = 0
  BY DEF CoreTypes
<1>2. Holders(l) \in Nat /\ owned[l] \in Nat /\ owned'[l] \in Nat
  BY HoldersFacts
<1>3. CASE l \in links[p]
  <2>1. PICK k \in Keys : l = Nl(k) /\ l.kind = "nl" /\ l.at = k
    BY <1>3, LinkFacts
  <2>2. /\ pc' = [pc EXCEPT ![p] = "undo"] /\ undo' = [undo EXCEPT ![p] = k] /\ links' = links
    BY <1>3, <2>1 DEF Insert
  <2>3. k # 0 /\ k \in 0 .. MaxKey
    BY <2>1, LinkFacts
  <2>4. \A q \in Programs : undo'[q] = IF q = p THEN k ELSE undo[q]
    BY <2>2 DEF CoreTypes
  <2>5. /\ pc' \in [Programs -> {"idle", "undo", "unload", "drain"}]
        /\ undo' \in [Programs -> 0 .. MaxKey] /\ links' \in [Programs -> SUBSET Link]
        /\ \A q \in Programs : (pc'[q] = "undo") = (undo'[q] # 0)
    BY <2>2, <2>3 DEF CoreTypes
  <2>6. OthersKept(l)
    <3>1. SUFFICES ASSUME NEW m \in Link, m # l, m.kind = "nl"
                   PROVE  m.at # k /\ m.at # 0
      BY <1>1, <2>2, <2>4 DEF OthersKept
    <3> QED
      BY <2>1, <3>1, LinkFacts
  <2>7. PICK r \in Nat : /\ Holders(l) = owned[l] + Mine(p, l) + r
                         /\ Holders(l)' = owned'[l] + Mine(p, l)' + r
    <3>1. \A q \in Programs : q # p => /\ l \in links'[q] <=> l \in links[q]
                                       /\ l.kind = "nl" => (undo'[q] = l.at <=> undo[q] = l.at)
      BY <2>2, <2>4
    <3> QED
      BY <1>2, <3>1, HoldersChange
  <2>8. Mine(p, l) = 1 /\ Mine(p, l)' = 2
    BY <1>1, <1>3, <2>1, <2>2, <2>3, <2>4 DEF Mine
  <2> QED
    BY <1>2, <2>5, <2>6, <2>7, <2>8
<1>4. CASE l \notin links[p]
  <2>1. links' = [links EXCEPT ![p] = links[p] \union {l}] /\ UNCHANGED <<pc, undo>>
    BY <1>4 DEF Insert
  <2>2. \A q \in Programs : links'[q] = IF q = p THEN links[p] \union {l} ELSE links[q]
    BY <2>1 DEF CoreTypes
  <2>3. /\ pc' \in [Programs -> {"idle", "undo", "unload", "drain"}]
        /\ undo' \in [Programs -> 0 .. MaxKey] /\ links' \in [Programs -> SUBSET Link]
        /\ \A q \in Programs : (pc'[q] = "undo") = (undo'[q] # 0)
    BY <2>1 DEF CoreTypes
  <2>4. OthersKept(l)
    BY <2>1, <2>2 DEF OthersKept
  <2>5. PICK r \in Nat : /\ Holders(l) = owned[l] + Mine(p, l) + r
                         /\ Holders(l)' = owned'[l] + Mine(p, l)' + r
    <3>1. \A q \in Programs : q # p => /\ l \in links'[q] <=> l \in links[q]
                                       /\ l.kind = "nl" => (undo'[q] = l.at <=> undo[q] = l.at)
      BY <2>1, <2>2
    <3> QED
      BY <1>2, <3>1, HoldersChange
  <2>6. Mine(p, l)' = Mine(p, l) + 1 /\ Mine(p, l) \in Nat
    BY <1>4, <2>1, <2>2 DEF Mine
  <2> QED
    BY <1>2, <2>3, <2>4, <2>5, <2>6
<1> QED
  BY <1>3, <1>4

\* A filter of this process at a key.
LEMMA FilterFacts ==
  ASSUME CoreTypes, NEW k \in Keys, NEW p \in Programs, NEW ours \in BOOLEAN,
         filters' = [filters EXCEPT ![k] = Filter(p, ours)]
  PROVE  /\ filters' \in [Keys -> {NoFilter} \union [name : Programs, ours : BOOLEAN]]
         /\ filters'[k] = Filter(p, ours) /\ filters'[k] # NoFilter
         /\ filters'[k].ours = ours
         /\ \A j \in Keys : j # k => filters'[j] = filters[j]
<1>1. Filter(p, ours) \in [name : Programs, ours : BOOLEAN] /\ Filter(p, ours).ours = ours
  BY DEF Filter
<1>2. Filter(p, ours) # NoFilter
  BY DEF Filter, NoFilter
<1> QED
  BY <1>1, <1>2 DEF CoreTypes

LEMMA AttachNetlinkStep ==
  ASSUME CoreTypes, AttachmentsHeld, NEW p \in Programs, NEW k \in Keys, AttachNetlink(p, k)
  PROVE  CoreStep
<1>1. PICK l \in Link : l = Nl(k) /\ l.kind = "nl" /\ l.at = k
  BY LinkFacts
<1>2. /\ pc[p] = "idle" /\ filters[k] = NoFilter
      /\ filters' = [filters EXCEPT ![k] = Filter(p, TRUE)] /\ Insert(p, l)
      /\ UNCHANGED <<tcx, loaded, owned, finder, abandoned>>
  BY <1>1 DEF AttachNetlink
<1>3. /\ filters' \in [Keys -> {NoFilter} \union [name : Programs, ours : BOOLEAN]]
      /\ filters'[k] # NoFilter /\ \A j \in Keys : j # k => filters'[j] = filters[j]
  BY <1>2, FilterFacts
<1>4. owned' \in [Link -> 0 .. MaxOwned] /\ \A m \in Link : m # l => owned'[m] = owned[m]
  BY <1>2 DEF CoreTypes
<1>5. /\ links' \in [Programs -> SUBSET Link]
      /\ pc' \in [Programs -> {"idle", "undo", "unload", "drain"}]
      /\ undo' \in [Programs -> 0 .. MaxKey]
      /\ \A q \in Programs : (pc'[q] = "undo") = (undo'[q] # 0)
      /\ OthersKept(l)
      /\ Holders(l) \in Nat /\ owned[l] \in Nat /\ owned'[l] \in Nat
      /\ Holders(l)' = Holders(l) + 1 + (owned'[l] - owned[l])
  <2>1. l.kind = "tcx" => l \notin links[p]
    BY <1>1
  <2> QED
    BY <1>2, <1>4, <2>1, InsertFacts
<1>6. CoreTypes'
  BY <1>2, <1>3, <1>4, <1>5 DEF CoreTypes
<1>7. Holders(l)' = Holders(l) + 1 /\ Holders(l)' > 0
  BY <1>2, <1>5
<1>8. GainsRightly(k)
  BY <1>1, <1>2, <1>3, <1>7 DEF GainsRightly
<1>9. /\ \A j \in Keys : Nl(j) # l => filters'[j] = filters[j] /\ (j \in abandoned' <=> j \in abandoned)
      /\ \A n \in 1 .. MaxTcx : Tcx(n) # l => tcx'[n] = tcx[n]
      /\ l.kind # "tcx"
  BY <1>1, <1>2, <1>3
<1> QED
  BY <1>1, <1>5, <1>6, <1>7, <1>8, <1>9, OneLink

\* A filter without a link: one whose key is not learnt, or that is somebody else's.
LEMMA FilterOnly ==
  ASSUME CoreTypes, AttachmentsHeld, CoreTypes', NEW k \in Keys,
         \A j \in Keys : j # k => filters'[j] = filters[j] /\ (j \in abandoned' <=> j \in abandoned),
         filters'[k].ours => k \in abandoned',
         UNCHANGED <<tcx, links, owned, undo>>
  PROVE  CoreStep
<1>1. PICK l \in Link : l = Nl(k) /\ l.kind = "nl" /\ l.at = k
  BY LinkFacts
<1>2. OthersKept(l)
  BY DEF OthersKept
<1>3. Holders(l)' = Holders(l) /\ Holders(l) \in Nat
  BY HoldersFacts DEF Holders
<1>4. GainsRightly(k)
  BY <1>1, <1>3 DEF GainsRightly
<1>5. \A j \in Keys : Nl(j) # l => j # k
  BY <1>1
<1>6. l.kind # "tcx"
  BY <1>1
<1> QED
  BY <1>1, <1>2, <1>4, <1>5, <1>6, OneLink

LEMMA AttachUntoldStep ==
  ASSUME CoreTypes, AttachmentsHeld, NEW p \in Programs, NEW k \in Keys, AttachUntold(p, k)
  PROVE  CoreStep
<1>1. /\ filters' = [filters EXCEPT ![k] = Filter(p, TRUE)] /\ abandoned' = abandoned \union {k}
      /\ UNCHANGED <<tcx, loaded, links, owned, pc, undo, finder>>
  BY DEF AttachUntold, linkVars
<1>2. /\ filters' \in [Keys -> {NoFilter} \union [name : Programs, ours : BOOLEAN]]
      /\ \A j \in Keys : j # k => filters'[j] = filters[j]
  BY <1>1, FilterFacts
<1>3. CoreTypes'
  BY <1>1, <1>2 DEF CoreTypes
<1> QED
  BY <1>1, <1>2, <1>3, FilterOnly

LEMMA UndoStep ==
  ASSUME CoreTypes, AttachmentsHeld, NEW p \in Programs, Undo(p)
  PROVE  CoreStep
<1>1. PICK ok \in BOOLEAN :
        /\ pc[p] = "undo" /\ Deletes(undo[p], ok)
        /\ pc' = [pc EXCEPT ![p] = "idle"] /\ undo' = [undo EXCEPT ![p] = 0]
        /\ UNCHANGED <<tcx, loaded, links, owned, finder>>
  BY DEF Undo
<1>2. PICK k \in Keys : k = undo[p]
  BY <1>1 DEF CoreTypes, Keys
<1>3. PICK l \in Link : l = Nl(k) /\ l.kind = "nl" /\ l.at = k
  BY LinkFacts
<1>4. DetachLink(l, ok)
  BY <1>1, <1>2, <1>3 DEF DetachLink
<1>5. \A q \in Programs : undo'[q] = IF q = p THEN 0 ELSE undo[q]
  BY <1>1 DEF CoreTypes
<1>6. OthersKept(l)
  <2>1. SUFFICES ASSUME NEW m \in Link, m # l, m.kind = "nl"
                 PROVE  m.at # k /\ m.at # 0
    BY <1>1, <1>2, <1>5 DEF OthersKept
  <2> QED
    BY <1>3, <2>1, LinkFacts
<1>7. Holders(l)' = Holders(l) - 1
  <2>1. PICK r \in Nat : /\ Holders(l) = owned[l] + Mine(p, l) + r
                         /\ Holders(l)' = owned'[l] + Mine(p, l)' + r
    <3>1. \A q \in Programs : q # p => /\ l \in links'[q] <=> l \in links[q]
                                       /\ l.kind = "nl" => (undo'[q] = l.at <=> undo[q] = l.at)
      BY <1>1, <1>5
    <3>2. owned'[l] \in Nat
      BY <1>1 DEF CoreTypes
    <3> QED
      BY <3>1, <3>2, HoldersChange
  <2>2. Mine(p, l)' = Mine(p, l) - 1 /\ Mine(p, l) \in Nat
    BY <1>1, <1>2, <1>3, <1>5, LinkFacts DEF Mine
  <2>3. owned[l] \in Nat /\ owned' = owned
    BY <1>1 DEF CoreTypes
  <2> QED
    BY <2>1, <2>2, <2>3
<1>8. /\ loaded' \in [Programs -> BOOLEAN] /\ links' \in [Programs -> SUBSET Link]
      /\ owned' \in [Link -> 0 .. MaxOwned]
      /\ pc' \in [Programs -> {"idle", "undo", "unload", "drain"}]
      /\ undo' \in [Programs -> 0 .. MaxKey]
      /\ \A q \in Programs : (pc'[q] = "undo") = (undo'[q] # 0)
  BY <1>1 DEF CoreTypes
<1> QED
  BY <1>1, <1>4, <1>6, <1>7, <1>8, LinkGone


\* A TCX link that runs nothing is held by nobody.
LEMMA AttachTcxStep ==
  ASSUME CoreTypes, AttachmentsHeld, NEW p \in Programs, AttachTcx(p)
  PROVE  CoreStep
<1>1. PICK n \in 1 .. MaxTcx :
        /\ pc[p] = "idle" /\ tcx[n] = Nobody /\ tcx' = [tcx EXCEPT ![n] = p]
        /\ Insert(p, Tcx(n))
        /\ UNCHANGED <<filters, loaded, owned, finder, abandoned>>
  BY DEF AttachTcx
<1>2. PICK l \in Link : l = Tcx(n) /\ l.kind = "tcx" /\ l.at = n
  BY LinkFacts
<1>3. Holders(l) = 0
  BY <1>1, <1>2 DEF AttachmentsHeld
<1>4. l \notin links[p]
  <2>1. Mine(p, l) \in Nat /\ 0 >= owned[l] + Mine(p, l) /\ owned[l] \in Nat
    BY <1>3, HoldersFacts
  <2>2. Mine(p, l) = 0
    BY <2>1
  <2>3. l \in links[p] => Mine(p, l) >= 1
    BY DEF Mine
  <2> QED
    BY <2>2, <2>3
<1>5. owned' \in [Link -> 0 .. MaxOwned] /\ \A m \in Link : m # l => owned'[m] = owned[m]
  BY <1>1 DEF CoreTypes
<1>6. /\ links' \in [Programs -> SUBSET Link]
      /\ pc' \in [Programs -> {"idle", "undo", "unload", "drain"}]
      /\ undo' \in [Programs -> 0 .. MaxKey]
      /\ \A q \in Programs : (pc'[q] = "undo") = (undo'[q] # 0)
      /\ OthersKept(l)
      /\ owned[l] \in Nat /\ owned'[l] \in Nat
      /\ Holders(l)' = Holders(l) + 1 + (owned'[l] - owned[l])
  <2>1. Insert(p, l)
    BY <1>1, <1>2
  <2> QED
    BY <1>1, <1>4, <1>5, <2>1, InsertFacts
<1>7. CoreTypes'
  <2>1. tcx' \in [1 .. MaxTcx -> Programs \union {Nobody}]
    BY <1>1 DEF CoreTypes
  <2> QED
    BY <1>1, <1>5, <1>6, <2>1 DEF CoreTypes
<1>8. Holders(l)' = (IF tcx'[n] \in Programs THEN 1 ELSE 0)
  <2>1. tcx'[n] = p
    BY <1>1 DEF CoreTypes
  <2> QED
    BY <1>1, <1>3, <1>6, <2>1
<1>9. /\ \A j \in Keys : Nl(j) # l => filters'[j] = filters[j] /\ (j \in abandoned' <=> j \in abandoned)
      /\ \A m \in 1 .. MaxTcx : Tcx(m) # l => tcx'[m] = tcx[m]
      /\ l.kind # "nl"
  <2>1. \A m \in 1 .. MaxTcx : m # n => tcx'[m] = tcx[m]
    BY <1>1 DEF CoreTypes
  <2> QED
    BY <1>1, <1>2, <2>1
<1> QED
  BY <1>2, <1>6, <1>7, <1>8, <1>9, OneLink

LEMMA DetachStep ==
  ASSUME CoreTypes, AttachmentsHeld, NEW p \in Programs, NEW l \in links[p], Detach(p, l)
  PROVE  CoreStep
<1>1. PICK ok \in BOOLEAN :
        /\ links' = [links EXCEPT ![p] = links[p] \ {l}] /\ DetachLink(l, ok)
        /\ UNCHANGED <<loaded, owned, pc, undo, finder>>
  BY DEF Detach
<1>2. owned' \in [Link -> 0 .. MaxOwned] /\ \A m \in Link : owned'[m] = owned[m]
  BY <1>1 DEF CoreTypes
<1>3. /\ l \in Link /\ links' \in [Programs -> SUBSET Link] /\ OthersKept(l)
      /\ Holders(l) \in Nat /\ owned[l] \in Nat /\ owned'[l] \in Nat
      /\ Holders(l)' = Holders(l) - 1 + (owned'[l] - owned[l])
  BY <1>1, <1>2, Untracked
<1>4. Holders(l)' = Holders(l) - 1
  BY <1>2, <1>3
<1>5. /\ loaded' \in [Programs -> BOOLEAN]
      /\ pc' \in [Programs -> {"idle", "undo", "unload", "drain"}]
      /\ undo' \in [Programs -> 0 .. MaxKey]
      /\ \A q \in Programs : (pc'[q] = "undo") = (undo'[q] # 0)
  BY <1>1 DEF CoreTypes
<1> QED
  BY <1>1, <1>2, <1>3, <1>4, <1>5, LinkGone

LEMMA RemoveAllStep ==
  ASSUME CoreTypes, AttachmentsHeld, NEW p \in Programs, NEW l \in links[p], RemoveAll(p, l)
  PROVE  CoreStep
<1>1. PICK ok \in BOOLEAN :
        /\ pc[p] \in {"unload", "drain"}
        /\ links' = [links EXCEPT ![p] = links[p] \ {l}] /\ DetachLink(l, ok)
        /\ pc' = IF ok THEN pc ELSE [pc EXCEPT ![p] = "drain"]
        /\ UNCHANGED <<loaded, owned, undo, finder>>
  BY DEF RemoveAll
<1>2. owned' \in [Link -> 0 .. MaxOwned] /\ \A m \in Link : owned'[m] = owned[m]
  BY <1>1 DEF CoreTypes
<1>3. /\ l \in Link /\ links' \in [Programs -> SUBSET Link] /\ OthersKept(l)
      /\ Holders(l) \in Nat /\ owned[l] \in Nat /\ owned'[l] \in Nat
      /\ Holders(l)' = Holders(l) - 1 + (owned'[l] - owned[l])
  BY <1>1, <1>2, Untracked
<1>4. Holders(l)' = Holders(l) - 1
  BY <1>2, <1>3
<1>5. /\ loaded' \in [Programs -> BOOLEAN]
      /\ pc' \in [Programs -> {"idle", "undo", "unload", "drain"}]
      /\ undo' \in [Programs -> 0 .. MaxKey]
      /\ \A q \in Programs : (pc'[q] = "undo") = (undo'[q] # 0)
  <2>1. CASE ok
    BY <1>1, <2>1 DEF CoreTypes
  <2>2. CASE ~ok
    BY <1>1, <2>2 DEF CoreTypes
  <2> QED
    BY <2>1, <2>2
<1> QED
  BY <1>1, <1>2, <1>3, <1>4, <1>5, LinkGone

\* From the program to the application.
LEMMA TakeLinkStep ==
  ASSUME CoreTypes, AttachmentsHeld, NEW p \in Programs, NEW l \in links[p], TakeLink(p, l)
  PROVE  CoreStep
<1>1. /\ links' = [links EXCEPT ![p] = links[p] \ {l}]
      /\ owned[l] < MaxOwned /\ owned' = [owned EXCEPT ![l] = owned[l] + 1]
      /\ UNCHANGED <<filters, tcx, loaded, pc, undo, finder, abandoned>>
  BY DEF TakeLink, Gain
<1>2. l \in Link
  BY DEF CoreTypes
<1>3. /\ owned' \in [Link -> 0 .. MaxOwned] /\ owned'[l] = owned[l] + 1
      /\ \A m \in Link : m # l => owned'[m] = owned[m]
  BY <1>1, <1>2 DEF CoreTypes
<1>4. /\ links' \in [Programs -> SUBSET Link] /\ OthersKept(l)
      /\ Holders(l) \in Nat /\ owned[l] \in Nat
      /\ Holders(l)' = Holders(l) - 1 + (owned'[l] - owned[l])
  BY <1>1, <1>3, Untracked
<1>5. Holders(l)' = Holders(l)
  BY <1>3, <1>4
<1>6. CoreTypes'
  BY <1>1, <1>3, <1>4 DEF CoreTypes
<1>7. l.kind = "nl" => /\ filters'[l.at].ours => (Holders(l)' > 0 \/ l.at \in abandoned')
                       /\ GainsRightly(l.at)
  <2>1. SUFFICES ASSUME NEW k \in Keys, l = Nl(k), l.at = k
                 PROVE  /\ filters'[k].ours => (Holders(l)' > 0 \/ k \in abandoned')
                        /\ GainsRightly(k)
    BY <1>2, LinkFacts
  <2> QED
    BY <1>1, <1>4, <1>5, <2>1 DEF AttachmentsHeld, GainsRightly
<1>8. l.kind = "tcx" => Holders(l)' = (IF tcx'[l.at] \in Programs THEN 1 ELSE 0)
  BY <1>1, <1>2, <1>5, LinkFacts DEF AttachmentsHeld
<1> QED
  BY <1>1, <1>2, <1>4, <1>6, <1>7, <1>8, OneLink

-----------------------------------------------------------------------------
(* attach_to_link and the links of the application *)

\* The application's link is detached, whether by its Drop or because the program that it
\* was given to is not loaded, or because the kernel refuses the update.
LEMMA OwnedDetached ==
  ASSUME CoreTypes, AttachmentsHeld, NEW l \in Link, NEW ok,
         owned[l] > 0, Give(l), DetachLink(l, ok), UNCHANGED <<loaded, links, pc, undo, finder>>
  PROVE  CoreStep
<1>1. owned' \in [Link -> 0 .. MaxOwned]
  BY Given
<1>2. OthersKept(l) /\ Holders(l)' = Holders(l) - 1
  BY GivenGone
<1>3. /\ loaded' \in [Programs -> BOOLEAN] /\ links' \in [Programs -> SUBSET Link]
      /\ pc' \in [Programs -> {"idle", "undo", "unload", "drain"}]
      /\ undo' \in [Programs -> 0 .. MaxKey]
      /\ \A q \in Programs : (pc'[q] = "undo") = (undo'[q] # 0)
  BY DEF CoreTypes
<1> QED
  BY <1>1, <1>2, <1>3, LinkGone

LEMMA ReplaceTcxStep ==
  ASSUME CoreTypes, AttachmentsHeld, NEW p \in Programs, NEW l \in Link, ReplaceTcx(p, l)
  PROVE  CoreStep
<1>1. PICK program \in {p, Nobody} :
        /\ owned[l] > 0 /\ l.kind = "tcx" /\ Give(l)
        /\ tcx' = [tcx EXCEPT ![l.at] = program]
        /\ links' = IF program = p THEN [links EXCEPT ![p] = links[p] \union {l}] ELSE links
        /\ UNCHANGED <<filters, loaded, pc, undo, finder, abandoned>>
  BY DEF ReplaceTcx
<1>2. p # Nobody
  OBVIOUS
<1>3. CASE program = Nobody
  <2>1. DetachLink(l, TRUE) /\ links' = links
    BY <1>1, <1>2, <1>3 DEF DetachLink
  <2> QED
    BY <1>1, <2>1, OwnedDetached
<1>4. CASE program = p
  <2>1. PICK n \in 1 .. MaxTcx : l = Tcx(n) /\ l.at = n
    BY <1>1, LinkFacts
  <2>2. links' = [links EXCEPT ![p] = links[p] \union {l}] /\ tcx' = [tcx EXCEPT ![n] = p]
    BY <1>1, <1>4, <2>1
  <2>3. /\ owned' \in [Link -> 0 .. MaxOwned] /\ owned[l] \in Nat /\ owned'[l] = owned[l] - 1
        /\ \A m \in Link : m # l => owned'[m] = owned[m]
    BY <1>1, Given
  <2>4. \A q \in Programs : links'[q] = IF q = p THEN links[p] \union {l} ELSE links[q]
    BY <2>2 DEF CoreTypes
  <2>5. OthersKept(l)
    BY <1>1, <2>3, <2>4 DEF OthersKept
  <2>6. Holders(l) = (IF tcx[n] \in Programs THEN 1 ELSE 0)
    BY <2>1 DEF AttachmentsHeld
  <2>7. Holders(l) = 1 /\ owned[l] = 1 /\ Mine(p, l) = 0
    <3>1. Holders(l) >= owned[l] + Mine(p, l) /\ Mine(p, l) \in Nat
      BY HoldersFacts
    <3> QED
      BY <1>1, <2>3, <2>6, <3>1
  <2>8. PICK r \in Nat : /\ Holders(l) = owned[l] + Mine(p, l) + r
                         /\ Holders(l)' = owned'[l] + Mine(p, l)' + r
    <3>1. \A q \in Programs : q # p => /\ l \in links'[q] <=> l \in links[q]
                                       /\ l.kind = "nl" => (undo'[q] = l.at <=> undo[q] = l.at)
      BY <1>1, <2>4
    <3>2. owned'[l] \in Nat
      BY <2>3
    <3> QED
      BY <3>1, <3>2, HoldersChange
  <2>9. Mine(p, l)' = 1
    BY <1>1, <2>4 DEF Mine
  <2>10. Holders(l)' = 1
    BY <2>3, <2>7, <2>8, <2>9
  <2>11. CoreTypes'
    <3>1. links' \in [Programs -> SUBSET Link] /\ tcx' \in [1 .. MaxTcx -> Programs \union {Nobody}]
      BY <2>2 DEF CoreTypes
    <3> QED
      BY <1>1, <2>3, <3>1 DEF CoreTypes
  <2>12. tcx'[n] = p /\ \A m \in 1 .. MaxTcx : m # n => tcx'[m] = tcx[m]
    BY <2>2 DEF CoreTypes
  <2>13. /\ \A m \in 1 .. MaxTcx : Tcx(m) # l => tcx'[m] = tcx[m]
         /\ l.kind # "nl"
         /\ Holders(l)' = (IF tcx'[l.at] \in Programs THEN 1 ELSE 0)
    BY <1>1, <2>1, <2>10, <2>12
  <2> QED
    BY <1>1, <2>5, <2>11, <2>13, OneLink
<1> QED
  BY <1>3, <1>4

LEMMA ReplaceNetlinkStep ==
  ASSUME CoreTypes, AttachmentsHeld, NEW p \in Programs, NEW l \in Link, ReplaceNetlink(p, l)
  PROVE  CoreStep
<1>1. PICK k \in Keys : l = Nl(k) /\ l.kind = "nl" /\ l.at = k
  BY LinkFacts DEF ReplaceNetlink
<1>2. /\ pc[p] = "idle" /\ owned[l] > 0 /\ Give(l)
      /\ filters' = [filters EXCEPT ![k] = Filter(p, TRUE)]
      /\ abandoned' = abandoned \ {k}
      /\ Insert(p, l)
      /\ UNCHANGED <<tcx, loaded, finder>>
  BY <1>1 DEF ReplaceNetlink
<1>3. /\ owned' \in [Link -> 0 .. MaxOwned] /\ owned[l] \in Nat /\ owned'[l] = owned[l] - 1
      /\ \A m \in Link : m # l => owned'[m] = owned[m]
  BY <1>2, Given
<1>4. /\ links' \in [Programs -> SUBSET Link]
      /\ pc' \in [Programs -> {"idle", "undo", "unload", "drain"}]
      /\ undo' \in [Programs -> 0 .. MaxKey]
      /\ \A q \in Programs : (pc'[q] = "undo") = (undo'[q] # 0)
      /\ OthersKept(l)
      /\ Holders(l) \in Nat
      /\ Holders(l)' = Holders(l) + 1 + (owned'[l] - owned[l])
  <2>1. l.kind = "tcx" => l \notin links[p]
    BY <1>1
  <2> QED
    BY <1>2, <1>3, <2>1, InsertFacts
<1>5. Holders(l)' = Holders(l) /\ Holders(l) > 0
  <2>1. Holders(l) >= owned[l]
    BY HoldersFacts
  <2> QED
    BY <1>2, <1>3, <1>4, <2>1
<1>6. /\ filters' \in [Keys -> {NoFilter} \union [name : Programs, ours : BOOLEAN]]
      /\ \A j \in Keys : j # k => filters'[j] = filters[j]
  BY <1>2, FilterFacts
<1>7. CoreTypes'
  <2>1. abandoned' \subseteq Keys
    BY <1>2 DEF CoreTypes
  <2> QED
    BY <1>2, <1>3, <1>4, <1>6, <2>1 DEF CoreTypes
<1>8. GainsRightly(k)
  BY <1>1, <1>4, <1>5 DEF GainsRightly
<1>9. /\ \A j \in Keys : Nl(j) # l => filters'[j] = filters[j] /\ (j \in abandoned' <=> j \in abandoned)
      /\ l.kind # "tcx" /\ Holders(l)' > 0
  BY <1>1, <1>2, <1>5, <1>6
<1> QED
  BY <1>1, <1>2, <1>4, <1>7, <1>8, <1>9, OneLink

\* The link is gone, and its filter stays or has been replaced: the key is abandoned.
LEMMA GivenAway ==
  ASSUME CoreTypes, AttachmentsHeld, NEW l \in Link, owned[l] > 0, Give(l),
         NEW k \in Keys, l = Nl(k), CoreTypes',
         \A j \in Keys : j # k => filters'[j] = filters[j] /\ (j \in abandoned' <=> j \in abandoned),
         filters'[k].ours => k \in abandoned',
         UNCHANGED <<tcx, links, undo>>
  PROVE  CoreStep
<1>1. OthersKept(l) /\ Holders(l)' = Holders(l) - 1 /\ Holders(l) \in Nat
  BY GivenGone
<1>2. GainsRightly(k) /\ l.kind # "tcx" /\ l.at = k
  BY <1>1, LinkFacts DEF GainsRightly
<1>3. \A j \in Keys : Nl(j) # l => j # k
  OBVIOUS
<1> QED
  BY <1>1, <1>2, <1>3, OneLink

LEMMA ReplaceNetlinkRefusedStep ==
  ASSUME CoreTypes, AttachmentsHeld, NEW p \in Programs, NEW l \in Link, ReplaceNetlinkRefused(p, l)
  PROVE  CoreStep
<1>1. PICK k \in Keys : l = Nl(k) /\ l.kind = "nl" /\ l.at = k
  BY LinkFacts DEF ReplaceNetlinkRefused
<1>2. /\ owned[l] > 0 /\ Give(l)
      /\ abandoned' = IF filters[k].ours THEN abandoned \union {k} ELSE abandoned
      /\ UNCHANGED <<filters, tcx, loaded, links, pc, undo, finder>>
  BY <1>1 DEF ReplaceNetlinkRefused
<1>3. owned' \in [Link -> 0 .. MaxOwned]
  BY <1>2, Given
<1>4. abandoned' \subseteq Keys /\ (filters'[k].ours => k \in abandoned')
      /\ \A j \in Keys : j # k => (j \in abandoned' <=> j \in abandoned)
  BY <1>2 DEF CoreTypes
<1>5. CoreTypes'
  BY <1>2, <1>3, <1>4 DEF CoreTypes
<1> QED
  BY <1>1, <1>2, <1>4, <1>5, GivenAway

LEMMA ReplaceUntoldStep ==
  ASSUME CoreTypes, AttachmentsHeld, NEW p \in Programs, NEW l \in Link, ReplaceUntold(p, l)
  PROVE  CoreStep
<1>1. PICK k \in Keys : l = Nl(k) /\ l.kind = "nl" /\ l.at = k
  BY LinkFacts DEF ReplaceUntold
<1>2. /\ owned[l] > 0 /\ Give(l)
      /\ filters' = [filters EXCEPT ![k] = Filter(p, TRUE)]
      /\ abandoned' = abandoned \union {k}
      /\ UNCHANGED <<tcx, loaded, links, pc, undo, finder>>
  BY <1>1 DEF ReplaceUntold
<1>3. owned' \in [Link -> 0 .. MaxOwned]
  BY <1>2, Given
<1>4. /\ filters' \in [Keys -> {NoFilter} \union [name : Programs, ours : BOOLEAN]]
      /\ \A j \in Keys : j # k => filters'[j] = filters[j]
  BY <1>2, FilterFacts
<1>5. abandoned' \subseteq Keys /\ k \in abandoned'
      /\ \A j \in Keys : j # k => (j \in abandoned' <=> j \in abandoned)
  BY <1>2 DEF CoreTypes
<1>6. CoreTypes'
  BY <1>2, <1>3, <1>4, <1>5 DEF CoreTypes
<1> QED
  BY <1>1, <1>2, <1>4, <1>5, <1>6, GivenAway

\* SchedClassifierLink::attached makes a link up.
LEMMA AttachedStep ==
  ASSUME CoreTypes, AttachmentsHeld, NEW k \in Keys, Attached(k)
  PROVE  CoreStep
<1>1. PICK l \in Link : l = Nl(k) /\ l.kind = "nl" /\ l.at = k
  BY LinkFacts
<1>2. /\ owned[l] < MaxOwned /\ owned' = [owned EXCEPT ![l] = owned[l] + 1]
      /\ UNCHANGED <<filters, tcx, loaded, links, pc, undo, finder, abandoned>>
  BY <1>1 DEF Attached, Gain
<1>3. /\ owned' \in [Link -> 0 .. MaxOwned] /\ owned'[l] = owned[l] + 1
      /\ \A m \in Link : m # l => owned'[m] = owned[m]
  BY <1>2 DEF CoreTypes
<1>4. OthersKept(l)
  BY <1>2, <1>3 DEF OthersKept
<1>5. Holders(l)' > 0
  <2>1. Holders(l)' = owned'[l] + Cardinality(Trackers(l)) + Cardinality(Undoers(l))
    BY <1>2, HoldersKept
  <2>2. /\ Holders(l) = owned[l] + Cardinality(Trackers(l)) + Cardinality(Undoers(l))
        /\ owned[l] \in Nat
    BY HoldersFacts
  <2>3. Cardinality(Trackers(l)) \in Nat /\ Cardinality(Undoers(l)) \in Nat
    <3>1. Trackers(l) \subseteq Programs /\ Undoers(l) \subseteq Programs
      BY DEF Trackers, Undoers
    <3> QED
      BY <3>1, SizeWithout
  <2> QED
    BY <1>3, <2>1, <2>2, <2>3
<1>6. CoreTypes'
  BY <1>2, <1>3 DEF CoreTypes
<1>7. GainsRightly(k) /\ l.kind # "tcx"
  BY <1>1 DEF GainsRightly
<1> QED
  BY <1>1, <1>2, <1>4, <1>5, <1>6, <1>7, OneLink

-----------------------------------------------------------------------------
(* The search and the environment *)

LEMMA OthersAddStep ==
  ASSUME CoreTypes, AttachmentsHeld, NEW k \in Keys, NEW n \in Programs, OthersAdd(k, n)
  PROVE  CoreStep
<1>1. /\ filters' = [filters EXCEPT ![k] = Filter(n, FALSE)]
      /\ UNCHANGED <<tcx, loaded, links, owned, pc, undo, finder, abandoned>>
  BY DEF OthersAdd, linkVars
<1>2. /\ filters' \in [Keys -> {NoFilter} \union [name : Programs, ours : BOOLEAN]]
      /\ ~filters'[k].ours
      /\ \A j \in Keys : j # k => filters'[j] = filters[j]
  BY <1>1, FilterFacts
<1>3. CoreTypes'
  BY <1>1, <1>2 DEF CoreTypes
<1> QED
  BY <1>1, <1>2, <1>3, FilterOnly

LEMMA OthersDeleteStep ==
  ASSUME CoreTypes, AttachmentsHeld, NEW k \in Keys, OthersDelete(k)
  PROVE  CoreStep
<1>1. /\ filters' = [filters EXCEPT ![k] = NoFilter] /\ abandoned' = abandoned \ {k}
      /\ UNCHANGED <<tcx, loaded, links, owned, pc, undo, finder>>
  BY DEF OthersDelete, linkVars
<1>2. /\ filters' \in [Keys -> {NoFilter} \union [name : Programs, ours : BOOLEAN]]
      /\ filters'[k] = NoFilter /\ ~filters'[k].ours
      /\ \A j \in Keys : j # k => filters'[j] = filters[j]
  BY <1>1 DEF CoreTypes, NoFilter
<1>3. CoreTypes'
  BY <1>1, <1>2 DEF CoreTypes
<1> QED
  BY <1>1, <1>2, <1>3, FilterOnly

FinderType == [step : {"none", "dump", "delete", "ok"}, name : Programs \union {Nobody},
               next : 0 .. MaxKey, found : SUBSET Keys]

LEMMA SearchFacts ==
  ASSUME NEW s \in {"none", "dump", "delete", "ok"}, NEW n \in Programs \union {Nobody}
  PROVE  /\ Search(s, n) \in FinderType
         /\ Search(s, n).step = s /\ Search(s, n).name = n
         /\ Search(s, n).next = 0 /\ Search(s, n).found = {}
BY DEF Search, FinderType

LEMMA DeleteFoundStep ==
  ASSUME CoreTypes, AttachmentsHeld, DeleteFound
  PROVE  CoreStep
<1>1. PICK k \in finder.found, ok \in BOOLEAN :
        /\ finder.step = "delete" /\ Deletes(k, ok)
        /\ finder' = IF ~ok THEN Search("none", Nobody)
                     ELSE IF finder.found = {k} THEN Search("ok", Nobody)
                     ELSE [finder EXCEPT !.found = finder.found \ {k}]
        /\ UNCHANGED <<tcx, loaded, links, owned, pc, undo>>
  BY DEF DeleteFound, linkVars
<1>2. k \in Keys /\ finder \in FinderType
  BY DEF CoreTypes, FinderType
<1>3. /\ filters' \in [Keys -> {NoFilter} \union [name : Programs, ours : BOOLEAN]]
      /\ abandoned' \subseteq Keys
      /\ \A j \in Keys : j # k => /\ filters'[j] = filters[j]
                                  /\ j \in abandoned' <=> j \in abandoned
      /\ filters'[k].ours => k \in abandoned'
  BY <1>1, <1>2, DeletesFacts
<1>4. finder' \in FinderType
  <2>1. Search("none", Nobody) \in FinderType /\ Search("ok", Nobody) \in FinderType
    BY SearchFacts
  <2>2. [finder EXCEPT !.found = finder.found \ {k}] \in FinderType
    BY <1>2 DEF FinderType
  <2> QED
    BY <1>1, <2>1, <2>2
<1>5. CoreTypes'
  BY <1>1, <1>3, <1>4 DEF CoreTypes, FinderType
<1> QED
  BY <1>1, <1>2, <1>3, <1>5, FilterOnly

LEMMA StartSearchStep ==
  ASSUME CoreTypes, AttachmentsHeld, NEW n \in Programs, StartSearch(n)
  PROVE  CoreStep
<1>1. /\ finder' = Search("dump", n)
      /\ UNCHANGED <<filters, tcx, loaded, links, owned, pc, undo, abandoned>>
  BY DEF StartSearch, linkVars
<1>2. finder' \in FinderType
  BY <1>1, SearchFacts
<1>3. CoreTypes'
  BY <1>1, <1>2 DEF CoreTypes, FinderType
<1> QED
  BY <1>1, <1>3, NothingMoves

LEMMA DumpFailsStep ==
  ASSUME CoreTypes, AttachmentsHeld, DumpFails
  PROVE  CoreStep
<1>1. /\ finder' = Search("none", Nobody)
      /\ UNCHANGED <<filters, tcx, loaded, links, owned, pc, undo, abandoned>>
  BY DEF DumpFails, linkVars
<1>2. finder' \in FinderType
  BY <1>1, SearchFacts
<1>3. CoreTypes'
  BY <1>1, <1>2 DEF CoreTypes, FinderType
<1> QED
  BY <1>1, <1>3, NothingMoves

\* A filter's place is below its key, and later keys have later places.
LEMMA PlaceFacts ==
  /\ \A k \in Keys : IsFiniteSet({j \in Present : j < k}) /\ Place(k) \in Nat /\ Place(k) < k
  /\ \A j, k \in Present : j < k => Place(j) < Place(k)
<1>1. Present \subseteq Keys /\ Keys \subseteq Nat
  BY DEF Present, Keys
<1>2. ASSUME NEW k \in Keys
      PROVE  IsFiniteSet({j \in Present : j < k}) /\ Place(k) \in Nat /\ Place(k) < k
  <2>1. k \in Nat /\ k >= 1
    BY DEF Keys
  <2>2. {j \in Present : j < k} \subseteq 1 .. (k - 1)
    <3>1. SUFFICES ASSUME NEW j \in Present, j < k PROVE j \in 1 .. (k - 1)
      OBVIOUS
    <3>2. j \in Nat /\ j >= 1
      BY <1>1 DEF Keys
    <3> QED
      BY <2>1, <3>1, <3>2
  <2>3. IsFiniteSet(1 .. (k - 1)) /\ Cardinality(1 .. (k - 1)) = k - 1
    <3>1. 1 \in Int /\ k - 1 \in Int
      BY <2>1
    <3>2. /\ IsFiniteSet(1 .. (k - 1))
          /\ Cardinality(1 .. (k - 1)) = IF 1 > k - 1 THEN 0 ELSE (k - 1) - 1 + 1
      BY <3>1, FS_Interval
    <3> QED
      BY <2>1, <3>2
  <2>4. /\ IsFiniteSet({j \in Present : j < k})
        /\ Cardinality({j \in Present : j < k}) <= k - 1
    <3>1. /\ IsFiniteSet({j \in Present : j < k})
          /\ Cardinality({j \in Present : j < k}) <= Cardinality(1 .. (k - 1))
      BY <2>2, <2>3, FS_Subset, Zenon
    <3> QED
      BY <2>3, <3>1
  <2>5. Cardinality({j \in Present : j < k}) \in Nat
    BY <2>4, FS_CardinalityType
  <2> QED
    BY <2>1, <2>4, <2>5 DEF Place
<1>3. ASSUME NEW j \in Present, NEW k \in Present, j < k PROVE Place(j) < Place(k)
  <2> DEFINE S == {i \in Present : i < j}
             T == {i \in Present : i < k}
  <2>1. IsFiniteSet(S) /\ IsFiniteSet(T) /\ Place(j) = Cardinality(S) /\ Place(k) = Cardinality(T)
    BY <1>1, <1>2 DEF Place
  <2>2. j \notin S /\ S \union {j} \subseteq T
    <3>1. \A i \in Present : i \in Nat
      BY <1>1
    <3>2. ~(j < j) /\ \A i \in Present : i < j => i < k
      BY <1>3, <3>1
    <3> QED
      BY <1>3, <3>2
  <2>3. Place(j) \in Nat /\ Place(k) \in Nat
    BY <1>1, <1>2
  <2> HIDE DEF S, T
  <2>4. Cardinality(S \union {j}) = Cardinality(S) + 1
    BY <2>1, <2>2, FS_AddElement
  <2>5. Cardinality(S \union {j}) <= Cardinality(T)
    BY <2>1, <2>2, FS_Subset
  <2> QED
    BY <2>1, <2>3, <2>4, <2>5
<1> QED
  BY <1>2, <1>3

\* c filters at c places in a row: the last of these places is below MaxKey.
LEMMA SentInRange ==
  ASSUME NEW m \in Nat, NEW c \in Nat, c > 0,
         Cardinality({k \in Present : Place(k) \in m .. (m + c - 1)}) = c
  PROVE  m + c \in 0 .. MaxKey
<1> DEFINE sent == {k \in Present : Place(k) \in m .. (m + c - 1)}
           I == m .. (m + c - 1)
           f == [k \in sent |-> Place(k)]
<1>1. \A k \in sent : k \in Keys /\ k \in Nat /\ Place(k) \in I
  BY DEF Present, Keys
<1>2. \A j, k \in sent : j # k => Place(j) # Place(k)
  <2>1. SUFFICES ASSUME NEW j \in sent, NEW k \in sent, j < k PROVE Place(j) # Place(k)
    BY <1>1
  <2>2. Place(j) < Place(k) /\ Place(j) \in Nat /\ Place(k) \in Nat
    BY <1>1, <2>1, PlaceFacts
  <2> QED
    BY <2>2
<1>3. f \in Injection(sent, I)
  BY <1>1, <1>2 DEF Injection, IsInjective
<1>4. IsFiniteSet(I) /\ Cardinality(I) = c
  <2>1. m \in Int /\ m + c - 1 \in Int
    OBVIOUS
  <2>2. /\ IsFiniteSet(I)
        /\ Cardinality(I) = IF m > m + c - 1 THEN 0 ELSE (m + c - 1) - m + 1
    BY <2>1, FS_Interval
  <2> QED
    BY <2>2
<1>5. Cardinality(sent) = c
  OBVIOUS
<1> HIDE DEF sent, f
<1>6. f \in Surjection(sent, I)
  BY <1>3, <1>4, <1>5, FS_Injection
<1>7. m + c - 1 \in I
  OBVIOUS
<1>8. PICK k \in sent : f[k] = m + c - 1
  BY <1>6, <1>7 DEF Surjection
<1>9. Place(k) = m + c - 1
  BY <1>8 DEF f
<1>10. k \in 1 .. MaxKey /\ Place(k) < k
  BY <1>1, PlaceFacts DEF Keys
<1> QED
  BY <1>9, <1>10

\* A datagram of the dump: where the finder is afterwards.
Sent(c) == {k \in Present : Place(k) \in finder.next .. (finder.next + c - 1)}
FoundWith(c) == finder.found \union (Sent(c) \intersect Named(finder.name))

LEMMA DumpFacts ==
  ASSUME CoreTypes, Dump
  PROVE  /\ finder.step = "dump" /\ finder' \in FinderType
         /\ UNCHANGED <<filters, tcx, linkVars, abandoned>>
         /\ \E c \in 0 .. MaxKey :
              \/ /\ finder'.step = "dump" /\ finder'.name = finder.name
                 /\ finder'.next = finder.next + c /\ finder'.found = FoundWith(c)
              \/ /\ finder'.step = "ok" /\ FoundWith(c) = {}
                 /\ \A k \in Present : Place(k) < finder.next + c
              \/ /\ finder'.step = "delete" /\ finder'.name = finder.name
                 /\ finder'.found = FoundWith(c)
                 /\ \A k \in Present : Place(k) < finder.next + c
<1>1. PICK c \in 0 .. MaxKey, done \in BOOLEAN :
        /\ finder.step = "dump"
        /\ Cardinality(Sent(c)) = c
        /\ done => {k \in Present : Place(k) >= finder.next + c} = {}
        /\ c = 0 => done
        /\ finder' =
             IF ~done
             THEN [finder EXCEPT !.next = finder.next + c, !.found = FoundWith(c)]
             ELSE IF FoundWith(c) = {} THEN Search("ok", Nobody)
             ELSE [Search("delete", finder.name) EXCEPT !.found = FoundWith(c)]
        /\ UNCHANGED <<filters, tcx, linkVars, abandoned>>
  BY DEF Dump, Sent, FoundWith, Place, RecvEnds
<1>2. /\ finder \in FinderType /\ finder.next \in Nat /\ finder.found \subseteq Keys
      /\ finder.name \in Programs \union {Nobody} /\ c \in Nat
  BY DEF CoreTypes, FinderType
<1>3. FoundWith(c) \subseteq Keys
  BY <1>2 DEF FoundWith, Sent, Present
<1>4. CASE ~done
  <2>1. c > 0
    BY <1>1, <1>2, <1>4
  <2>2. finder.next + c \in 0 .. MaxKey
    BY <1>1, <1>2, <2>1, SentInRange DEF Sent
  <2>3. finder' = [finder EXCEPT !.next = finder.next + c, !.found = FoundWith(c)]
    BY <1>1, <1>4
  <2>4. /\ finder' \in FinderType /\ finder'.step = "dump" /\ finder'.name = finder.name
        /\ finder'.next = finder.next + c /\ finder'.found = FoundWith(c)
    BY <1>1, <1>2, <1>3, <2>2, <2>3 DEF FinderType
  <2> QED
    BY <1>1, <2>4
<1>5. CASE done
  <2>1. \A k \in Present : Place(k) < finder.next + c
    <3>1. \A k \in Present : Place(k) \in Nat
      BY PlaceFacts DEF Present
    <3> QED
      BY <1>1, <1>2, <1>5, <3>1
  <2>2. CASE FoundWith(c) = {}
    <3>1. finder' = Search("ok", Nobody)
      BY <1>1, <1>5, <2>2
    <3>2. finder' \in FinderType /\ finder'.step = "ok"
      BY <3>1, SearchFacts
    <3> QED
      BY <1>1, <2>1, <2>2, <3>2
  <2>3. CASE FoundWith(c) # {}
    <3>1. finder' = [Search("delete", finder.name) EXCEPT !.found = FoundWith(c)]
      BY <1>1, <1>5, <2>3
    <3>2. /\ Search("delete", finder.name) \in FinderType
          /\ Search("delete", finder.name).step = "delete"
          /\ Search("delete", finder.name).name = finder.name
      BY <1>2, SearchFacts
    <3>3. /\ finder' \in FinderType /\ finder'.step = "delete" /\ finder'.name = finder.name
          /\ finder'.found = FoundWith(c)
      BY <1>3, <3>1, <3>2 DEF FinderType
    <3> QED
      BY <1>1, <2>1, <3>3
  <2> QED
    BY <2>2, <2>3
<1> QED
  BY <1>4, <1>5

LEMMA DumpStep ==
  ASSUME CoreTypes, AttachmentsHeld, Dump
  PROVE  CoreStep
<1>1. finder' \in FinderType /\ UNCHANGED <<filters, tcx, linkVars, abandoned>>
  BY DumpFacts
<1>2. CoreTypes'
  BY <1>1 DEF CoreTypes, FinderType, linkVars
<1> QED
  BY <1>1, <1>2, NothingMoves DEF linkVars

\* The process is gone with its links, and so are its TCX attachments; its filters are
\* nobody's from now on.
LEMMA RestartStep ==
  ASSUME CoreTypes, AttachmentsHeld, Restart
  PROVE  CoreStep
<1>1. /\ filters' = [k \in Keys |-> [filters[k] EXCEPT !.ours = FALSE]]
      /\ tcx' = [n \in 1 .. MaxTcx |-> Nobody]
      /\ loaded' = [p \in Programs |-> FALSE]
      /\ links' = [p \in Programs |-> {}]
      /\ owned' = [l \in Link |-> 0]
      /\ pc' = [p \in Programs |-> "idle"]
      /\ undo' = [p \in Programs |-> 0]
      /\ finder' = Search("none", Nobody)
      /\ abandoned' = {}
  BY DEF Restart
<1>2. \A k \in Keys : /\ [filters[k] EXCEPT !.ours = FALSE] \in
                           {NoFilter} \union [name : Programs, ours : BOOLEAN]
                      /\ ~[filters[k] EXCEPT !.ours = FALSE].ours
  <2>1. SUFFICES ASSUME NEW k \in Keys, NEW f, f = filters[k]
                 PROVE  /\ [f EXCEPT !.ours = FALSE] \in
                             {NoFilter} \union [name : Programs, ours : BOOLEAN]
                        /\ ~[f EXCEPT !.ours = FALSE].ours
    OBVIOUS
  <2>2. CASE f = NoFilter
    <3>1. f \in [name : {Nobody}, ours : {FALSE}]
      BY <2>2 DEF NoFilter
    <3>2. [f EXCEPT !.ours = FALSE] \in [name : {Nobody}, ours : {FALSE}]
      BY <3>1
    <3>3. \A g \in [name : {Nobody}, ours : {FALSE}] : g = NoFilter /\ ~g.ours
      <4>1. SUFFICES ASSUME NEW g \in [name : {Nobody}, ours : {FALSE}]
                     PROVE  g = NoFilter /\ ~g.ours
        OBVIOUS
      <4>2. g = [name |-> g.name, ours |-> g.ours] /\ g.name = Nobody /\ g.ours = FALSE
        OBVIOUS
      <4> QED
        BY <4>2 DEF NoFilter
    <3> QED
      BY <3>2, <3>3
  <2>3. CASE f \in [name : Programs, ours : BOOLEAN]
    <3>1. /\ [f EXCEPT !.ours = FALSE] \in [name : Programs, ours : BOOLEAN]
          /\ [f EXCEPT !.ours = FALSE].ours = FALSE
      BY <2>3
    <3> QED
      BY <3>1
  <2> QED
    BY <2>1, <2>2, <2>3 DEF CoreTypes
<1>3. finder' \in FinderType
  BY <1>1, SearchFacts
<1>4. CoreTypes'
  BY <1>1, <1>2, <1>3 DEF CoreTypes, FinderType
<1>5. \A l \in Link : Holders(l)' = 0
  <2>1. SUFFICES ASSUME NEW l \in Link PROVE Holders(l)' = 0
    OBVIOUS
  <2>2. /\ {p \in Programs : l \in links'[p]} = {}
        /\ {p \in Programs : l.kind = "nl" /\ undo'[p] = l.at} = {}
    <3>1. l.kind = "nl" => l.at # 0
      BY LinkFacts
    <3> QED
      BY <1>1, <3>1
  <2>3. owned'[l] = 0 /\ Cardinality({}) = 0
    BY <1>1, FS_EmptySet
  <2> QED
    BY <2>2, <2>3 DEF Holders
<1>6. \A l \in Link : Holders(l) \in Nat
  BY HoldersFacts
<1>7. AttachmentsHeld'
  <2>1. \A k \in Keys : ~filters'[k].ours
    BY <1>1, <1>2
  <2>2. \A n \in 1 .. MaxTcx : tcx'[n] \notin Programs
    BY <1>1
  <2>3. \A n \in 1 .. MaxTcx : Holders(Tcx(n))' = 0
    BY <1>5, LinkFacts
  <2> QED
    BY <2>1, <2>2, <2>3 DEF AttachmentsHeld
<1>8. \A k \in Keys : GainsRightly(k)
  BY <1>5, <1>6, LinkFacts DEF GainsRightly
<1> QED
  BY <1>4, <1>7, <1>8 DEF CoreStep

-----------------------------------------------------------------------------
(* Init, and every step with its histories *)

LEMMA InitInvariant ==
  ASSUME Init
  PROVE  IInv
<1>1. TypeOK
  <2>1. Search("none", Nobody) \in FinderType
    BY SearchFacts
  <2>2. \A k \in Keys : NoFilter \in {NoFilter} \union [name : Programs, ours : BOOLEAN]
    OBVIOUS
  <2>3. owned \in [Link -> 0 .. MaxOwned] /\ undo \in [Programs -> 0 .. MaxKey]
    BY DEF Init
  <2> QED
    BY <2>1, <2>2, <2>3 DEF Init, TypeOK, FinderType
<1>2. ASSUME NEW l \in Link PROVE Holders(l) = 0
  <2>1. /\ {p \in Programs : l \in links[p]} = {}
        /\ {p \in Programs : l.kind = "nl" /\ undo[p] = l.at} = {}
    <3>1. l.kind = "nl" => l.at # 0
      BY LinkFacts
    <3> QED
      BY <3>1 DEF Init
  <2>2. owned[l] = 0 /\ Cardinality({}) = 0
    BY FS_EmptySet DEF Init
  <2> QED
    BY <2>1, <2>2 DEF Holders
<1>3. AttachmentsHeld
  <2>1. \A k \in Keys : ~filters[k].ours
    BY DEF Init, NoFilter
  <2>2. \A n \in 1 .. MaxTcx : tcx[n] \notin Programs /\ Holders(Tcx(n)) = 0
    BY <1>2, LinkFacts DEF Init
  <2> QED
    BY <2>1, <2>2 DEF AttachmentsHeld
<1>4. \A k \in Keys : AtMostOne(k)
  BY <1>2, LinkFacts DEF AtMostOne
<1>5. SearchRight
  BY SearchFacts DEF Init, SearchRight
<1> QED
  BY <1>1, <1>3, <1>4, <1>5 DEF IInv

LEMMA TypesAreCore ==
  ASSUME TypeOK
  PROVE  CoreTypes
BY DEF TypeOK, CoreTypes

LEMMA StepCore ==
  ASSUME CoreTypes, AttachmentsHeld, Step
  PROVE  CoreStep
<1>1. ASSUME NEW p \in Programs, ProgramStep(p) PROVE CoreStep
  <2>1. CASE Load(p)
    BY <2>1, LoadStep
  <2>2. CASE AttachTcx(p)
    BY <2>2, AttachTcxStep
  <2>3. CASE Undo(p)
    BY <2>3, UndoStep
  <2>4. CASE StartUnload(p)
    BY <2>4, StartUnloadStep
  <2>5. CASE FinishUnload(p)
    BY <2>5, FinishUnloadStep
  <2>6. CASE \E k \in Keys : AttachNetlink(p, k) \/ AttachUntold(p, k)
    BY <2>6, AttachNetlinkStep, AttachUntoldStep
  <2>7. CASE \E l \in links[p] : Detach(p, l) \/ TakeLink(p, l) \/ RemoveAll(p, l)
    BY <2>7, DetachStep, TakeLinkStep, RemoveAllStep
  <2>8. ASSUME NEW l \in Link, AttachToLink(p, l) PROVE CoreStep
    <3>1. CASE ReplaceNotLoaded(p, l)
      <4>1. PICK ok \in BOOLEAN : /\ owned[l] > 0 /\ Give(l) /\ DetachLink(l, ok)
                                  /\ UNCHANGED <<loaded, links, pc, undo, finder>>
        BY <3>1 DEF ReplaceNotLoaded
      <4> QED
        BY <4>1, OwnedDetached
    <3>2. CASE ReplaceTcx(p, l)
      BY <3>2, ReplaceTcxStep
    <3>3. CASE ReplaceNetlink(p, l)
      BY <3>3, ReplaceNetlinkStep
    <3>4. CASE ReplaceNetlinkRefused(p, l)
      BY <3>4, ReplaceNetlinkRefusedStep
    <3>5. CASE ReplaceUntold(p, l)
      BY <3>5, ReplaceUntoldStep
    <3> QED
      BY <2>8, <3>1, <3>2, <3>3, <3>4, <3>5 DEF AttachToLink
  <2> QED
    BY <1>1, <2>1, <2>2, <2>3, <2>4, <2>5, <2>6, <2>7, <2>8 DEF ProgramStep
<1>2. ASSUME NEW l \in Link, DropLink(l) PROVE CoreStep
  <2>1. PICK ok \in BOOLEAN : /\ owned[l] > 0 /\ Give(l) /\ DetachLink(l, ok)
                              /\ UNCHANGED <<loaded, links, pc, undo, finder>>
    BY <1>2 DEF DropLink
  <2> QED
    BY <2>1, OwnedDetached
<1>3. ASSUME NEW k \in Keys, Attached(k) \/ OthersDelete(k) PROVE CoreStep
  BY <1>3, AttachedStep, OthersDeleteStep
<1>4. ASSUME NEW k \in Keys, NEW n \in Programs, OthersAdd(k, n) PROVE CoreStep
  BY <1>4, OthersAddStep
<1>5. ASSUME NEW n \in Programs, StartSearch(n) PROVE CoreStep
  BY <1>5, StartSearchStep
<1>6. ASSUME Dump \/ DumpFails \/ DeleteFound \/ Restart PROVE CoreStep
  BY <1>6, DumpStep, DumpFailsStep, DeleteFoundStep, RestartStep
<1> QED
  BY <1>1, <1>2, <1>3, <1>4, <1>5, <1>6 DEF Step

\* Which steps concern the search.
LEMMA FinderMoves ==
  ASSUME Step
  PROVE  \/ UNCHANGED finder
         \/ \E n \in Programs : StartSearch(n)
         \/ Dump \/ DumpFails \/ DeleteFound \/ Restart
<1>1. ASSUME NEW p \in Programs, ProgramStep(p) PROVE UNCHANGED finder
  <2>1. Load(p) \/ AttachTcx(p) \/ Undo(p) \/ StartUnload(p) \/ FinishUnload(p) => UNCHANGED finder
    BY DEF Load, AttachTcx, Undo, StartUnload, FinishUnload
  <2>2. \A k \in Keys : AttachNetlink(p, k) \/ AttachUntold(p, k) => UNCHANGED finder
    BY DEF AttachNetlink, AttachUntold
  <2>3. \A l \in links[p] : Detach(p, l) \/ TakeLink(p, l) \/ RemoveAll(p, l) => UNCHANGED finder
    BY DEF Detach, TakeLink, RemoveAll
  <2>4. \A l \in Link : AttachToLink(p, l) => UNCHANGED finder
    BY DEF AttachToLink, ReplaceNotLoaded, ReplaceTcx, ReplaceNetlink, ReplaceNetlinkRefused,
           ReplaceUntold
  <2> QED
    BY <1>1, <2>1, <2>2, <2>3, <2>4 DEF ProgramStep
<1>2. /\ \A l \in Link : DropLink(l) => UNCHANGED finder
      /\ \A k \in Keys : Attached(k) \/ OthersDelete(k) => UNCHANGED finder
      /\ \A k \in Keys, n \in Programs : OthersAdd(k, n) => UNCHANGED finder
  BY DEF DropLink, Attached, OthersDelete, OthersAdd
<1> QED
  BY <1>1, <1>2 DEF Step

LEMMA HoldersNext ==
  ASSUME NEW l \in Link, owned' \in [Link -> 0 .. MaxOwned]
  PROVE  Holders(l)' \in Nat
<1>1. owned'[l] \in Nat
  OBVIOUS
<1>2. /\ {p \in Programs : l \in links'[p]} \subseteq Programs
      /\ {p \in Programs : l.kind = "nl" /\ undo'[p] = l.at} \subseteq Programs
  OBVIOUS
<1>3. /\ Cardinality({p \in Programs : l \in links'[p]}) \in Nat
      /\ Cardinality({p \in Programs : l.kind = "nl" /\ undo'[p] = l.at}) \in Nat
  BY <1>2, SizeWithout
<1> QED
  BY <1>1, <1>3 DEF Holders

LEMMA AtMostOneStep ==
  ASSUME CoreTypes, CoreStep, Watch, NEW k \in Keys, AtMostOne(k)
  PROVE  AtMostOne(k)'
<1>1. PICK l \in Link : l = Nl(k)
  BY LinkFacts
<1>2. Holders(l) \in Nat /\ Holders(l)' \in Nat
  BY HoldersFacts, HoldersNext DEF CoreStep, CoreTypes
<1>3. \/ Holders(l)' <= Holders(l)
      \/ filters[k] = NoFilter /\ filters'[k] # NoFilter /\ Holders(l)' = Holders(l) + 1
      \/ Attached(k)
  BY <1>1 DEF CoreStep, GainsRightly
<1>4. k \notin tampered => Holders(l) <= (IF filters[k] = NoFilter THEN 0 ELSE 1)
  BY <1>1 DEF AtMostOne
<1>5. SUFFICES ASSUME k \notin tampered'
               PROVE  Holders(l)' <= (IF filters'[k] = NoFilter THEN 0 ELSE 1)
  BY <1>1 DEF AtMostOne
<1>6. Holders(l)' = 0 \/ (k \notin tampered /\ ~Meddled(k))
  BY <1>1, <1>2, <1>5 DEF Watch
<1>7. ~Meddled(k) => /\ ~Attached(k)
                     /\ ~(filters[k] # NoFilter /\ filters'[k] = NoFilter /\ Holders(l)' = Holders(l))
  BY <1>1 DEF Meddled
<1> QED
  BY <1>2, <1>3, <1>4, <1>6, <1>7

LEMMA WatchTypes ==
  ASSUME TypeOK, CoreTypes', Watch
  PROVE  TypeOK'
<1>1. tampered' \subseteq Keys
  BY DEF Watch
<1>2. stood' \subseteq Keys
  BY DEF Watch, Named, TypeOK
<1>3. shifted' \in BOOLEAN
  BY DEF Watch
<1> QED
  BY <1>1, <1>2, <1>3 DEF TypeOK, CoreTypes

LEMMA NextIsNatural ==
  ASSUME TypeOK
  PROVE  finder.next \in Nat /\ \A c \in 0 .. MaxKey : c \in Nat /\ finder.next + c \in Nat
<1>1. finder.next \in 0 .. MaxKey
  BY DEF TypeOK
<1> QED
  BY <1>1

\* What the dump has not found so far is still to come, whatever the datagram holds.
LEMMA DumpFinds ==
  ASSUME TypeOK, SearchRight, finder.step = "dump", ~shifted, NEW c \in 0 .. MaxKey,
         NEW k \in stood
  PROVE  k \in Present /\ (k \in FoundWith(c) \/ Place(k) >= finder.next + c)
<1>1. k \in Present /\ k \in Keys /\ k \in Named(finder.name)
  BY DEF SearchRight, TypeOK, Present, Named
<1>2. Place(k) \in Nat /\ finder.next \in Nat /\ c \in Nat
  BY <1>1, PlaceFacts, NextIsNatural
<1>3. k \in finder.found \/ Place(k) >= finder.next
  BY DEF SearchRight
<1>4. Place(k) >= finder.next /\ Place(k) < finder.next + c => k \in Sent(c)
  BY <1>1, <1>2 DEF Sent
<1> QED
  BY <1>1, <1>2, <1>3, <1>4 DEF FoundWith

LEMMA SearchStep ==
  ASSUME TypeOK, SearchRight, Step, Watch
  PROVE  SearchRight'
<1>1. CoreTypes
  BY TypesAreCore
<1>2. CASE UNCHANGED finder
  <2>1. CASE finder.step \notin {"dump", "delete"}
    BY <1>2, <2>1 DEF Watch, SearchRight
  <2>2. CASE finder.step \in {"dump", "delete"}
    <3>1. stood' = {k \in stood : filters'[k] = filters[k]}
      BY <1>2, <2>2 DEF Watch
    <3>2. \A k \in stood' : filters'[k] # NoFilter /\ filters'[k].name = finder'.name
      BY <1>2, <3>1 DEF SearchRight
    <3>3. ASSUME finder.step = "dump", ~shifted', NEW k \in stood'
          PROVE  k \in finder'.found \/ Place(k)' >= finder'.next
      <4>1. ~shifted /\ \A j \in Present : filters'[j] # NoFilter
        BY <1>2, <3>3 DEF Watch
      <4>2. k \in finder.found \/ Place(k) >= finder.next
        BY <3>1, <3>3, <4>1 DEF SearchRight
      <4> DEFINE S == {j \in Present : j < k}
                 T == {j \in Keys : filters'[j] # NoFilter /\ j < k}
      <4>3. S \subseteq T
        BY <4>1 DEF Present
      <4>4. k \in Keys
        BY <3>1, <3>3 DEF TypeOK
      <4>5. IsFiniteSet(T)
        <5>1. T \subseteq 1 .. MaxKey /\ 1 \in Int /\ MaxKey \in Int
          BY DEF Keys
        <5> QED
          BY <5>1, FS_Interval, FS_Subset
      <4>6. Place(k) = Cardinality(S) /\ Place(k)' = Cardinality(T)
        <5>1. {j \in {i \in Keys : filters'[i] # NoFilter} : j < k} = T
          OBVIOUS
        <5> QED
          BY <5>1 DEF Place, Present
      <4> HIDE DEF S, T
      <4>7. Place(k) <= Place(k)'
        BY <4>3, <4>5, <4>6, FS_Subset
      <4>8. Place(k) \in Nat /\ Place(k)' \in Nat /\ finder.next \in Nat
        BY <4>4, <4>5, <4>6, PlaceFacts, FS_CardinalityType, NextIsNatural
      <4> QED
        BY <1>2, <4>2, <4>7, <4>8
    <3>4. ASSUME finder.step = "delete", ~shifted' PROVE stood' \subseteq finder'.found
      BY <1>2, <3>1, <3>4 DEF Watch, SearchRight
    <3> QED
      BY <1>2, <2>2, <3>2, <3>3, <3>4 DEF SearchRight
  <2> QED
    BY <2>1, <2>2
<1>3. ASSUME NEW n \in Programs, StartSearch(n) PROVE SearchRight'
  <2>1. /\ finder.step \in {"none", "ok"} /\ finder' = Search("dump", n)
        /\ filters' = filters
    BY <1>3 DEF StartSearch
  <2>2. finder'.step = "dump" /\ finder'.name = n /\ finder'.next = 0
    BY <2>1, SearchFacts
  <2>3. stood' = Named(n)
    BY <2>1, <2>2 DEF Watch
  <2>4. \A k \in Named(n) : k \in Keys /\ filters[k].name = n /\ filters[k] # NoFilter
    BY DEF Named, NoFilter
  <2>5. \A k \in stood' : Place(k)' >= finder'.next
    <3>1. SUFFICES ASSUME NEW k \in stood' PROVE Place(k)' >= 0
      BY <2>2
    <3>2. Place(k)' = Place(k)
      BY <2>1 DEF Place, Present
    <3>3. Place(k) \in Nat
      BY <2>3, <2>4, <3>1, PlaceFacts
    <3> QED
      BY <3>2, <3>3
  <2> QED
    BY <2>1, <2>2, <2>3, <2>4, <2>5 DEF SearchRight
<1>4. ASSUME Dump PROVE SearchRight'
  <2>1. /\ finder.step = "dump" /\ UNCHANGED <<filters, tcx, linkVars, abandoned>>
        /\ \E c \in 0 .. MaxKey :
              \/ /\ finder'.step = "dump" /\ finder'.name = finder.name
                 /\ finder'.next = finder.next + c /\ finder'.found = FoundWith(c)
              \/ /\ finder'.step = "ok" /\ FoundWith(c) = {}
                 /\ \A k \in Present : Place(k) < finder.next + c
              \/ /\ finder'.step = "delete" /\ finder'.name = finder.name
                 /\ finder'.found = FoundWith(c)
                 /\ \A k \in Present : Place(k) < finder.next + c
    BY <1>1, <1>4, DumpFacts
  <2>2. CASE finder'.step = "ok"
    BY <2>2 DEF Watch, SearchRight
  <2>3. CASE finder'.step # "ok"
    <3>1. PICK c \in 0 .. MaxKey :
            \/ /\ finder'.step = "dump" /\ finder'.name = finder.name
               /\ finder'.next = finder.next + c /\ finder'.found = FoundWith(c)
            \/ /\ finder'.step = "delete" /\ finder'.name = finder.name
               /\ finder'.found = FoundWith(c)
               /\ \A k \in Present : Place(k) < finder.next + c
      BY <2>1, <2>3
    <3>2. stood' \subseteq stood /\ (~shifted' => ~shifted)
      BY <2>1, <3>1 DEF Watch
    <3>3. ASSUME NEW k \in stood', ~shifted'
          PROVE  /\ k \in Present /\ k \in Keys /\ Place(k) \in Nat /\ Place(k)' = Place(k)
                 /\ k \in FoundWith(c) \/ Place(k) >= finder.next + c
      <4>1. k \in stood /\ ~shifted
        BY <3>2, <3>3
      <4>2. k \in Present /\ (k \in FoundWith(c) \/ Place(k) >= finder.next + c)
        BY <2>1, <4>1, DumpFinds
      <4>3. k \in Keys
        BY <4>2 DEF Present
      <4>4. Place(k)' = Place(k)
        BY <2>1 DEF Place, Present
      <4> QED
        BY <4>2, <4>3, <4>4, PlaceFacts
    <3>4. finder.next + c \in Nat
      BY DEF TypeOK
    <3>5. \A k \in stood' : filters'[k] # NoFilter /\ filters'[k].name = finder'.name
      BY <2>1, <3>1, <3>2 DEF SearchRight
    <3>6. finder'.name \in Programs
      BY <2>1, <3>1 DEF SearchRight
    <3>7. finder'.step = "dump" /\ ~shifted' =>
            \A k \in stood' : k \in finder'.found \/ Place(k)' >= finder'.next
      BY <3>1, <3>3
    <3>8. finder'.step = "delete" /\ ~shifted' => stood' \subseteq finder'.found
      BY <3>1, <3>3, <3>4
    <3> QED
      BY <3>1, <3>5, <3>6, <3>7, <3>8 DEF SearchRight
  <2> QED
    BY <2>2, <2>3
<1>5. ASSUME DumpFails \/ Restart PROVE SearchRight'
  <2>1. finder' = Search("none", Nobody)
    BY <1>5 DEF DumpFails, Restart
  <2>2. finder'.step = "none"
    BY <2>1, SearchFacts
  <2> QED
    BY <2>2 DEF Watch, SearchRight
<1>6. ASSUME DeleteFound PROVE SearchRight'
  <2>1. PICK k \in finder.found, ok \in BOOLEAN :
          /\ finder.step = "delete" /\ Deletes(k, ok)
          /\ finder' = IF ~ok THEN Search("none", Nobody)
                       ELSE IF finder.found = {k} THEN Search("ok", Nobody)
                       ELSE [finder EXCEPT !.found = finder.found \ {k}]
    BY <1>6 DEF DeleteFound
  <2>2. CASE ~ok \/ finder.found = {k}
    <3>1. finder'.step \in {"none", "ok"}
      BY <2>1, <2>2, SearchFacts
    <3> QED
      BY <3>1 DEF Watch, SearchRight
  <2>3. CASE ok /\ finder.found # {k}
    <3>1. finder' = [finder EXCEPT !.found = finder.found \ {k}]
      BY <2>1, <2>3
    <3>2. /\ finder'.step = "delete" /\ finder'.name = finder.name
          /\ finder'.found = finder.found \ {k}
      BY <2>1, <3>1 DEF TypeOK
    <3>3. stood' = {j \in stood : filters'[j] = filters[j]} /\ (~shifted' => ~shifted)
      BY <2>1, <3>2 DEF Watch
    <3>4. k \in Keys
      BY DEF TypeOK
    <3>5. filters'[k] # filters[k]
      BY <1>1, <2>1, <2>3, <3>4, DeletesFacts
    <3>6. k \notin stood' /\ stood' \subseteq stood
      BY <3>3, <3>5
    <3>7. ~shifted' => stood' \subseteq finder'.found
      BY <2>1, <3>2, <3>3, <3>6 DEF SearchRight
    <3>8. \A j \in stood' : filters'[j] # NoFilter /\ filters'[j].name = finder'.name
      BY <3>2, <3>3 DEF SearchRight
    <3>9. finder'.name \in Programs
      BY <2>1, <3>2 DEF SearchRight
    <3> QED
      BY <3>2, <3>7, <3>8, <3>9 DEF SearchRight
  <2> QED
    BY <2>2, <2>3
<1> QED
  BY <1>2, <1>3, <1>4, <1>5, <1>6, FinderMoves

LEMMA InvariantKept ==
  ASSUME IInv, [Next]_vars
  PROVE  IInv'
<1>1. TypeOK /\ AttachmentsHeld /\ SearchRight /\ (\A k \in Keys : AtMostOne(k)) /\ CoreTypes
  BY TypesAreCore DEF IInv
<1>2. CASE Next
  <2>1. Step /\ Watch
    BY <1>2 DEF Next
  <2>2. CoreStep
    BY <1>1, <2>1, StepCore
  <2>3. TypeOK'
    BY <1>1, <2>1, <2>2, WatchTypes DEF CoreStep
  <2>4. AttachmentsHeld'
    BY <2>2 DEF CoreStep
  <2>5. \A k \in Keys : AtMostOne(k)'
    BY <1>1, <2>1, <2>2, AtMostOneStep
  <2>6. SearchRight'
    BY <1>1, <2>1, SearchStep
  <2> QED
    BY <2>3, <2>4, <2>5, <2>6 DEF IInv
<1>3. CASE UNCHANGED vars
  <2>1. TypeOK'
    BY <1>1, <1>3 DEF vars, linkVars, TypeOK
  <2>2. AttachmentsHeld'
    BY <1>1, <1>3 DEF vars, linkVars, AttachmentsHeld, Holders
  <2>3. \A k \in Keys : AtMostOne(k)'
    BY <1>1, <1>3 DEF vars, linkVars, AtMostOne, Holders
  <2>4. SearchRight'
    BY <1>1, <1>3 DEF vars, linkVars, SearchRight, Place, Present
  <2> QED
    BY <2>1, <2>2, <2>3, <2>4 DEF IInv
<1> QED
  BY <1>2, <1>3

-----------------------------------------------------------------------------
(* Theorems *)

\* Every state that attach, attach_to_link, detach, unload, qdisc_detach_program, other
\* processes and restarts reach satisfies the inductive invariant.
THEOREM InductiveInvariant == Spec => []IInv
<1>1. Init => IInv
  BY InitInvariant
<1>2. IInv /\ [Next]_vars => IInv'
  BY InvariantKept
<1> QED
  BY <1>1, <1>2, PTL DEF Spec

\* The variables have their types; the finder never skips beyond the keys there are.
THEOREM TypeCorrect == Spec => []TypeOK
<1>1. IInv => TypeOK
  BY DEF IInv
<1> QED
  BY <1>1, InductiveInvariant, PTL

\* Whatever attach, attach_to_link, detach and unload run into, what this process attached
\* has a link that will detach it, except for keys at which a request failed.
THEOREM AttachmentsAreHeld == Spec => []AttachmentsHeld
<1>1. IInv => AttachmentsHeld
  BY DEF IInv
<1> QED
  BY <1>1, InductiveInvariant, PTL

\* Two links never stand for one filter, unless someone without a link interfered.
THEOREM FiltersAreNotShared == Spec => []FilterNotShared
<1>1. IInv => FilterNotShared
  <2>1. SUFFICES ASSUME IInv, NEW k \in Keys, k \notin tampered
                 PROVE  Holders(Nl(k)) <= 1
    BY DEF FilterNotShared
  <2>2. Nl(k) \in Link /\ CoreTypes /\ AtMostOne(k)
    BY <2>1, LinkFacts, TypesAreCore DEF IInv
  <2>3. Holders(Nl(k)) \in Nat
    BY <2>2, HoldersFacts
  <2> QED
    BY <2>1, <2>2, <2>3 DEF AtMostOne
<1> QED
  BY <1>1, InductiveInvariant, PTL

\* When qdisc_detach_program reports success, no filter of that name that was there all
\* the time is left, unless a removal shifted the kernel's dump.
THEOREM DetachByNameIsComplete == Spec => DetachByNameComplete
<1>1. ASSUME IInv, [Next]_vars, finder.step \in {"dump", "delete"}, finder'.step = "ok", ~shifted
      PROVE  \A k \in stood : filters'[k] # filters[k]
  <2>1. TypeOK /\ CoreTypes /\ SearchRight
    BY <1>1, TypesAreCore DEF IInv
  <2>2. finder' # finder
    BY <1>1
  <2>3. Step
    BY <1>1, <2>2 DEF Next, vars
  <2>4. ASSUME Dump PROVE stood = {}
    <3>1. PICK c \in 0 .. MaxKey :
            finder.step = "dump" /\ FoundWith(c) = {} /\ \A k \in Present : Place(k) < finder.next + c
      BY <1>1, <2>1, <2>4, DumpFacts
    <3>2. SUFFICES ASSUME NEW k \in stood PROVE FALSE
      OBVIOUS
    <3>3. k \in Present /\ Place(k) >= finder.next + c
      BY <1>1, <2>1, <3>1, DumpFinds
    <3>4. Place(k) \in Nat /\ finder.next + c \in Nat
      BY <2>1, <3>3, PlaceFacts, NextIsNatural DEF Present
    <3> QED
      BY <3>1, <3>3, <3>4
  <2>5. ASSUME DeleteFound PROVE \A k \in stood : filters'[k] # filters[k]
    <3>1. PICK k \in finder.found, ok \in BOOLEAN :
            /\ finder.step = "delete" /\ Deletes(k, ok)
            /\ finder' = IF ~ok THEN Search("none", Nobody)
                         ELSE IF finder.found = {k} THEN Search("ok", Nobody)
                         ELSE [finder EXCEPT !.found = finder.found \ {k}]
      BY <2>5 DEF DeleteFound
    <3>2. ok
      BY <1>1, <3>1, SearchFacts
    <3>3. finder.found = {k}
      <4>1. [finder EXCEPT !.found = finder.found \ {k}].step = finder.step
        BY <2>1 DEF TypeOK
      <4> QED
        BY <1>1, <3>1, <3>2, <4>1
    <3>4. k \in Keys
      BY <2>1 DEF TypeOK
    <3>5. filters'[k] # filters[k]
      BY <2>1, <3>1, <3>2, <3>4, DeletesFacts
    <3> QED
      BY <1>1, <2>1, <3>1, <3>3, <3>5 DEF SearchRight
  <2>6. ~(DumpFails \/ Restart)
    <3>1. Search("none", Nobody).step = "none"
      BY SearchFacts
    <3> QED
      BY <1>1, <3>1 DEF DumpFails, Restart
  <2>7. \A n \in Programs : ~StartSearch(n)
    BY <1>1 DEF StartSearch
  <2> QED
    BY <2>2, <2>3, <2>4, <2>5, <2>6, <2>7, FinderMoves
<1>2. IInv /\ [Next]_vars =>
        [(finder.step \in {"dump", "delete"} /\ finder'.step = "ok" /\ ~shifted) =>
           \A k \in stood : filters'[k] # filters[k]]_vars
  BY <1>1
<1> QED
  BY <1>2, InductiveInvariant, PTL DEF Spec, DetachByNameComplete
=============================================================================
