-------------------------- MODULE PinnedMapsProofs --------------------------
(***************************************************************************)
(* Theorems about PinnedMaps, for every set of loaders and every object.   *)
(***************************************************************************)
EXTENDS PinnedMaps, WellFoundedInduction, TLAPS

-----------------------------------------------------------------------------
(* The inductive invariant *)

\* A map that a process has taken through finalize: it has its data, and is frozen if it
\* is read-only.
Final(l, m) ==
  /\ held[l][m] # 0
  /\ kmap[held[l][m]].data # Zero
  /\ m \in Rodata => kmap[held[l][m]].frozen

\* What a process holds at each step of load. The maps it has not taken up yet it does not
\* hold, so that opening or creating one closes no descriptor; and of the data maps all
\* but the current one, and those not taken up, are final.
InOrder(l) ==
  /\ pc[l] = Idle => held[l] = NoMaps
  /\ pc[l] \in {Idle, Loaded} => todo[l] = {}
  /\ \A m \in todo[l] : held[l][m] = 0
  /\ Cur(l) \notin todo[l]
  /\ inner[l] # 0 => pc[l].step \in {"create", "pin"}
  /\ pc[l].step \in {"get", "inner", "create"} => held[l][Cur(l)] = 0
  /\ pc[l].step \in {"get", "pin"} => Cur(l) \in Pinned
  /\ pc[l].step \in {"pin", "update", "freeze"} => held[l][Cur(l)] # 0
  /\ pc[l].step = "update" => Cur(l) \in Data
  /\ pc[l].step = "freeze" => Cur(l) \in Rodata /\ kmap[held[l][Cur(l)]].data # Zero
  /\ pc[l] \notin {Idle, Opened} =>
       \A m \in Data \ todo[l] : m # Cur(l) => Final(l, m)

IInv == TypeOK /\ PinnedShared /\ \A l \in Loaders : InOrder(l)

-----------------------------------------------------------------------------
(* Facts about the kernel's maps *)

USE MapsAssumption, NoMapAssumption, ContentsAssumption, MaxMapsAssumption

\* A set of numbers that is not empty has a least element.
LEMMA LeastNumber ==
  ASSUME NEW U, U \subseteq Nat, U # {}
  PROVE  \E n \in U : \A m \in U : n <= m
<1> DEFINE R == OpToRel(<, Nat)
<1>1. IsWellFoundedOn(R, Nat)
  BY NatLessThanWellFounded, Zenon
<1>2. \A m, n \in Nat : m < n => <<m, n>> \in R
  BY Zenon DEF OpToRel
<1>3. PICK n \in U : \A m \in U : ~(<<m, n>> \in R)
  <2> HIDE DEF R
  <2> QED
    BY <1>1, WFMin
<1>4. \A m \in U : ~(m < n)
  BY <1>2, <1>3, Zenon
<1> QED
  BY <1>4

\* A free identifier is the identifier of a map that does not exist.
LEMMA FreeIdFacts ==
  ASSUME HasFreeId
  PROVE  FreeId \in Ids /\ ~kmap[FreeId].exists
<1> DEFINE free == {id \in Ids : ~kmap[id].exists}
<1>1. free \subseteq Nat /\ free # {}
  BY DEF HasFreeId, Ids
<1>2. \E id \in free : \A i \in free : id <= i
  BY <1>1, LeastNumber
<1>3. \E id \in Ids : ~kmap[id].exists /\ \A i \in Ids : i < id => kmap[i].exists
  BY <1>2 DEF Ids
<1> QED
  BY <1>3, Zenon DEF FreeId

\* No descriptor and no pin refers to it.
LEMMA FreeIdUnused ==
  ASSUME TypeOK, HasFreeId
  PROVE  /\ FreeId \in Ids /\ ~kmap[FreeId].exists /\ FreeId # 0
         /\ \A m \in Pinned : pins[m] # FreeId
         /\ \A l \in Loaders : inner[l] # FreeId /\ \A m \in Maps : held[l][m] # FreeId
<1>1. FreeId \in Ids /\ ~kmap[FreeId].exists
  BY FreeIdFacts
<1>2. ~Referenced(FreeId, pins, held, inner)
  BY <1>1 DEF TypeOK
<1> QED
  BY <1>1, <1>2 DEF Referenced, Ids

\* What a descriptor or a pin refers to exists.
LEMMA ReferencedExists ==
  ASSUME TypeOK
  PROVE  /\ \A m \in Pinned : pins[m] # 0 => pins[m] \in Ids /\ kmap[pins[m]].exists
         /\ \A l \in Loaders, m \in Maps :
              held[l][m] # 0 => held[l][m] \in Ids /\ kmap[held[l][m]].exists
BY DEF TypeOK, Referenced, Ids

-----------------------------------------------------------------------------
(* The initial states *)

LEMMA InitInvariant == Init => IInv
<1> SUFFICES ASSUME Init PROVE IInv
  OBVIOUS
<1>1. TypeOK
  BY DEF Init, TypeOK, Gone, NoMaps, Referenced, Ids
<1>2. PinnedShared
  BY DEF Init, PinnedShared, NoMaps
<1>3. \A l \in Loaders : InOrder(l)
  BY DEF Init, InOrder, Idle, Opened, Loaded, At, Cur, NoMaps
<1> QED
  BY <1>1, <1>2, <1>3 DEF IInv

-----------------------------------------------------------------------------
(* Every step keeps the invariant *)

\* A map keeps what InOrder wants of it.
Kept(id) ==
  /\ kmap[id].data # Zero => kmap'[id].data # Zero
  /\ kmap[id].frozen => kmap'[id].frozen

\* A process whose own state does not change stays in order.
LEMMA OthersInOrder ==
  ASSUME NEW k \in Loaders, InOrder(k),
         pc'[k] = pc[k], todo'[k] = todo[k], held'[k] = held[k], inner'[k] = inner[k],
         \A m \in Maps : held[k][m] # 0 => Kept(held[k][m])
  PROVE  InOrder(k)'
<1>1. \A m \in Maps : Final(k, m) => Final(k, m)'
  BY DEF Final, Kept
<1>2. pc[k].step = "freeze" =>
        Cur(k)' \in Rodata /\ kmap'[held'[k][Cur(k)']].data # Zero
  BY DEF InOrder, Kept, Cur
<1> QED
  BY <1>1, <1>2 DEF InOrder, Cur

\* The maps that a process has taken through finalize.
LEMMA OthersFinal ==
  ASSUME NEW l \in Loaders, InOrder(l), pc[l] \notin {Idle, Opened},
         held'[l] = held[l], \A n \in Maps : held[l][n] # 0 => Kept(held[l][n])
  PROVE  \A n \in Data \ todo[l] : n # pc[l].map => Final(l, n)'
<1>1. \A n \in Data \ todo[l] : n # pc[l].map => Final(l, n)
  BY DEF InOrder, Cur
<1> QED
  BY <1>1 DEF Final, Kept

\* The steps that are about the order of load only.
LEMMA ControlStep ==
  ASSUME IInv, NEW l \in Loaders,
         StartLoad(l) \/ TakeMap(l) \/ OpenPinFails(l) \/ FinishLoad(l)
  PROVE  IInv'
<1> USE DEF IInv
<1>1. UNCHANGED <<kmap, pins, held, inner, orphaned>>
  BY DEF StartLoad, TakeMap, OpenPinFails, FinishLoad
<1>2. TypeOK'
  <2>1. pc' \in [Loaders -> {Idle, Between, Loaded, Opened}
           \union [step : {"get", "inner", "create", "pin", "update", "freeze"}, map : Maps]]
    BY DEF TypeOK, StartLoad, TakeMap, OpenPinFails, FinishLoad, Does, Cur, ToCreate,
           Idle, Between, Loaded, Opened, At
  <2>2. todo' \in [Loaders -> SUBSET Maps]
    BY DEF TypeOK, StartLoad, TakeMap, OpenPinFails, FinishLoad
  <2> QED
    BY <1>1, <2>1, <2>2 DEF TypeOK
<1>3. PinnedShared'
  <2>1. \A k \in Loaders, m \in Pinned : Unshared(k, m) => Unshared(k, m)'
    BY DEF StartLoad, TakeMap, OpenPinFails, FinishLoad, Unshared, TypeOK, Does, At, Idle, Between
  <2> QED
    BY <1>1, <2>1 DEF PinnedShared
<1>4. ASSUME NEW k \in Loaders, k # l PROVE InOrder(k)'
  BY <1>1, <1>4, OthersInOrder
     DEF TypeOK, Kept, StartLoad, TakeMap, OpenPinFails, FinishLoad
<1>5. InOrder(l)'
  <2>1. CASE StartLoad(l)
    BY <1>1, <2>1 DEF StartLoad, InOrder, Final, TypeOK, NoMaps, Cur, At, Idle, Between, Loaded, Opened
  <2>2. CASE TakeMap(l)
    BY <1>1, <2>2 DEF TakeMap, InOrder, Final, TypeOK, ToCreate, Cur, At, Idle, Between, Loaded, Opened
  <2>3. CASE OpenPinFails(l)
    BY <1>1, <2>3 DEF OpenPinFails, InOrder, Final, TypeOK, ToCreate, Does, Cur, At, Idle, Between, Loaded, Opened
  <2>4. CASE FinishLoad(l)
    BY <1>1, <2>4 DEF FinishLoad, InOrder, Final, TypeOK, Cur, At, Idle, Between, Loaded, Opened
  <2> QED
    BY <2>1, <2>2, <2>3, <2>4
<1> QED
  BY <1>2, <1>3, <1>4, <1>5

\* load finds the pin of a map.
LEMMA OpenPinStep ==
  ASSUME IInv, NEW l \in Loaders, OpenPin(l)
  PROVE  IInv'
<1> USE DEF IInv
<1> DEFINE m == Cur(l)
<1>1. /\ pc[l].step = "get" /\ m \in Pinned /\ held[l][m] = 0
      /\ pins[m] # 0 /\ pins[m] \in Ids
      /\ held' = [held EXCEPT ![l][m] = pins[m]]
      /\ pc' = [pc EXCEPT ![l] = ToFinalize(m, FALSE)]
      /\ UNCHANGED <<kmap, pins, todo, inner, orphaned>>
  BY DEF OpenPin, Does, InOrder, TypeOK, Ids
<1> HIDE DEF m
<1>2. TypeOK'
  <2>1. \A id \in Ids : Referenced(id, pins, held, inner)' <=> Referenced(id, pins, held, inner)
    BY <1>1 DEF Referenced, TypeOK, Ids
  <2>2. pc' \in [Loaders -> {Idle, Between, Loaded, Opened}
           \union [step : {"get", "inner", "create", "pin", "update", "freeze"}, map : Maps]]
    BY <1>1 DEF TypeOK, ToFinalize, At, Between
  <2>3. held' \in [Loaders -> [Maps -> 0 .. MaxMaps]]
    BY <1>1 DEF TypeOK, Ids
  <2> QED
    BY <1>1, <2>1, <2>2, <2>3 DEF TypeOK
<1>3. PinnedShared'
  BY <1>1 DEF PinnedShared, Unshared, TypeOK, ToFinalize, At, Between
<1>4. ASSUME NEW k \in Loaders, k # l PROVE InOrder(k)'
  BY <1>1, <1>4, OthersInOrder DEF TypeOK, Kept
<1>5. InOrder(l)'
  BY <1>1 DEF InOrder, Final, TypeOK, ToFinalize, Cur, At, Idle, Between, Loaded, Opened, m
<1> QED
  BY <1>2, <1>3, <1>4, <1>5

\* load creates the inner map of a map of maps.
LEMMA CreateInnerStep ==
  ASSUME IInv, NEW l \in Loaders, CreateInner(l)
  PROVE  IInv'
<1> USE DEF IInv
<1>1. /\ pc[l].step = "inner"
      /\ HasFreeId
      /\ kmap' = [kmap EXCEPT ![FreeId] = New]
      /\ inner' = [inner EXCEPT ![l] = FreeId]
      /\ pc' = [pc EXCEPT ![l] = At("create", Cur(l))]
      /\ UNCHANGED <<pins, todo, held, orphaned>>
  BY DEF CreateInner, Does
<1>2. PICK id \in Ids : id = FreeId
  BY <1>1, FreeIdFacts
<1>3. /\ ~kmap[id].exists /\ id # 0
      /\ \A p \in Pinned : pins[p] # id
      /\ \A k \in Loaders : inner[k] # id /\ \A n \in Maps : held[k][n] # id
  BY <1>1, <1>2, FreeIdUnused
<1>4. TypeOK'
  <2>1. inner[l] = 0
    BY <1>1 DEF InOrder
  <2>2. \A i \in Ids : Referenced(i, pins, held, inner)' <=> (Referenced(i, pins, held, inner) \/ i = id)
    BY <1>1, <1>2, <1>3, <2>1 DEF Referenced, TypeOK, Ids
  <2>3. pc' \in [Loaders -> {Idle, Between, Loaded, Opened}
           \union [step : {"get", "inner", "create", "pin", "update", "freeze"}, map : Maps]]
    BY <1>1 DEF TypeOK, At, Idle, Between, Loaded, Opened, Cur
  <2>4. kmap' \in [Ids -> [exists : BOOLEAN, data : Loaders \union {Zero, App}, frozen : BOOLEAN]]
    BY <1>1, <1>2 DEF TypeOK, New
  <2>5. inner' \in [Loaders -> 0 .. MaxMaps]
    BY <1>1, <1>2 DEF TypeOK, Ids
  <2>6. \A i \in Ids : kmap'[i].exists <=> (kmap[i].exists \/ i = id)
    BY <1>1, <1>2 DEF TypeOK, New
  <2> QED
    BY <1>1, <2>2, <2>3, <2>4, <2>5, <2>6 DEF TypeOK
<1>5. PinnedShared'
  BY <1>1 DEF PinnedShared, Unshared, TypeOK, At
<1>6. \A i \in Ids : i # id => kmap'[i] = kmap[i]
  BY <1>1, <1>2 DEF TypeOK
<1>7. \A k \in Loaders, n \in Maps :
        held[k][n] # 0 => held[k][n] \in Ids /\ kmap'[held[k][n]] = kmap[held[k][n]]
  BY <1>3, <1>6, ReferencedExists
<1>8. ASSUME NEW k \in Loaders, k # l PROVE InOrder(k)'
  BY <1>1, <1>7, <1>8, OthersInOrder DEF TypeOK, Kept
<1>9. InOrder(l)'
  BY <1>1, <1>7 DEF InOrder, Final, TypeOK, Cur, At, Idle, Between, Loaded, Opened
<1> QED
  BY <1>4, <1>5, <1>8, <1>9

\* load creates a map.
LEMMA CreateStep ==
  ASSUME IInv, NEW l \in Loaders, Create(l)
  PROVE  IInv'
<1> USE DEF IInv
<1> DEFINE m == Cur(l)
<1>1. /\ pc[l].step = "create"
      /\ HasFreeId
      /\ held' = [held EXCEPT ![l][m] = FreeId]
      /\ inner' = IF m \in Pinned THEN inner ELSE [inner EXCEPT ![l] = 0]
      /\ kmap' = Freed([kmap EXCEPT ![FreeId] = New], pins, held', inner')
      /\ pc' = [pc EXCEPT ![l] = IF m \in Pinned THEN At("pin", m) ELSE ToFinalize(m, TRUE)]
      /\ UNCHANGED <<pins, todo, orphaned>>
  BY DEF Create, Does
<1>2. PICK id \in Ids : id = FreeId
  BY <1>1, FreeIdFacts
<1>3. /\ ~kmap[id].exists /\ id # 0
      /\ \A p \in Pinned : pins[p] # id
      /\ \A k \in Loaders : inner[k] # id /\ \A n \in Maps : held[k][n] # id
  BY <1>1, <1>2, FreeIdUnused
<1>4. m \in Maps /\ held[l][m] = 0
  BY <1>1 DEF InOrder, TypeOK, At, Idle, Between, Loaded, Opened, Cur
<1> HIDE DEF m
<1>5. held' \in [Loaders -> [Maps -> 0 .. MaxMaps]] /\ inner' \in [Loaders -> 0 .. MaxMaps]
  BY <1>1, <1>2, <1>4 DEF TypeOK, Ids
<1>6. \A i \in Ids : Referenced(i, pins, held', inner') => i = id \/ kmap[i].exists
  BY <1>1, <1>2, <1>4 DEF Referenced, TypeOK, Ids
<1>7. Referenced(id, pins, held', inner')
  BY <1>1, <1>2, <1>4 DEF Referenced, TypeOK, Ids
<1>8. \A i \in Ids : kmap'[i] = IF i = id THEN New
                               ELSE IF Referenced(i, pins, held', inner') THEN kmap[i] ELSE Gone
  BY <1>1, <1>2, <1>7 DEF Freed, TypeOK
<1>9. TypeOK'
  <2>1. pc' \in [Loaders -> {Idle, Between, Loaded, Opened}
           \union [step : {"get", "inner", "create", "pin", "update", "freeze"}, map : Maps]]
    BY <1>1, <1>4 DEF TypeOK, At, Idle, Between, Loaded, Opened, ToFinalize
  <2>2. kmap' \in [Ids -> [exists : BOOLEAN, data : Loaders \union {Zero, App}, frozen : BOOLEAN]]
    BY <1>1, <1>8 DEF TypeOK, New, Gone, Freed
  <2>3. \A i \in Ids : kmap'[i].exists <=> Referenced(i, pins, held', inner')
    BY <1>6, <1>7, <1>8 DEF New, Gone, TypeOK
  <2> QED
    BY <1>1, <1>5, <2>1, <2>2, <2>3 DEF TypeOK
<1>10. PinnedShared'
  <2>1. SUFFICES ASSUME NEW k \in Loaders, NEW n \in Pinned,
                        held'[k][n] # 0, ~Unshared(k, n)', <<k, n>> \notin orphaned
                 PROVE  pins[n] = held'[k][n]
    BY <1>1 DEF PinnedShared
  <2>2. CASE k = l /\ n = m
    BY <1>1, <2>1, <2>2 DEF Unshared, TypeOK
  <2>3. CASE ~(k = l /\ n = m)
    <3>1. held'[k][n] = held[k][n]
      BY <1>1, <2>3 DEF TypeOK
    <3>2. ~Unshared(k, n)
      <4>1. CASE k = l
        BY <1>1, <4>1 DEF Unshared, At
      <4>2. CASE k # l
        BY <1>1, <2>1, <4>2 DEF Unshared, TypeOK
      <4> QED
        BY <4>1, <4>2
    <3> QED
      BY <2>1, <3>1, <3>2 DEF PinnedShared
  <2> QED
    BY <2>2, <2>3
<1>11. \A k \in Loaders, n \in Maps :
        (held[k][n] # 0 /\ (k # l \/ n # m)) =>
           held'[k][n] = held[k][n] /\ kmap'[held[k][n]] = kmap[held[k][n]]
  <2>1. SUFFICES ASSUME NEW k \in Loaders, NEW n \in Maps, held[k][n] # 0, k # l \/ n # m
                 PROVE  held'[k][n] = held[k][n] /\ kmap'[held[k][n]] = kmap[held[k][n]]
    OBVIOUS
  <2>2. held'[k][n] = held[k][n]
    BY <1>1, <2>1 DEF TypeOK
  <2>3. held[k][n] \in Ids /\ held[k][n] # id
    BY <1>3, <2>1, ReferencedExists
  <2>4. Referenced(held[k][n], pins, held', inner')
    BY <2>2 DEF Referenced
  <2> QED
    BY <1>8, <2>2, <2>3, <2>4
<1>12. ASSUME NEW k \in Loaders, k # l PROVE InOrder(k)'
  <2>1. pc'[k] = pc[k] /\ todo'[k] = todo[k] /\ held'[k] = held[k] /\ inner'[k] = inner[k]
    BY <1>1, <1>12 DEF TypeOK
  <2>2. \A n \in Maps : held[k][n] # 0 => Kept(held[k][n])
    BY <1>11, <1>12 DEF Kept
  <2> QED
    BY <2>1, <2>2, OthersInOrder
<1>13. InOrder(l)'
  <2>1. /\ \A n \in Maps : n # m => held'[l][n] = held[l][n]
        /\ held'[l][m] = id
        /\ pc'[l] = IF m \in Pinned THEN At("pin", m) ELSE ToFinalize(m, TRUE)
        /\ pc[l] \in [step : {"create"}, map : Maps]
        /\ m = pc[l].map
    BY <1>1, <1>2, <1>4 DEF TypeOK, At, Idle, Between, Loaded, Opened, m, Cur
  <2>2. inner'[l] # 0 => pc'[l].step \in {"create", "pin"}
    <3>1. CASE m \in Pinned
      <4>1. pc'[l] = At("pin", m)
        BY <2>1, <3>1
      <4> QED
        BY <4>1 DEF At
    <3>2. CASE m \notin Pinned
      <4>1. inner' = [inner EXCEPT ![l] = 0] /\ DOMAIN inner = Loaders
        BY <1>1, <3>2 DEF TypeOK
      <4> QED
        BY <4>1
    <3> QED
      BY <3>1, <3>2
  <2>3. \A n \in Data \ todo[l] : n # m => Final(l, n)'
    BY <1>11, <2>1 DEF InOrder, Final, Cur, Idle, Opened, At
  <2> QED
    BY <1>1, <1>3, <1>4, <2>1, <2>2, <2>3
       DEF InOrder, TypeOK, ToFinalize, Cur, At, Idle, Between, Loaded, Opened
<1> QED
  BY <1>9, <1>10, <1>12, <1>13

\* load pins the map it created.
LEMMA PinStep ==
  ASSUME IInv, NEW l \in Loaders, Pin(l)
  PROVE  IInv'
<1> USE DEF IInv
<1> DEFINE m == Cur(l)
<1>1. /\ pc[l].step = "pin" /\ m \in Pinned /\ held[l][m] # 0
      /\ pins[m] = 0
      /\ pins' = [pins EXCEPT ![m] = held[l][m]]
      /\ inner' = [inner EXCEPT ![l] = 0]
      /\ kmap' = Freed(kmap, pins', held, inner')
      /\ pc' = [pc EXCEPT ![l] = ToFinalize(m, TRUE)]
      /\ UNCHANGED <<todo, held, orphaned>>
  BY DEF Pin, Does, InOrder
<1> HIDE DEF m
<1>2. \A i \in Ids : Referenced(i, pins', held, inner') => kmap[i].exists
  BY <1>1 DEF Referenced, TypeOK, Ids
<1>3. \A i \in Ids : kmap'[i] = IF Referenced(i, pins', held, inner') THEN kmap[i] ELSE Gone
  BY <1>1 DEF Freed
<1>4. TypeOK'
  <2>1. pc' \in [Loaders -> {Idle, Between, Loaded, Opened}
           \union [step : {"get", "inner", "create", "pin", "update", "freeze"}, map : Maps]]
    BY <1>1 DEF TypeOK, At, Between, ToFinalize
  <2>2. kmap' \in [Ids -> [exists : BOOLEAN, data : Loaders \union {Zero, App}, frozen : BOOLEAN]]
    BY <1>1, <1>3 DEF TypeOK, Gone, Freed
  <2>3. \A i \in Ids : kmap'[i].exists <=> Referenced(i, pins', held, inner')
    BY <1>2, <1>3 DEF Gone, TypeOK
  <2>4. pins' \in [Pinned -> 0 .. MaxMaps] /\ inner' \in [Loaders -> 0 .. MaxMaps]
    BY <1>1 DEF TypeOK
  <2> QED
    BY <1>1, <2>1, <2>2, <2>3, <2>4 DEF TypeOK
<1>5. PinnedShared'
  <2>1. SUFFICES ASSUME NEW k \in Loaders, NEW n \in Pinned,
                        held[k][n] # 0, ~Unshared(k, n)', <<k, n>> \notin orphaned
                 PROVE  pins'[n] = held[k][n]
    BY <1>1 DEF PinnedShared
  <2>2. CASE k = l
    BY <1>1, <2>1, <2>2 DEF PinnedShared, Unshared, TypeOK, At, Cur, m
  <2>3. CASE k # l
    BY <1>1, <2>1, <2>3 DEF PinnedShared, Unshared, TypeOK
  <2> QED
    BY <2>2, <2>3
<1>6. \A k \in Loaders, n \in Maps : held[k][n] # 0 => kmap'[held[k][n]] = kmap[held[k][n]]
  BY <1>3, ReferencedExists DEF Referenced
<1>7. ASSUME NEW k \in Loaders, k # l PROVE InOrder(k)'
  <2>1. pc'[k] = pc[k] /\ todo'[k] = todo[k] /\ held'[k] = held[k] /\ inner'[k] = inner[k]
    BY <1>1, <1>7 DEF TypeOK
  <2>2. \A n \in Maps : held[k][n] # 0 => Kept(held[k][n])
    BY <1>6, <1>7 DEF Kept
  <2> QED
    BY <2>1, <2>2, OthersInOrder
<1>8. InOrder(l)'
  <2>1. /\ pc'[l] = ToFinalize(m, TRUE)
        /\ inner'[l] = 0
        /\ pc[l] \notin {Idle, Opened}
        /\ m = pc[l].map /\ m \notin todo[l]
    BY <1>1 DEF InOrder, TypeOK, Cur, At, Idle, Opened, m
  <2>2. \A n \in Data \ todo[l] : n # m => Final(l, n)'
    <3>1. \A n \in Maps : held[l][n] # 0 => Kept(held[l][n])
      BY <1>6 DEF Kept
    <3> QED
      BY <1>1, <2>1, <3>1, OthersFinal
  <2>3. CASE m \in Data
    BY <1>1, <2>1, <2>2, <2>3, SMTT(30) DEF InOrder, ToFinalize, Cur, At, Idle, Loaded, Opened
  <2>4. CASE m \notin Data
    <3>1. pc'[l] = Between
      BY <2>1, <2>4 DEF ToFinalize
    <3>2. todo[l] \subseteq Maps
      BY DEF TypeOK
    <3>3. \A n \in Data \ todo[l] : Final(l, n)'
      BY <2>2, <2>4
    <3>4. /\ todo' = todo /\ held' = held /\ inner'[l] = 0
          /\ \A n \in todo[l] : held[l][n] = 0
      BY <1>1, <2>1 DEF InOrder
    <3>5. Between.step = "next" /\ Between.map = NoMap /\ Between \notin {Idle, Loaded, Opened}
      BY DEF At, Idle, Between, Loaded, Opened
    <3> QED
      BY <3>1, <3>2, <3>3, <3>4, <3>5 DEF InOrder, Cur
  <2> QED
    BY <2>3, <2>4
<1> QED
  BY <1>4, <1>5, <1>7, <1>8

\* load writes the initial data of a map, or freezes it.
LEMMA FinalizeStep ==
  ASSUME IInv, NEW l \in Loaders, Update(l) \/ Freeze(l)
  PROVE  IInv'
<1> USE DEF IInv
<1>1. Cur(l) \in Data
  BY DEF Update, Freeze, Does, InOrder
<1>2. PICK m \in Data : m = Cur(l)
  BY <1>1
<1>3. /\ pc[l].step \in {"update", "freeze"} /\ m \in Data
      /\ held[l][m] # 0 /\ held[l][m] \in Ids
      /\ ~kmap[held[l][m]].frozen
      /\ UNCHANGED <<pins, todo, held, inner, orphaned>>
  BY <1>2, ReferencedExists DEF Update, Freeze, Does, InOrder
<1>4. m \in Maps /\ m = pc[l].map /\ m \notin todo[l] /\ pc[l] \notin {Idle, Opened}
  BY <1>3, <1>2 DEF InOrder, Cur, At, Idle, Opened
<1>5. CASE pc[l].step = "update"
  <2>1. /\ kmap' = [kmap EXCEPT ![held[l][m]].data = l]
        /\ pc' = [pc EXCEPT ![l] = IF m \in Rodata THEN At("freeze", m) ELSE Between]
    BY <1>5, <1>2 DEF Update, Freeze, Does
  <2>2. \A i \in Ids : /\ kmap'[i].exists = kmap[i].exists /\ kmap'[i].frozen = kmap[i].frozen
                       /\ kmap'[i].data = IF i = held[l][m] THEN l ELSE kmap[i].data
    BY <1>3, <2>1 DEF TypeOK
  <2>3. TypeOK'
    <3>1. pc' \in [Loaders -> {Idle, Between, Loaded, Opened}
           \union [step : {"get", "inner", "create", "pin", "update", "freeze"}, map : Maps]]
      BY <1>4, <2>1 DEF TypeOK, At
    <3>2. kmap' \in [Ids -> [exists : BOOLEAN, data : Loaders \union {Zero, App}, frozen : BOOLEAN]]
      BY <1>3, <2>1, SMTT(30) DEF TypeOK
    <3> QED
      BY <1>3, <2>2, <3>1, <3>2 DEF TypeOK
  <2>4. \A k \in Loaders, n \in Pinned : Unshared(k, n) => Unshared(k, n)'
    BY <1>5, <2>1 DEF Unshared, TypeOK, At
  <2>5. PinnedShared'
    BY <1>3, <2>4 DEF PinnedShared
  <2>6. \A i \in Ids : Kept(i)
    BY <2>2 DEF Kept
  <2>7. ASSUME NEW k \in Loaders, k # l PROVE InOrder(k)'
    BY <1>3, <2>1, <2>6, <2>7, OthersInOrder, ReferencedExists DEF TypeOK
  <2>8. InOrder(l)'
    <3>1. \A n \in Data \ todo[l] : n # m => Final(l, n)'
      BY <1>3, <1>4, <2>6, ReferencedExists, OthersFinal
    <3>2. kmap'[held[l][m]].data # Zero
      BY <1>3, <2>2
    <3>3. m \notin Rodata => Final(l, m)'
      BY <1>3, <3>2 DEF Final
    <3>4. pc'[l] = IF m \in Rodata THEN At("freeze", m) ELSE Between
      BY <2>1 DEF TypeOK
    <3>5. inner[l] = 0
      BY <1>5 DEF InOrder
    <3> QED
      BY <1>3, <1>4, <3>1, <3>2, <3>3, <3>4, <3>5 DEF InOrder, TypeOK, Cur, At, Idle, Between, Loaded, Opened
  <2> QED
    BY <2>3, <2>5, <2>7, <2>8
<1>6. CASE pc[l].step = "freeze"
  <2>1. /\ kmap' = [kmap EXCEPT ![held[l][m]].frozen = TRUE]
        /\ pc' = [pc EXCEPT ![l] = Between]
        /\ m \in Rodata /\ kmap[held[l][m]].data # Zero
    BY <1>6, <1>2 DEF Update, Freeze, Does, InOrder
  <2>2. \A i \in Ids : /\ kmap'[i].exists = kmap[i].exists /\ kmap'[i].data = kmap[i].data
                       /\ kmap'[i].frozen = (IF i = held[l][m] THEN TRUE ELSE kmap[i].frozen)
    BY <1>3, <2>1 DEF TypeOK
  <2>3. TypeOK'
    <3>1. pc' \in [Loaders -> {Idle, Between, Loaded, Opened}
           \union [step : {"get", "inner", "create", "pin", "update", "freeze"}, map : Maps]]
      BY <2>1 DEF TypeOK
    <3>2. kmap' \in [Ids -> [exists : BOOLEAN, data : Loaders \union {Zero, App}, frozen : BOOLEAN]]
      <4>1. kmap[held[l][m]] \in [exists : BOOLEAN, data : Loaders \union {Zero, App}, frozen : BOOLEAN]
        BY <1>3 DEF TypeOK
      <4>2. [kmap[held[l][m]] EXCEPT !.frozen = TRUE]
              \in [exists : BOOLEAN, data : Loaders \union {Zero, App}, frozen : BOOLEAN]
        BY <4>1
      <4> QED
        BY <1>3, <2>1, <4>2 DEF TypeOK
    <3> QED
      BY <1>3, <2>2, <3>1, <3>2 DEF TypeOK
  <2>4. \A k \in Loaders, n \in Pinned : Unshared(k, n) => Unshared(k, n)'
    BY <1>6, <2>1 DEF Unshared, TypeOK, At
  <2>5. PinnedShared'
    BY <1>3, <2>4 DEF PinnedShared
  <2>6. \A i \in Ids : Kept(i)
    BY <2>2 DEF Kept
  <2>7. ASSUME NEW k \in Loaders, k # l PROVE InOrder(k)'
    BY <1>3, <2>1, <2>6, <2>7, OthersInOrder, ReferencedExists DEF TypeOK
  <2>8. InOrder(l)'
    <3>1. \A n \in Data \ todo[l] : n # m => Final(l, n)'
      BY <1>3, <1>4, <2>6, ReferencedExists, OthersFinal
    <3>2. Final(l, m)'
      BY <1>3, <2>1, <2>2 DEF Final
    <3>3. pc'[l] = Between
      BY <2>1 DEF TypeOK
    <3>4. inner[l] = 0
      BY <1>6 DEF InOrder
    <3> QED
      BY <1>3, <1>4, <3>1, <3>2, <3>3, <3>4 DEF InOrder, TypeOK, Cur, At, Idle, Between, Loaded, Opened
  <2> QED
    BY <2>3, <2>5, <2>7, <2>8
<1> QED
  BY <1>3, <1>5, <1>6

\* A process closes all that it has open.
LEMMA CloseStep ==
  ASSUME IInv, NEW l \in Loaders, Close(l)
  PROVE  IInv'
<1> USE DEF IInv
<1>1. /\ pc' = [pc EXCEPT ![l] = Idle]
      /\ todo' = [todo EXCEPT ![l] = {}]
      /\ held' = [held EXCEPT ![l] = NoMaps]
      /\ inner' = [inner EXCEPT ![l] = 0]
      /\ kmap' = Freed(kmap, pins, held', inner')
      /\ orphaned' = {x \in orphaned : x[1] # l}
      /\ pins' = pins
  BY DEF Close
<1>2. \A i \in Ids : Referenced(i, pins, held', inner') => kmap[i].exists
  BY <1>1 DEF Referenced, TypeOK, Ids, NoMaps
<1>3. \A i \in Ids : kmap'[i] = IF Referenced(i, pins, held', inner') THEN kmap[i] ELSE Gone
  BY <1>1 DEF Freed
<1>4. TypeOK'
  <2>1. /\ pc' \in [Loaders -> {Idle, Between, Loaded, Opened}
             \union [step : {"get", "inner", "create", "pin", "update", "freeze"}, map : Maps]]
        /\ todo' \in [Loaders -> SUBSET Maps]
        /\ held' \in [Loaders -> [Maps -> 0 .. MaxMaps]]
        /\ inner' \in [Loaders -> 0 .. MaxMaps]
        /\ orphaned' \subseteq Loaders \X Pinned
    BY <1>1 DEF TypeOK, NoMaps
  <2>2. kmap' \in [Ids -> [exists : BOOLEAN, data : Loaders \union {Zero, App}, frozen : BOOLEAN]]
    BY <1>1, <1>3 DEF TypeOK, Gone, Freed
  <2>3. \A i \in Ids : kmap'[i].exists <=> Referenced(i, pins, held', inner')
    BY <1>2, <1>3 DEF Gone, TypeOK
  <2> QED
    BY <1>1, <2>1, <2>2, <2>3 DEF TypeOK
<1>5. PinnedShared'
  <2>1. SUFFICES ASSUME NEW k \in Loaders, NEW n \in Pinned,
                        held'[k][n] # 0, ~Unshared(k, n)', <<k, n>> \notin orphaned'
                 PROVE  pins[n] = held'[k][n]
    BY <1>1 DEF PinnedShared
  <2>2. k # l
    BY <1>1, <2>1 DEF NoMaps, TypeOK
  <2>3. <<k, n>> \notin orphaned
    BY <1>1, <2>1, <2>2
  <2> QED
    BY <1>1, <2>1, <2>2, <2>3 DEF PinnedShared, Unshared, TypeOK
<1>6. ASSUME NEW k \in Loaders, k # l PROVE InOrder(k)'
  <2>1. pc'[k] = pc[k] /\ todo'[k] = todo[k] /\ held'[k] = held[k] /\ inner'[k] = inner[k]
    BY <1>1, <1>6 DEF TypeOK
  <2>2. \A n \in Maps : held[k][n] # 0 => kmap'[held[k][n]] = kmap[held[k][n]]
    BY <1>3, <2>1, ReferencedExists DEF Referenced
  <2> QED
    BY <2>1, <2>2, OthersInOrder DEF Kept
<1>7. InOrder(l)'
  BY <1>1 DEF InOrder, TypeOK, Cur, At, Idle, Loaded, Opened, NoMaps
<1> QED
  BY <1>4, <1>5, <1>6, <1>7

\* What applications do with pins and with the maps they hold.
LEMMA FromPinStep ==
  ASSUME IInv, NEW l \in Loaders, NEW m \in Pinned, FromPin(l, m)
  PROVE  IInv'
<1> USE DEF IInv
<1>1. /\ pc[l] = Idle /\ held[l] = NoMaps /\ todo[l] = {} /\ inner[l] = 0
      /\ pins[m] # 0 /\ pins[m] \in Ids
      /\ held' = [held EXCEPT ![l][m] = pins[m]]
      /\ pc' = [pc EXCEPT ![l] = Opened]
      /\ UNCHANGED <<kmap, pins, todo, inner, orphaned>>
  <2>1. pc[l] = Idle /\ pins[m] # 0 /\ pins[m] \in Ids
    BY DEF FromPin, TypeOK, Ids
  <2>2. held[l] = NoMaps /\ todo[l] = {} /\ inner[l] = 0
    BY <2>1 DEF InOrder, Idle, At
  <2> QED
    BY <2>1, <2>2 DEF FromPin
<1>2. TypeOK'
  <2>1. \A id \in Ids : Referenced(id, pins, held, inner)' <=> Referenced(id, pins, held, inner)
    BY <1>1 DEF Referenced, TypeOK, Ids, NoMaps
  <2>2. pc' \in [Loaders -> {Idle, Between, Loaded, Opened}
           \union [step : {"get", "inner", "create", "pin", "update", "freeze"}, map : Maps]]
    BY <1>1 DEF TypeOK
  <2>3. held' \in [Loaders -> [Maps -> 0 .. MaxMaps]]
    BY <1>1 DEF TypeOK, Ids
  <2> QED
    BY <1>1, <2>1, <2>2, <2>3 DEF TypeOK
<1>3. PinnedShared'
  BY <1>1 DEF PinnedShared, Unshared, TypeOK, At, Idle
<1>4. ASSUME NEW k \in Loaders, k # l PROVE InOrder(k)'
  BY <1>1, <1>4, OthersInOrder DEF TypeOK, Kept
<1>5. InOrder(l)'
  BY <1>1 DEF InOrder, TypeOK, Cur, At, Idle, Loaded, Opened
<1> QED
  BY <1>2, <1>3, <1>4, <1>5

LEMMA PinAgainStep ==
  ASSUME IInv, NEW l \in Loaders, NEW m \in Pinned, PinAgain(l, m)
  PROVE  IInv'
<1> USE DEF IInv
<1>1. /\ held[l][m] # 0 /\ pins[m] = 0
      /\ pins' = [pins EXCEPT ![m] = held[l][m]]
      /\ UNCHANGED <<kmap, pc, todo, held, inner, orphaned>>
  BY DEF PinAgain
<1>2. TypeOK'
  <2>1. \A id \in Ids : Referenced(id, pins, held, inner)' <=> Referenced(id, pins, held, inner)
    BY <1>1 DEF Referenced, TypeOK, Ids
  <2>2. pins' \in [Pinned -> 0 .. MaxMaps]
    BY <1>1 DEF TypeOK
  <2> QED
    BY <1>1, <2>1, <2>2 DEF TypeOK
<1>3. PinnedShared'
  BY <1>1 DEF PinnedShared, Unshared, TypeOK
<1>4. ASSUME NEW k \in Loaders PROVE InOrder(k)'
  BY <1>1, <1>4, OthersInOrder DEF TypeOK, Kept
<1> QED
  BY <1>2, <1>3, <1>4

LEMMA WriteStep ==
  ASSUME IInv, NEW l \in Loaders, NEW m \in Maps, Write(l, m)
  PROVE  IInv'
<1> USE DEF IInv
<1>1. /\ held[l][m] \in Ids
      /\ kmap' = [kmap EXCEPT ![held[l][m]].data = App]
      /\ UNCHANGED <<pins, pc, todo, held, inner, orphaned>>
  BY ReferencedExists DEF Write
<1>2. TypeOK'
  <2>1. kmap' \in [Ids -> [exists : BOOLEAN, data : Loaders \union {Zero, App}, frozen : BOOLEAN]]
    <3>1. kmap[held[l][m]] \in [exists : BOOLEAN, data : Loaders \union {Zero, App}, frozen : BOOLEAN]
      BY <1>1 DEF TypeOK
    <3>2. [kmap[held[l][m]] EXCEPT !.data = App]
            \in [exists : BOOLEAN, data : Loaders \union {Zero, App}, frozen : BOOLEAN]
      BY <3>1
    <3> QED
      BY <1>1, <3>2 DEF TypeOK
  <2>2. \A i \in Ids : kmap'[i].exists = kmap[i].exists
    BY <1>1 DEF TypeOK
  <2> QED
    BY <1>1, <2>1, <2>2 DEF TypeOK
<1>3. PinnedShared'
  BY <1>1 DEF PinnedShared, Unshared
<1>4. \A i \in Ids : Kept(i)
  BY <1>1 DEF Kept, TypeOK
<1>5. ASSUME NEW k \in Loaders PROVE InOrder(k)'
  BY <1>1, <1>4, <1>5, OthersInOrder, ReferencedExists
<1> QED
  BY <1>2, <1>3, <1>5

LEMMA RemovePinStep ==
  ASSUME IInv, NEW m \in Pinned, RemovePin(m)
  PROVE  IInv'
<1> USE DEF IInv
<1>1. /\ pins[m] # 0
      /\ pins' = [pins EXCEPT ![m] = 0]
      /\ kmap' = Freed(kmap, pins', held, inner)
      /\ orphaned' = orphaned \union {<<l, m>> : l \in {l \in Loaders : held[l][m] = pins[m]}}
      /\ UNCHANGED <<pc, todo, held, inner>>
  BY DEF RemovePin
<1>2. \A i \in Ids : Referenced(i, pins', held, inner) => kmap[i].exists
  BY <1>1 DEF Referenced, TypeOK, Ids
<1>3. \A i \in Ids : kmap'[i] = IF Referenced(i, pins', held, inner) THEN kmap[i] ELSE Gone
  BY <1>1 DEF Freed
<1>4. TypeOK'
  <2>1. pins' \in [Pinned -> 0 .. MaxMaps] /\ orphaned' \subseteq Loaders \X Pinned
    BY <1>1 DEF TypeOK
  <2>2. kmap' \in [Ids -> [exists : BOOLEAN, data : Loaders \union {Zero, App}, frozen : BOOLEAN]]
    BY <1>1, <1>3 DEF TypeOK, Gone, Freed
  <2>3. \A i \in Ids : kmap'[i].exists <=> Referenced(i, pins', held, inner)
    BY <1>2, <1>3 DEF Gone, TypeOK
  <2> QED
    BY <1>1, <2>1, <2>2, <2>3 DEF TypeOK
<1>5. PinnedShared'
  BY <1>1 DEF PinnedShared, Unshared, TypeOK
<1>6. ASSUME NEW k \in Loaders PROVE InOrder(k)'
  <2>1. \A n \in Maps : held[k][n] # 0 => kmap'[held[k][n]] = kmap[held[k][n]]
    BY <1>3, <1>6, ReferencedExists DEF Referenced
  <2> QED
    BY <1>1, <1>6, <2>1, OthersInOrder DEF Kept
<1> QED
  BY <1>4, <1>5, <1>6

-----------------------------------------------------------------------------
(* The theorems *)

LEMMA NextInvariant == IInv /\ [Next]_vars => IInv'
<1> SUFFICES ASSUME IInv, [Next]_vars PROVE IInv'
  OBVIOUS
<1>1. CASE UNCHANGED vars
  <2>1. TypeOK' /\ PinnedShared'
    BY <1>1 DEF IInv, vars, TypeOK, PinnedShared, Unshared
  <2>2. ASSUME NEW k \in Loaders PROVE InOrder(k)'
    BY <1>1, <2>2, OthersInOrder DEF IInv, vars, Kept
  <2> QED
    BY <2>1, <2>2 DEF IInv
<1>2. ASSUME NEW l \in Loaders,
             \/ StartLoad(l) \/ TakeMap(l) \/ OpenPin(l) \/ OpenPinFails(l)
             \/ CreateInner(l) \/ Create(l) \/ Pin(l) \/ Update(l) \/ Freeze(l)
             \/ FinishLoad(l) \/ Close(l)
      PROVE  IInv'
  BY <1>2, ControlStep, OpenPinStep, CreateInnerStep, CreateStep, PinStep, FinalizeStep, CloseStep
<1>3. ASSUME NEW l \in Loaders, NEW m \in Pinned, FromPin(l, m) \/ PinAgain(l, m)
      PROVE  IInv'
  BY <1>3, FromPinStep, PinAgainStep
<1>4. ASSUME NEW l \in Loaders, NEW m \in Maps, Write(l, m)
      PROVE  IInv'
  BY <1>4, WriteStep
<1>5. ASSUME NEW m \in Pinned, RemovePin(m)
      PROVE  IInv'
  BY <1>5, RemovePinStep
<1> QED
  BY <1>1, <1>2, <1>3, <1>4, <1>5 DEF Next

\* In every reachable state the invariant holds: whatever the loaders do at the same time
\* and wherever they die, maps live exactly as long as something refers to them, pinned
\* maps are shared, and load goes through the maps in order (EbpfLoader::load).
THEOREM InductiveInvariant == Spec => []IInv
BY InitInvariant, NextInvariant, PTL DEF Spec

\* The variables keep their types, and a map exists if and only if a descriptor or a pin
\* refers to it: no descriptor is left behind (MapData, create_pinned_by_name).
THEOREM TypeCorrect == Spec => []TypeOK
BY InductiveInvariant, PTL DEF IInv

\* Loads that race to create a pinned map end with one map, or an error
\* (create_pinned_by_name).
THEOREM PinnedMapsAreShared == Spec => []PinnedShared
BY InductiveInvariant, PTL DEF IInv

\* No loaded object runs on the zeros of a new map (MapData::finalize).
THEOREM LoadedMapsAreInitialised == Spec => []LoadedInitialised
<1>1. IInv => LoadedInitialised
  BY DEF IInv, InOrder, Final, LoadedInitialised, Loaded, Idle, Opened, At, Cur
<1> QED
  BY <1>1, InductiveInvariant, PTL

\* A step that leaves a frozen map referenced leaves its contents alone.
LEMMA FrozenContents ==
  ASSUME IInv, Next, NEW id \in Ids, kmap[id].exists, kmap[id].frozen,
         NEW l \in Loaders, NEW m \in Maps, held[l][m] = id, held'[l][m] = id
  PROVE  kmap'[id].data = kmap[id].data
<1> USE DEF IInv
<1>1. Referenced(id, pins', held', inner')
  BY DEF Referenced
<1>2. ASSUME NEW k \in Loaders,
             \/ StartLoad(k) \/ TakeMap(k) \/ OpenPin(k) \/ OpenPinFails(k) \/ FinishLoad(k)
      PROVE  kmap'[id] = kmap[id]
  BY <1>2 DEF StartLoad, TakeMap, OpenPin, OpenPinFails, FinishLoad
<1>3. ASSUME NEW k \in Loaders, CreateInner(k) \/ Create(k)
      PROVE  kmap'[id] = kmap[id]
  <2>1. FreeId \in Ids /\ FreeId # id
    BY <1>3, FreeIdFacts DEF CreateInner, Create
  <2>2. [kmap EXCEPT ![FreeId] = New][id] = kmap[id]
    BY <2>1 DEF TypeOK
  <2>3. CASE CreateInner(k)
    BY <2>2, <2>3 DEF CreateInner
  <2>4. CASE Create(k)
    <3>1. /\ pins' = pins
          /\ kmap' = Freed([kmap EXCEPT ![FreeId] = New], pins, held', inner')
      BY <2>4 DEF Create
    <3> QED
      BY <1>1, <2>2, <3>1 DEF Freed
  <2> QED
    BY <1>3, <2>3, <2>4
<1>4. ASSUME NEW k \in Loaders, Pin(k) \/ Close(k)
      PROVE  kmap'[id] = kmap[id]
  <2>1. kmap' = Freed(kmap, pins', held', inner')
    BY <1>4 DEF Pin, Close
  <2> QED
    BY <1>1, <2>1 DEF Freed
<1>5. ASSUME NEW k \in Loaders, Update(k) \/ Freeze(k)
      PROVE  kmap'[id] = kmap[id]
  <2>1. id # held[k][Cur(k)]
    BY <1>5 DEF Update, Freeze
  <2> QED
    BY <1>5, <2>1 DEF Update, Freeze, TypeOK
<1>6. ASSUME NEW k \in Loaders, NEW n \in Maps, Write(k, n)
      PROVE  kmap'[id] = kmap[id]
  <2>1. id # held[k][n]
    BY <1>6 DEF Write
  <2> QED
    BY <1>6, <2>1 DEF Write, TypeOK
<1>7. ASSUME NEW k \in Loaders, NEW n \in Pinned, FromPin(k, n) \/ PinAgain(k, n)
      PROVE  kmap'[id] = kmap[id]
  BY <1>7 DEF FromPin, PinAgain
<1>8. ASSUME NEW n \in Pinned, RemovePin(n)
      PROVE  kmap'[id] = kmap[id]
  BY <1>1, <1>8 DEF RemovePin, Freed
<1> QED
  BY <1>2, <1>3, <1>4, <1>5, <1>6, <1>7, <1>8 DEF Next

\* A process whose object is loaded keeps its descriptors until it closes them all.
LEMMA LoadedKeepsDescriptors ==
  ASSUME IInv, Next, NEW l \in Loaders, pc[l] = Loaded, pc'[l] = Loaded
  PROVE  held'[l] = held[l]
<1> USE DEF IInv
<1>1. ASSUME NEW k \in Loaders, OpenPin(k) \/ Create(k)
      PROVE  held'[l] = held[l]
  <2>1. k # l
    <3>1. pc[k].step \in {"get", "create"}
      BY <1>1 DEF OpenPin, Create, Does
    <3> QED
      BY <3>1 DEF Loaded, At
  <2> QED
    BY <1>1, <2>1 DEF OpenPin, Create, TypeOK
<1>2. ASSUME NEW k \in Loaders, Close(k)
      PROVE  held'[l] = held[l]
  <2>1. k # l
    BY <1>2 DEF Close, TypeOK, Loaded, Idle, At
  <2> QED
    BY <1>2, <2>1 DEF Close, TypeOK
<1>3. ASSUME NEW k \in Loaders, NEW n \in Pinned, FromPin(k, n)
      PROVE  held'[l] = held[l]
  <2>1. k # l
    BY <1>3 DEF FromPin, Loaded, Idle, At
  <2> QED
    BY <1>3, <2>1 DEF FromPin, TypeOK
<1>4. ASSUME NEW k \in Loaders,
             \/ StartLoad(k) \/ TakeMap(k) \/ OpenPinFails(k) \/ CreateInner(k) \/ Pin(k)
             \/ Update(k) \/ Freeze(k) \/ FinishLoad(k)
             \/ \E n \in Pinned : PinAgain(k, n)
             \/ \E n \in Maps : Write(k, n)
      PROVE  held'[l] = held[l]
  BY <1>4 DEF StartLoad, TakeMap, OpenPinFails, CreateInner, Pin, Update, Freeze, FinishLoad,
              PinAgain, Write
<1>5. ASSUME NEW n \in Pinned, RemovePin(n)
      PROVE  held'[l] = held[l]
  BY <1>5 DEF RemovePin
<1> QED
  BY <1>1, <1>2, <1>3, <1>4, <1>5 DEF Next

\* The contents of .rodata never change once load returned, whatever other loaders and
\* applications do with the same pin (MapData::finalize, freeze).
THEOREM RodataIsStable == Spec => RodataStable
<1>1. IInv /\ [Next]_vars =>
        [\A l \in Loaders, m \in Rodata :
           (pc[l] = Loaded /\ pc'[l] = Loaded) =>
             kmap'[held[l][m]].data = kmap[held[l][m]].data]_vars
  <2> SUFFICES ASSUME IInv, Next, NEW l \in Loaders, NEW m \in Rodata,
                      pc[l] = Loaded, pc'[l] = Loaded
               PROVE  kmap'[held[l][m]].data = kmap[held[l][m]].data
    BY DEF vars
  <2>1. /\ held[l][m] \in Ids /\ kmap[held[l][m]].exists /\ kmap[held[l][m]].frozen
        /\ m \in Maps
    BY ReferencedExists DEF IInv, InOrder, Final, Loaded, Idle, Opened, At, Cur
  <2> QED
    BY <2>1, FrozenContents, LoadedKeepsDescriptors
<1> QED
  BY <1>1, InductiveInvariant, PTL DEF Spec, RodataStable
=============================================================================
