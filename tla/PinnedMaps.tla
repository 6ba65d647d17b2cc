----------------------------- MODULE PinnedMaps -----------------------------
(***************************************************************************)
(* The maps of EbpfLoader::load (aya/src/bpf.rs) and MapData               *)
(* (aya/src/maps/mod.rs): several processes load the same object file,     *)
(* which has pinned maps, data sections and maps of maps. Each system call *)
(* is a step of its own, since other loaders act between any two of them:  *)
(* open the pin, create, pin, write the initial data, freeze.              *)
(*                                                                         *)
(* A map lives as long as a descriptor or a pin refers to it. Its contents *)
(* are one value: the zeros it is created with, the data section of the    *)
(* loader that wrote it (each loader overrides globals in its own way), or *)
(* what an application wrote.                                              *)
(***************************************************************************)
EXTENDS Naturals

CONSTANTS
  Loaders,  \* processes that load the object or open its pins
  Maps,     \* the object's maps, by name
  Pinned,   \* those with a pin path: map_pin_path, or PinningType::ByName
  Data,     \* .data, .rodata and .bss: maps with initial contents
  Rodata,   \* those that are frozen
  OfMaps,   \* arrays and hashes of maps
  NoMap,    \* stands for no map
  Zero,     \* the contents of a new map
  App,      \* contents that an application wrote
  MaxMaps   \* bound: maps in the kernel at a time

ASSUME MapsAssumption == /\ Pinned \subseteq Maps /\ Data \subseteq Maps
                         /\ Rodata \subseteq Data /\ OfMaps \subseteq Maps \ Data
ASSUME NoMapAssumption == NoMap \notin Maps
ASSUME ContentsAssumption == Zero \notin Loaders /\ App \notin Loaders /\ Zero # App
ASSUME MaxMapsAssumption == MaxMaps \in Nat

VARIABLES
  kmap,     \* the kernel's maps: whether it exists, its contents, frozen or not
  pins,     \* the map pinned at each path, or 0
  pc,       \* where each process is, and with which map
  todo,     \* the maps load has not taken up yet
  held,     \* the descriptors of a process: the map of each name, or 0
  inner,    \* its descriptor of an inner map, or 0
  orphaned  \* history: <<process, map>> held while the pin was removed

vars == <<kmap, pins, pc, todo, held, inner, orphaned>>

-----------------------------------------------------------------------------
(* The kernel *)

Ids == 1 .. MaxMaps
Gone == [exists |-> FALSE, data |-> Zero, frozen |-> FALSE]
New == [exists |-> TRUE, data |-> Zero, frozen |-> FALSE]
NoMaps == [m \in Maps |-> 0]

\* A map that no descriptor and no pin refers to is freed.
Referenced(id, pins1, held1, inner1) ==
  \/ \E m \in Pinned : pins1[m] = id
  \/ \E l \in Loaders : inner1[l] = id \/ \E m \in Maps : held1[l][m] = id

Freed(kmap1, pins1, held1, inner1) ==
  [id \in Ids |-> IF Referenced(id, pins1, held1, inner1) THEN kmap1[id] ELSE Gone]

FreeId == CHOOSE id \in Ids : ~kmap[id].exists /\ \A i \in Ids : i < id => kmap[i].exists
HasFreeId == \E id \in Ids : ~kmap[id].exists

-----------------------------------------------------------------------------
(* EbpfLoader::load *)

At(step, m) == [step |-> step, map |-> m]
Idle == At("idle", NoMap)
Between == At("next", NoMap)
Loaded == At("loaded", NoMap)
Opened == At("opened", NoMap)

Does(l, step) == pc[l].step = step
Cur(l) == pc[l].map

\* Where load goes when it needs a map of its own: a map of maps needs an inner
\* map first, which is not created when the outer map is already pinned.
ToCreate(m) == At(IF m \in OfMaps THEN "inner" ELSE "create", m)

\* Seeded fault: initial data only for a map that this load created.
ToFinalizeIfCreated(m, created) == IF created /\ m \in Data THEN At("update", m) ELSE Between

\* finalize: what it does first.
ToFinalize(m, created) == IF m \in Data THEN At("update", m) ELSE Between

StartLoad(l) ==
  /\ pc[l] = Idle
  /\ todo' = [todo EXCEPT ![l] = Maps]
  /\ pc' = [pc EXCEPT ![l] = Between]
  /\ UNCHANGED <<kmap, pins, held, inner, orphaned>>

\* The next map in the order of a hash table, maps of maps after the others.
TakeMap(l) == \E m \in todo[l] :
  /\ pc[l] = Between
  /\ m \in OfMaps => todo[l] \subseteq OfMaps
  /\ todo' = [todo EXCEPT ![l] = @ \ {m}]
  /\ pc' = [pc EXCEPT ![l] = IF m \in Pinned THEN At("get", m) ELSE ToCreate(m)]
  /\ UNCHANGED <<kmap, pins, held, inner, orphaned>>

\* create_pinned_by_name finds the pin.
OpenPin(l) ==
  /\ Does(l, "get")
  /\ pins[Cur(l)] # 0
  /\ held' = [held EXCEPT ![l][Cur(l)] = pins[Cur(l)]]
  /\ pc' = [pc EXCEPT ![l] = ToFinalize(Cur(l), FALSE)]
  /\ UNCHANGED <<kmap, pins, todo, inner, orphaned>>

\* create_pinned_by_name takes every error, also one other than "no such file", to
\* mean that the map has to be created.
OpenPinFails(l) ==
  /\ Does(l, "get")
  /\ pc' = [pc EXCEPT ![l] = ToCreate(Cur(l))]
  /\ UNCHANGED <<kmap, pins, todo, held, inner, orphaned>>

CreateInner(l) ==
  /\ Does(l, "inner")
  /\ HasFreeId
  /\ kmap' = [kmap EXCEPT ![FreeId] = New]
  /\ inner' = [inner EXCEPT ![l] = FreeId]
  /\ pc' = [pc EXCEPT ![l] = At("create", Cur(l))]
  /\ UNCHANGED <<pins, todo, held, orphaned>>

\* create_with_inner_map_fd. The inner map goes out of scope unless pin follows.
Create(l) ==
  /\ Does(l, "create")
  /\ HasFreeId
  /\ LET m == Cur(l) IN
       /\ held' = [held EXCEPT ![l][m] = FreeId]
       /\ inner' = IF m \in Pinned THEN inner ELSE [inner EXCEPT ![l] = 0]
       /\ kmap' = Freed([kmap EXCEPT ![FreeId] = New], pins, held', inner')
       /\ pc' = [pc EXCEPT ![l] = IF m \in Pinned THEN At("pin", m) ELSE ToFinalize(m, TRUE)]
  /\ UNCHANGED <<pins, todo, orphaned>>

\* Seeded fault: a path that is taken is taken for success.
PinOrIgnore(l) ==
  /\ Does(l, "pin")
  /\ pins' = [pins EXCEPT ![Cur(l)] = IF @ = 0 THEN held[l][Cur(l)] ELSE @]
  /\ inner' = [inner EXCEPT ![l] = 0]
  /\ kmap' = Freed(kmap, pins', held, inner')
  /\ pc' = [pc EXCEPT ![l] = ToFinalize(Cur(l), TRUE)]
  /\ UNCHANGED <<todo, held, orphaned>>

\* Seeded fault: the descriptor of the inner map is not closed.
PinLeakingInner(l) ==
  /\ Does(l, "pin")
  /\ pins[Cur(l)] = 0
  /\ pins' = [pins EXCEPT ![Cur(l)] = held[l][Cur(l)]]
  /\ inner' = [inner EXCEPT ![l] = 0]
  /\ pc' = [pc EXCEPT ![l] = ToFinalize(Cur(l), TRUE)]
  /\ UNCHANGED <<kmap, todo, held, orphaned>>

\* pin, which the kernel refuses with EEXIST when the path is taken; load then fails.
Pin(l) ==
  /\ Does(l, "pin")
  /\ pins[Cur(l)] = 0
  /\ pins' = [pins EXCEPT ![Cur(l)] = held[l][Cur(l)]]
  /\ inner' = [inner EXCEPT ![l] = 0]
  /\ kmap' = Freed(kmap, pins', held, inner')
  /\ pc' = [pc EXCEPT ![l] = ToFinalize(Cur(l), TRUE)]
  /\ UNCHANGED <<todo, held, orphaned>>

\* finalize: the initial data, also over what is in a map that was opened. The kernel
\* refuses it for a frozen map; load then fails.
Update(l) ==
  /\ Does(l, "update")
  /\ ~kmap[held[l][Cur(l)]].frozen
  /\ kmap' = [kmap EXCEPT ![held[l][Cur(l)]].data = l]
  /\ pc' = [pc EXCEPT ![l] = IF Cur(l) \in Rodata THEN At("freeze", Cur(l)) ELSE Between]
  /\ UNCHANGED <<pins, todo, held, inner, orphaned>>

\* Seeded fault: read-only data is not frozen.
FreezeOmitted(l) ==
  /\ Does(l, "freeze")
  /\ pc' = [pc EXCEPT ![l] = Between]
  /\ UNCHANGED <<kmap, pins, todo, held, inner, orphaned>>

\* finalize: freeze, which the kernel refuses for a map that is frozen.
Freeze(l) ==
  /\ Does(l, "freeze")
  /\ ~kmap[held[l][Cur(l)]].frozen
  /\ kmap' = [kmap EXCEPT ![held[l][Cur(l)]].frozen = TRUE]
  /\ pc' = [pc EXCEPT ![l] = Between]
  /\ UNCHANGED <<pins, todo, held, inner, orphaned>>

\* The rest of load: relocation, the programs, parse_map.
FinishLoad(l) ==
  /\ pc[l] = Between
  /\ todo[l] = {}
  /\ pc' = [pc EXCEPT ![l] = Loaded]
  /\ UNCHANGED <<kmap, pins, todo, held, inner, orphaned>>

\* Every descriptor of the process is closed: load fails, at any step, the Ebpf or
\* MapData value is dropped, or the process is killed. Pins stay.
Close(l) ==
  /\ pc[l] # Idle
  /\ pc' = [pc EXCEPT ![l] = Idle]
  /\ todo' = [todo EXCEPT ![l] = {}]
  /\ held' = [held EXCEPT ![l] = NoMaps]
  /\ inner' = [inner EXCEPT ![l] = 0]
  /\ kmap' = Freed(kmap, pins, held', inner')
  /\ orphaned' = {x \in orphaned : x[1] # l}
  /\ UNCHANGED pins

-----------------------------------------------------------------------------
(* What applications do with maps *)

\* MapData::from_pin, without any loader.
FromPin(l, m) ==
  /\ pc[l] = Idle
  /\ pins[m] # 0
  /\ held' = [held EXCEPT ![l][m] = pins[m]]
  /\ pc' = [pc EXCEPT ![l] = Opened]
  /\ UNCHANGED <<kmap, pins, todo, inner, orphaned>>

Write(l, m) ==
  /\ pc[l] \in {Loaded, Opened}
  /\ m \in Data /\ held[l][m] # 0
  /\ ~kmap[held[l][m]].frozen
  /\ kmap' = [kmap EXCEPT ![held[l][m]].data = App]
  /\ UNCHANGED <<pins, pc, todo, held, inner, orphaned>>

\* MapData::pin on a map that is in use.
PinAgain(l, m) ==
  /\ pc[l] \in {Loaded, Opened}
  /\ held[l][m] # 0 /\ pins[m] = 0
  /\ pins' = [pins EXCEPT ![m] = held[l][m]]
  /\ UNCHANGED <<kmap, pc, todo, held, inner, orphaned>>

\* Someone removes the file.
RemovePin(m) ==
  /\ pins[m] # 0
  /\ pins' = [pins EXCEPT ![m] = 0]
  /\ kmap' = Freed(kmap, pins', held, inner)
  /\ orphaned' = orphaned \union {<<l, m>> : l \in {l \in Loaders : held[l][m] = pins[m]}}
  /\ UNCHANGED <<pc, todo, held, inner>>

-----------------------------------------------------------------------------
Init ==
  /\ kmap = [id \in Ids |-> Gone]
  /\ pins = [m \in Pinned |-> 0]
  /\ pc = [l \in Loaders |-> Idle]
  /\ todo = [l \in Loaders |-> {}]
  /\ held = [l \in Loaders |-> NoMaps]
  /\ inner = [l \in Loaders |-> 0]
  /\ orphaned = {}

Next ==
  \/ \E l \in Loaders :
       \/ StartLoad(l) \/ TakeMap(l) \/ OpenPin(l) \/ OpenPinFails(l)
       \/ CreateInner(l) \/ Create(l) \/ Pin(l) \/ Update(l) \/ Freeze(l)
       \/ FinishLoad(l) \/ Close(l)
       \/ \E m \in Pinned : FromPin(l, m) \/ PinAgain(l, m)
       \/ \E m \in Maps : Write(l, m)
  \/ \E m \in Pinned : RemovePin(m)

Spec == Init /\ [][Next]_vars

-----------------------------------------------------------------------------
(* Properties *)

\* The types of the variables; a process holds only maps that exist.
TypeOK ==
  /\ kmap \in [Ids -> [exists : BOOLEAN, data : Loaders \union {Zero, App}, frozen : BOOLEAN]]
  /\ pins \in [Pinned -> 0 .. MaxMaps]
  /\ pc \in [Loaders -> {Idle, Between, Loaded, Opened}
         \union [step : {"get", "inner", "create", "pin", "update", "freeze"}, map : Maps]]
  /\ todo \in [Loaders -> SUBSET Maps]
  /\ held \in [Loaders -> [Maps -> 0 .. MaxMaps]]
  /\ inner \in [Loaders -> 0 .. MaxMaps]
  /\ orphaned \subseteq Loaders \X Pinned
  /\ \A id \in Ids : kmap[id].exists <=> Referenced(id, pins, held, inner)

\* The map that load is still to pin is not shared yet.
Unshared(l, m) == pc[l] = At("pin", m)

\* Two loads that race to create the same pinned map end with one map (or with an
\* error): what a process holds under a pinned name is what others find at the path,
\* unless someone removed the pin meanwhile.
PinnedShared ==
  \A l \in Loaders, m \in Pinned :
    (held[l][m] # 0 /\ ~Unshared(l, m) /\ <<l, m>> \notin orphaned) => pins[m] = held[l][m]

\* No loaded object runs on the zeros of a new map, also when it found the map at a pin
\* whose creator died, or still stood, between pinning the map and writing its data.
LoadedInitialised ==
  \A l \in Loaders, m \in Data :
    pc[l] = Loaded => kmap[held[l][m]].data # Zero

\* The verifier takes the contents of .rodata for constants: once load returned they
\* never change, whatever other loaders and applications do with the same pin.
RodataStable ==
  [][\A l \in Loaders, m \in Rodata :
       (pc[l] = Loaded /\ pc'[l] = Loaded) =>
         kmap'[held[l][m]].data = kmap[held[l][m]].data]_vars
=============================================================================
