-------------------------- MODULE KernelLoopsProofs --------------------------
(***************************************************************************)
(* Theorems about KernelLoops, for every finite set of keys, every number  *)
(* of buckets, ids and changes, and every sizes of the verifier's log that *)
(* RetriesAssumption allows.                                               *)
(***************************************************************************)
EXTENDS KernelLoops, WellFoundedInduction, TLAPS, FiniteSetTheorems, SequenceTheorems

-----------------------------------------------------------------------------
(* The inductive invariant *)

Walks == {"keys", "iter"}

\* A key that the walk has yet to come to, or has come to and looks up. If the key from
\* which it goes on is gone, the walk goes on from the first; if that key comes back, it
\* comes to the head of its bucket.
Ahead(k) ==
  \/ cursor = None
  \/ bucket[cursor] < bucket[k]
  \/ bucket[cursor] = bucket[k] /\ (cursor \notin Present \/ since[cursor] > since[k])
  \/ step = "lookup" /\ k = cursor

\* A key that the walk has left behind, as long as nothing disturbs the order.
Behind(k) ==
  \/ Before(k, cursor)
  \/ k = cursor /\ step # "lookup"

\* A walk through the map.
WalkRight ==
  job \in Walks =>
    /\ stable \subseteq Present
    /\ step = "lookup" => job = "iter" /\ cursor \in Keys
    /\ \A k \in stable : k \in Range(yielded) \/ (step # "ended" /\ Ahead(k))
    /\ ~disturbed =>
         \/ cursor = None /\ yielded = <<>>
         \/ cursor \in Present /\ \A k \in stable \intersect Range(yielded) : Behind(k)

\* iter_obj_ids.
IdsRight ==
  job = "ids" =>
    /\ stable \subseteq ids /\ step # "lookup"
    /\ \A i \in stable : i \in Range(yielded) \/ (step # "ended" /\ i > cursor)
    /\ \A n \in DOMAIN yielded : yielded[n] <= cursor

\* query.
QueryRight ==
  job = "query" =>
    /\ stable = {} /\ step # "lookup"
    /\ ~disturbed /\ slots.retries = 1 => Cardinality(ids) <= slots.len

\* The log that r retries have come to.
Reached(r, len) == log.retries >= r => log.len = MaxLog \/ log.len >= len

Levels ==
  /\ log.retries = 0 => log.len = 0
  /\ Reached(1, MinLog) /\ Reached(2, 10 * MinLog) /\ Reached(3, 100 * MinLog)
  /\ Reached(4, 1000 * MinLog) /\ Reached(5, 10000 * MinLog)

\* load_program.
LoadRight ==
  job = "load" =>
    /\ stable = {} /\ step # "lookup"
    /\ Levels
    /\ step = "next" => streak + log.attempts >= Attempts
    /\ verifier.tried => verifier.raised = verifier.privileged
    /\ verifier.raised => verifier.tried

IInv ==
  /\ TypeOK /\ WalkRight /\ IdsRight /\ QueryRight /\ LoadRight
  /\ NoRepetition /\ QuerySurvivesRemovals /\ VerdictReported

-----------------------------------------------------------------------------
(* The order of the map *)

USE KeysAssumption, BoundsAssumption, LogAssumption

\* A set of numbers that is not empty has a least element.
LEMMA LeastNumber ==
  ASSUME NEW U, U \subseteq Nat, U # {}
  PROVE  \E n \in U : \A m \in U : n <= m
<1> DEFINE R == OpToRel(<, Nat)
<1>1. IsWellFoundedOn(R, Nat)
  BY NatLessThanWellFounded, Zenon
<1>2. \A m, n \in Nat : m < n => <<m, n>> \in R
  BY Zenon DEF OpToRel
<1>3. PICK n \in U : \A m \in U : ~(<<m, n>> \in R)
  <2> HIDE DEF R
  <2> QED
    BY <1>1, WFMin
<1>4. \A m \in U : ~(m < n)
  BY <1>2, <1>3, Zenon
<1> QED
  BY <1>4

LEMMA KeyFacts ==
  ASSUME TypeOK
  PROVE  /\ Cardinality(Keys) \in Nat /\ changes \in Nat /\ Present \subseteq Keys
         /\ \A k \in Keys : bucket[k] \in Nat /\ since[k] \in Nat
                            /\ since[k] <= Cardinality(Keys) + changes
         /\ \A k \in Keys : k \in Present <=> since[k] > 0
<1>1. Cardinality(Keys) \in Nat
  BY FS_CardinalityType
<1>2. changes \in Nat /\ since \in [Keys -> 0 .. Cardinality(Keys) + changes] /\ bucket \in [Keys -> Buckets]
  BY DEF TypeOK
<1> QED
  BY <1>1, <1>2 DEF Present, Buckets

\* The order is strict and total.
LEMMA OrderFacts ==
  ASSUME TypeOK
  PROVE  /\ \A j \in Present : ~Before(j, j)
         /\ \A j, k \in Present : j = k \/ Before(j, k) \/ Before(k, j)
         /\ \A j, k, m \in Present : Before(j, k) /\ Before(k, m) => Before(j, m)
<1>1. \A k \in Present : k \in Keys /\ bucket[k] \in Nat /\ since[k] \in Nat
  BY KeyFacts
<1>2. \A j, k \in Present : bucket[j] = bucket[k] /\ since[j] = since[k] => j = k
  BY DEF TypeOK
<1>3. \A j \in Present : ~Before(j, j)
  BY <1>1 DEF Before
<1>4. \A j, k \in Present : j = k \/ Before(j, k) \/ Before(k, j)
  BY <1>1, <1>2 DEF Before
<1>5. \A j, k, m \in Present : Before(j, k) /\ Before(k, m) => Before(j, m)
  BY <1>1 DEF Before
<1> QED
  BY <1>3, <1>4, <1>5

\* A set of keys of the map that is not empty has a first one.
LEMMA FirstKey ==
  ASSUME TypeOK, NEW rest, rest \subseteq Present, rest # {}
  PROVE  \E k \in rest : \A j \in rest \ {k} : Before(k, j)
<1> DEFINE B == {bucket[k] : k \in rest}
           N == Cardinality(Keys) + changes
<1>1. \A k \in rest : k \in Keys /\ k \in Present /\ bucket[k] \in Nat /\ since[k] \in Nat /\ since[k] <= N
  BY KeyFacts
<1>2. B \subseteq Nat /\ B # {}
  BY <1>1
<1>3. PICK b \in B : \A a \in B : b <= a
  <2>1. \E n \in B : \A m \in B : n <= m
    BY <1>2, LeastNumber
  <2> QED
    BY <2>1
<1> DEFINE V == {N - since[k] : k \in {j \in rest : bucket[j] = b}}
<1>4. V \subseteq Nat /\ V # {}
  <2>1. N \in Nat
    BY KeyFacts
  <2> HIDE DEF N
  <2> QED
    BY <1>1, <1>3, <2>1
<1>5. PICK v \in V : \A a \in V : v <= a
  <2>1. \E n \in V : \A m \in V : n <= m
    BY <1>4, LeastNumber
  <2> QED
    BY <2>1
<1>6. PICK k \in rest : bucket[k] = b /\ v = N - since[k]
  BY <1>5
<1>7. ASSUME NEW j \in rest, j # k PROVE Before(k, j)
  <2>1. bucket[j] \in Nat /\ b \in Nat /\ b <= bucket[j] /\ N \in Nat
    BY <1>1, <1>3, KeyFacts
  <2>2. bucket[j] = b => since[k] >= since[j]
    <3>1. SUFFICES ASSUME bucket[j] = b PROVE since[k] >= since[j]
      OBVIOUS
    <3>2. N - since[j] \in V
      BY <3>1
    <3>3. N - since[k] <= N - since[j]
      BY <1>5, <1>6, <3>2
    <3> HIDE DEF N
    <3> QED
      BY <1>1, <2>1, <3>3
  <2>3. bucket[j] = b => since[k] # since[j]
    BY <1>1, <1>6, <1>7 DEF TypeOK
  <2> QED
    BY <1>1, <1>6, <2>1, <2>2, <2>3 DEF Before
<1> QED
  BY <1>6, <1>7

\* What the kernel returns as the next key.
LEMMA NextKeyFacts ==
  ASSUME TypeOK
  PROVE  /\ NextKey # None =>
              /\ NextKey \in Present /\ NextKey \in Keys
              /\ cursor \in Present => Before(cursor, NextKey)
              /\ \A k \in Present : \/ k = NextKey \/ Before(NextKey, k)
                                    \/ cursor \in Present /\ ~Before(cursor, k)
         /\ NextKey = None =>
              \A k \in Present : cursor \in Present /\ ~Before(cursor, k)
<1> DEFINE rest == IF cursor \in Present THEN {k \in Present : Before(cursor, k)} ELSE Present
<1>1. rest \subseteq Present /\ Present \subseteq Keys
  BY KeyFacts
<1>2. CASE rest = {}
  <2>1. NextKey = None
    BY <1>2 DEF NextKey
  <2> QED
    BY <1>2, <2>1
<1>3. CASE rest # {}
  <2>1. \E k \in rest : \A j \in rest \ {k} : Before(k, j)
    <3> HIDE DEF rest
    <3> QED
      BY <1>1, <1>3, FirstKey
  <2>2. NextKey = CHOOSE k \in rest : \A j \in rest \ {k} : Before(k, j)
    BY <1>3 DEF NextKey
  <2>3. NextKey \in rest /\ \A j \in rest \ {NextKey} : Before(NextKey, j)
    <3> HIDE DEF rest
    <3> QED
      BY <2>1, <2>2
  <2>4. NextKey \in Keys /\ NextKey # None
    BY <1>1, <2>3
  <2>5. \A k \in Present : k \in rest \/ (cursor \in Present /\ ~Before(cursor, k))
    OBVIOUS
  <2>6. cursor \in Present => Before(cursor, NextKey)
    BY <2>3
  <2> HIDE DEF rest
  <2>7. \A k \in Present : \/ k = NextKey \/ Before(NextKey, k)
                           \/ cursor \in Present /\ ~Before(cursor, k)
    BY <2>3, <2>5
  <2> QED
    BY <1>1, <2>3, <2>4, <2>6, <2>7
<1> QED
  BY <1>2, <1>3

\* Sequences that grow at the end.
LEMMA AppendFacts ==
  ASSUME NEW S, NEW s \in Seq(S), NEW e \in S
  PROVE  /\ Append(s, e) \in Seq(S) /\ Len(s) \in Nat
         /\ DOMAIN s = 1 .. Len(s) /\ DOMAIN Append(s, e) = 1 .. Len(s) + 1
         /\ Append(s, e)[Len(s) + 1] = e /\ \A i \in 1 .. Len(s) : Append(s, e)[i] = s[i]
         /\ Range(Append(s, e)) = Range(s) \union {e}
<1>1. /\ Append(s, e) \in Seq(S) /\ Len(s) \in Nat
      /\ DOMAIN s = 1 .. Len(s) /\ DOMAIN Append(s, e) = 1 .. Len(s) + 1
      /\ Append(s, e)[Len(s) + 1] = e /\ \A i \in 1 .. Len(s) : Append(s, e)[i] = s[i]
  OBVIOUS
<1>2. Range(Append(s, e)) = Range(s) \union {e}
  <2>1. Range(Append(s, e)) = {Append(s, e)[i] : i \in 1 .. Len(s) + 1}
    BY <1>1 DEF Range
  <2>2. Range(s) = {s[i] : i \in 1 .. Len(s)}
    BY <1>1 DEF Range
  <2>3. \A i \in 1 .. Len(s) + 1 : i \in 1 .. Len(s) \/ i = Len(s) + 1
    BY <1>1
  <2>4. \A i \in 1 .. Len(s) : i \in 1 .. Len(s) + 1
    BY <1>1
  <2>5. Len(s) + 1 \in 1 .. Len(s) + 1
    BY <1>1
  <2> QED
    BY <1>1, <2>1, <2>2, <2>3, <2>4, <2>5
<1> QED
  BY <1>1, <1>2

-----------------------------------------------------------------------------
(* Which part of the invariant a loop concerns *)

LEMMA OnlyWalk ==
  ASSUME job' \in Walks, TypeOK', WalkRight', NoRepetition'
  PROVE  IInv'
BY DEF IInv, Walks, IdsRight, QueryRight, LoadRight, QuerySurvivesRemovals, VerdictReported

LEMMA OnlyIds ==
  ASSUME job' = "ids", TypeOK', IdsRight', NoRepetition'
  PROVE  IInv'
BY DEF IInv, Walks, WalkRight, QueryRight, LoadRight, QuerySurvivesRemovals, VerdictReported

LEMMA OnlyQuery ==
  ASSUME job' = "query", TypeOK', QueryRight', QuerySurvivesRemovals'
  PROVE  IInv'
<1>1. NoRepetition'
  BY DEF QueryRight, NoRepetition
<1> QED
  BY <1>1 DEF IInv, Walks, WalkRight, IdsRight, LoadRight, VerdictReported

LEMMA OnlyLoad ==
  ASSUME job' = "load", TypeOK', LoadRight', VerdictReported'
  PROVE  IInv'
<1>1. NoRepetition'
  BY DEF LoadRight, NoRepetition
<1> QED
  BY <1>1 DEF IInv, Walks, WalkRight, IdsRight, QueryRight, QuerySurvivesRemovals

-----------------------------------------------------------------------------
(* Changes of the map during a walk *)

\* Key k is removed, or comes to the head of its bucket.
LEMMA KeyChange ==
  ASSUME IInv, NEW k \in Keys, job \in Walks, NEW t \in {0, Cardinality(Keys) + changes + 1},
         step \in {"next", "lookup"}, changes < MaxChanges, changes' = changes + 1,
         since' = [since EXCEPT ![k] = t], stable' = stable \ {k},
         disturbed' = (disturbed \/ k = cursor),
         UNCHANGED <<job, step, bucket, ids, verifier, cursor, yielded, slots, log, result, streak>>
  PROVE  IInv'
<1>1. TypeOK /\ WalkRight /\ NoRepetition
  BY DEF IInv
<1>2. /\ Cardinality(Keys) \in Nat /\ changes \in Nat
      /\ \A j \in Keys : bucket[j] \in Nat /\ since[j] \in Nat
                         /\ since[j] <= Cardinality(Keys) + changes
  BY <1>1, KeyFacts
<1>3. \A j \in Keys : since'[j] = IF j = k THEN t ELSE since[j]
  BY <1>1 DEF TypeOK
<1>4. t \in Nat /\ t <= Cardinality(Keys) + changes' /\ (t > 0 => t > Cardinality(Keys) + changes)
  BY <1>2
<1>5. TypeOK'
  <2>1. since' \in [Keys -> 0 .. Cardinality(Keys) + changes']
    <3>1. DOMAIN since = Keys
      BY <1>1 DEF TypeOK
    <3>2. \A j \in Keys : since'[j] \in 0 .. Cardinality(Keys) + changes'
      BY <1>2, <1>3, <1>4
    <3>3. since' = [j \in Keys |-> IF j = k THEN t ELSE since[j]]
      BY <3>1
    <3> QED
      BY <1>3, <3>2, <3>3
  <2>2. \A i, j \in {m \in Keys : since'[m] > 0} :
          bucket[i] = bucket[j] /\ since'[i] = since'[j] => i = j
    <3>1. SUFFICES ASSUME NEW i \in Keys, NEW j \in Keys, since'[i] > 0, since'[j] > 0,
                          bucket[i] = bucket[j], since'[i] = since'[j], i # j
                   PROVE  FALSE
      OBVIOUS
    <3>2. CASE i # k /\ j # k
      <4>1. i \in Present /\ j \in Present /\ since[i] = since[j]
        BY <1>3, <3>1, <3>2 DEF Present
      <4> QED
        BY <1>1, <3>1, <4>1 DEF TypeOK
    <3>3. CASE i = k \/ j = k
      BY <1>2, <1>3, <1>4, <3>1, <3>3
    <3> QED
      BY <3>2, <3>3
  <2>3. changes' \in 0 .. MaxChanges
    BY <1>2
  <2>4. disturbed' \in BOOLEAN
    BY <1>1 DEF TypeOK
  <2> QED
    BY <1>1, <2>1, <2>2, <2>3, <2>4, SMTT(30) DEF TypeOK, Present
<1>6. WalkRight'
  <2>1. PICK c : c = cursor
    OBVIOUS
  <2>2. c \in Keys \union {None}
    BY <1>1, <2>1 DEF TypeOK, Walks
  <2>3. stable \subseteq Present /\ (step = "lookup" => job = "iter" /\ cursor \in Keys)
    BY <1>1 DEF WalkRight
  <2>4. \A j \in Keys : j # k => (j \in Present' <=> j \in Present)
    BY <1>3 DEF Present
  <2>5. stable' \subseteq Present'
    BY <2>3, <2>4, KeyFacts, <1>1
  <2>6. ASSUME NEW j \in stable'
        PROVE  j \in Range(yielded) \/ (step # "ended" /\ Ahead(j)')
    <3>1. j \in stable /\ j # k /\ j \in Keys /\ since'[j] = since[j]
      BY <1>1, <1>3, <2>3, <2>6, KeyFacts
    <3>2. j \in Range(yielded) \/ (step # "ended" /\ Ahead(j))
      BY <1>1, <3>1 DEF WalkRight
    <3>3. ASSUME c \in Keys, bucket[c] = bucket[j], c \notin Present \/ since[c] > since[j]
          PROVE  c \notin Present' \/ since'[c] > since'[j]
      <4>1. CASE c # k
        BY <1>3, <2>4, <3>1, <3>3, <4>1
      <4>2. CASE c = k
        <5>1. since'[c] = t /\ (c \in Present' <=> t > 0)
          BY <1>3, <3>3, <4>2 DEF Present
        <5> QED
          BY <1>2, <1>4, <3>1, <5>1
      <4> QED
        BY <4>1, <4>2
    <3>4. Ahead(j) => Ahead(j)'
      <4>1. CASE c = None
        BY <2>1, <4>1 DEF Ahead
      <4>2. CASE c \in Keys
        <5>1. Ahead(j) => \/ bucket[c] < bucket[j]
                          \/ bucket[c] = bucket[j] /\ (c \notin Present \/ since[c] > since[j])
                          \/ step = "lookup" /\ j = c
          BY <2>1, <4>2 DEF Ahead
        <5>2. \/ bucket[c] < bucket[j]
              \/ bucket[c] = bucket[j] /\ (c \notin Present' \/ since'[c] > since'[j])
              \/ step = "lookup" /\ j = c
              => Ahead(j)'
          BY <2>1 DEF Ahead
        <5> QED
          BY <3>3, <4>2, <5>1, <5>2
      <4> QED
        BY <2>2, <4>1, <4>2
    <3> QED
      BY <3>2, <3>4
  <2>7. ASSUME ~disturbed'
        PROVE  \/ cursor' = None /\ yielded' = <<>>
               \/ cursor' \in Present' /\ \A j \in stable' \intersect Range(yielded') : Behind(j)'
    <3>1. ~disturbed /\ k # c
      BY <2>1, <2>7
    <3>2. CASE cursor = None /\ yielded = <<>>
      BY <3>2
    <3>3. CASE c \in Present /\ \A j \in stable \intersect Range(yielded) : Behind(j)
      <4>1. c \in Keys /\ c \in Present' /\ since'[c] = since[c]
        BY <1>1, <1>3, <2>4, <3>1, <3>3, KeyFacts
      <4>2. ASSUME NEW j \in stable' \intersect Range(yielded') PROVE Behind(j)'
        <5>1. j # k /\ j \in Keys /\ since'[j] = since[j] /\ Behind(j)
          BY <1>1, <1>3, <2>3, <3>3, <4>2, KeyFacts
        <5> QED
          BY <2>1, <4>1, <5>1 DEF Behind, Before
      <4> QED
        BY <2>1, <4>1, <4>2
    <3> QED
      BY <1>1, <2>1, <3>1, <3>2, <3>3 DEF WalkRight
  <2> QED
    BY <2>3, <2>5, <2>6, <2>7 DEF WalkRight
<1>7. NoRepetition'
  BY <1>1 DEF NoRepetition, Walks
<1> QED
  BY <1>5, <1>6, <1>7, OnlyWalk

LEMMA RemoveKeyStep ==
  ASSUME IInv, NEW k \in Keys, RemoveKey(k)
  PROVE  IInv'
<1>1. /\ job \in Walks /\ step \in {"next", "lookup"} /\ changes < MaxChanges /\ changes' = changes + 1
      /\ since' = [since EXCEPT ![k] = 0] /\ stable' = stable \ {k}
      /\ disturbed' = (disturbed \/ k = cursor)
      /\ UNCHANGED <<job, step, bucket, ids, verifier, cursor, yielded, slots, log, result, streak>>
  BY DEF RemoveKey, Change, Touches, Walks
<1> QED
  BY <1>1, KeyChange

LEMMA UpdateKeyStep ==
  ASSUME IInv, NEW k \in Keys, UpdateKey(k)
  PROVE  IInv'
<1>1. /\ job \in Walks /\ step \in {"next", "lookup"} /\ changes < MaxChanges /\ changes' = changes + 1
      /\ since' = [since EXCEPT ![k] = Cardinality(Keys) + changes + 1] /\ stable' = stable \ {k}
      /\ disturbed' = (disturbed \/ k = cursor)
      /\ UNCHANGED <<job, step, bucket, ids, verifier, cursor, yielded, slots, log, result, streak>>
  BY DEF UpdateKey, Change, Touches, Walks
<1>2. PICK t \in {0, Cardinality(Keys) + changes + 1} : t = Cardinality(Keys) + changes + 1
  OBVIOUS
<1> QED
  BY <1>1, <1>2, KeyChange

-----------------------------------------------------------------------------
(* The steps of a walk *)

LEMMA LookupIsIter ==
  ASSUME IInv, step = "lookup"
  PROVE  job = "iter" /\ job \in Walks /\ cursor \in Keys
<1>1. job \in {"keys", "iter", "ids", "query", "load"}
  BY DEF IInv, TypeOK
<1>2. job \in Walks
  BY <1>1 DEF IInv, IdsRight, QueryRight, LoadRight, Walks
<1> QED
  BY <1>2 DEF IInv, WalkRight

LEMMA WalkTypes ==
  ASSUME TypeOK, job \in Walks, cursor' \in Keys \union {None}, yielded' \in Seq(Keys),
         step' \in {"next", "lookup", "ended", "failed"},
         UNCHANGED <<job, bucket, since, ids, verifier, changes, disturbed, slots, log, result, streak>>
  PROVE  TypeOK'
BY DEF TypeOK, Walks, Present

LEMMA WalkFacts ==
  ASSUME IInv, job \in Walks
  PROVE  /\ TypeOK /\ WalkRight /\ NoRepetition
         /\ cursor \in Keys \union {None} /\ yielded \in Seq(Keys)
         /\ Present \subseteq Keys /\ None \notin Present /\ Range(yielded) \subseteq Keys
         /\ stable \subseteq Present
         /\ \A j \in stable : j \in Range(yielded) \/ (step # "ended" /\ Ahead(j))
         /\ \A j \in Keys : bucket[j] \in Nat /\ since[j] \in Nat
<1>1. TypeOK /\ WalkRight /\ NoRepetition
  BY DEF IInv
<1>2. cursor \in Keys \union {None} /\ yielded \in Seq(Keys)
  BY <1>1 DEF TypeOK, Walks
<1>3. Range(yielded) \subseteq Keys
  BY <1>2 DEF Range
<1> QED
  BY <1>1, <1>2, <1>3, KeyFacts DEF WalkRight

\* What is ahead of a walk is what the kernel returns next, or comes after it.
LEMMA AheadOfNext ==
  ASSUME IInv, job \in Walks, step = "next", NEW j \in stable, j \notin Range(yielded)
  PROVE  NextKey # None /\ (j = NextKey \/ Before(NextKey, j))
<1>1. j \in Present /\ Ahead(j) /\ TypeOK /\ (cursor = None \/ cursor \in Keys)
  BY WalkFacts
<1>2. cursor \in Present => Before(cursor, j)
  <2>1. SUFFICES ASSUME cursor \in Present PROVE Before(cursor, j)
    OBVIOUS
  <2>2. cursor # None
    BY <2>1, WalkFacts
  <2> QED
    BY <1>1, <2>1, <2>2 DEF Ahead, Before
<1>3. NextKey # None
  BY <1>1, <1>2, NextKeyFacts
<1> QED
  BY <1>1, <1>2, <1>3, NextKeyFacts

LEMMA GetNextKeyStep ==
  ASSUME IInv, GetNextKey
  PROVE  IInv'
<1>1. PICK new : /\ new = NextKey /\ new # None /\ cursor' = new /\ job \in Walks /\ step = "next"
                 /\ IF job = "keys" THEN yielded' = Append(yielded, new) /\ step' = "next"
                    ELSE step' = "lookup" /\ yielded' = yielded
                 /\ UNCHANGED <<job, bucket, since, ids, verifier, changes, stable, disturbed,
                                slots, log, result, streak>>
  BY DEF GetNextKey, Cursor, walkVars, kernelVars, Walks
<1>2. /\ TypeOK /\ WalkRight /\ NoRepetition
      /\ cursor \in Keys \union {None} /\ yielded \in Seq(Keys)
      /\ Present \subseteq Keys /\ None \notin Present /\ stable \subseteq Present
      /\ \A j \in Keys : bucket[j] \in Nat /\ since[j] \in Nat
  BY <1>1, WalkFacts
<1>3. new \in Present /\ new \in Keys /\ (cursor \in Present => Before(cursor, new))
  BY <1>1, <1>2, NextKeyFacts
<1>4. /\ yielded' \in Seq(Keys)
      /\ Range(yielded') = IF job = "keys" THEN Range(yielded) \union {new} ELSE Range(yielded)
  <2>1. CASE job = "keys"
    <3>1. yielded' = Append(yielded, new)
      BY <1>1, <2>1
    <3>2. Append(yielded, new) \in Seq(Keys) /\ Range(Append(yielded, new)) = Range(yielded) \union {new}
      BY <1>2, <1>3, AppendFacts
    <3> QED
      BY <2>1, <3>1, <3>2
  <2>2. CASE job # "keys"
    BY <1>1, <1>2, <2>2
  <2> QED
    BY <2>1, <2>2
<1>5. TypeOK'
  BY <1>1, <1>2, <1>3, <1>4, WalkTypes
<1>6. Present' = Present /\ \A i, j \in Keys : Before(i, j)' <=> Before(i, j)
  BY <1>1 DEF Present, Before
<1>7. ASSUME NEW j \in stable PROVE j \in Range(yielded') \/ (step' # "ended" /\ Ahead(j)')
  <2>1. CASE j \in Range(yielded)
    BY <1>4, <2>1
  <2>2. CASE j = new
    BY <1>1, <1>4, <2>2 DEF Ahead
  <2>3. CASE j \notin Range(yielded) /\ j # new
    <3>1. Before(new, j)
      BY <1>1, <2>3, AheadOfNext
    <3>2. Ahead(j)'
      BY <1>1, <3>1 DEF Ahead, Before
    <3> QED
      BY <1>1, <3>2
  <2> QED
    BY <2>1, <2>2, <2>3
\* Undisturbed, what was yielded is behind the new key.
<1>8. ASSUME ~disturbed, NEW j \in stable, j \in Range(yielded) PROVE Before(j, new)
  <2>1. Range(yielded) # {} /\ yielded # <<>>
    BY <1>8 DEF Range
  <2>2. cursor \in Present /\ (Before(j, cursor) \/ j = cursor)
    BY <1>1, <1>2, <1>8, <2>1 DEF WalkRight, Behind
  <2>3. j \in Present
    BY <1>2
  <2> QED
    BY <1>2, <1>3, <2>2, <2>3, OrderFacts
<1>9. WalkRight'
  <2>1. stable' \subseteq Present' /\ (step' = "lookup" => job' = "iter" /\ cursor' \in Keys)
    BY <1>1, <1>2, <1>3, <1>6 DEF Walks
  <2>2. ~disturbed' => cursor' \in Present' /\ \A j \in stable' \intersect Range(yielded') : Behind(j)'
    <3>1. SUFFICES ASSUME ~disturbed, NEW j \in stable, j \in Range(yielded') PROVE Behind(j)'
      BY <1>1, <1>3, <1>6
    <3>2. CASE j \in Range(yielded)
      <4>1. Before(j, new)
        BY <1>8, <3>1, <3>2
      <4> QED
        BY <1>1, <4>1 DEF Behind, Before
    <3>3. CASE j \notin Range(yielded)
      BY <1>1, <1>4, <3>1, <3>3 DEF Behind
    <3> QED
      BY <3>2, <3>3
  <2> QED
    BY <1>1, <1>7, <2>1, <2>2 DEF WalkRight
<1>10. NoRepetition'
  <2>1. SUFFICES ASSUME NEW i \in DOMAIN yielded', NEW j \in DOMAIN yielded',
                        i < j, yielded'[i] = yielded'[j], ~disturbed, yielded'[i] \in stable
                 PROVE  FALSE
    BY <1>1 DEF NoRepetition, Walks
  <2>2. CASE yielded' = yielded
    BY <1>1, <1>2, <2>1, <2>2 DEF NoRepetition
  <2>3. CASE yielded' = Append(yielded, new)
    <3>1. /\ Len(yielded) \in Nat /\ DOMAIN yielded = 1 .. Len(yielded)
          /\ DOMAIN yielded' = 1 .. Len(yielded) + 1
          /\ yielded'[Len(yielded) + 1] = new /\ \A m \in 1 .. Len(yielded) : yielded'[m] = yielded[m]
      BY <1>2, <1>3, <2>3, AppendFacts
    <3>2. CASE j \in 1 .. Len(yielded)
      <4>1. i \in 1 .. Len(yielded) /\ yielded[i] = yielded[j] /\ yielded[i] \in stable
        BY <2>1, <3>1, <3>2
      <4> QED
        BY <1>2, <2>1, <3>1, <3>2, <4>1 DEF NoRepetition
    <3>3. CASE j = Len(yielded) + 1
      <4>1. i \in DOMAIN yielded /\ yielded[i] = new /\ new \in stable
        BY <2>1, <3>1, <3>3
      <4>2. new \in Range(yielded)
        BY <4>1 DEF Range
      <4>3. Before(new, new)
        BY <1>8, <2>1, <4>1, <4>2
      <4> QED
        BY <1>2, <1>3, <4>3, OrderFacts
    <3> QED
      BY <2>1, <3>1, <3>2, <3>3
  <2> QED
    BY <1>1, <2>2, <2>3
<1> QED
  BY <1>1, <1>5, <1>9, <1>10, OnlyWalk

\* A walk that yields nothing with this step.
LEMMA WalkGoesOn ==
  ASSUME IInv, job \in Walks, step' \in {"next", "ended", "failed"}, stable' \subseteq stable,
         UNCHANGED <<job, bucket, since, ids, verifier, changes, disturbed, cursor, yielded,
                     slots, log, result, streak>>,
         step = "lookup" => cursor \notin stable',
         step' = "ended" => stable' \subseteq Range(yielded)
  PROVE  IInv'
<1>1. /\ TypeOK /\ WalkRight /\ NoRepetition
      /\ cursor \in Keys \union {None} /\ yielded \in Seq(Keys)
      /\ stable \subseteq Present
      /\ \A j \in stable : j \in Range(yielded) \/ (step # "ended" /\ Ahead(j))
  BY WalkFacts
<1>2. TypeOK'
  BY <1>1, WalkTypes
<1>3. Present' = Present
  BY DEF Present
<1>4. ASSUME NEW j \in stable' PROVE j \in Range(yielded') \/ (step' # "ended" /\ Ahead(j)')
  <2>1. CASE j \in Range(yielded)
    BY <2>1
  <2>2. CASE j \notin Range(yielded)
    <3>1. Ahead(j) /\ ~(step = "lookup" /\ j = cursor) /\ step' # "ended"
      BY <1>1, <1>4, <2>2
    <3>2. Ahead(j)'
      BY <1>3, <3>1 DEF Ahead
    <3> QED
      BY <3>1, <3>2
  <2> QED
    BY <2>1, <2>2
<1>5. \A j : Behind(j) => Behind(j)'
  BY DEF Behind, Before
<1>6. WalkRight'
  <2>1. ~disturbed' =>
          \/ cursor' = None /\ yielded' = <<>>
          \/ cursor' \in Present' /\ \A j \in stable' \intersect Range(yielded') : Behind(j)'
    BY <1>1, <1>3, <1>5 DEF WalkRight
  <2>2. stable' \subseteq Present' /\ step' # "lookup"
    BY <1>1, <1>3
  <2> QED
    BY <1>4, <2>1, <2>2 DEF WalkRight
<1>7. NoRepetition'
  BY <1>1 DEF NoRepetition
<1> QED
  BY <1>2, <1>6, <1>7, OnlyWalk

\* Nothing comes after the cursor: what is stable was yielded.
LEMMA LastKeyStep ==
  ASSUME IInv, LastKey
  PROVE  IInv'
<1>1. /\ job \in Walks /\ step = "next" /\ NextKey = None /\ step' = "ended"
      /\ UNCHANGED <<job, bucket, since, ids, verifier, changes, stable, disturbed, cursor, yielded,
                     slots, log, result, streak>>
  BY DEF LastKey, walkVars, kernelVars, Walks
<1>2. \A j \in stable : j \in Range(yielded)
  BY <1>1, AheadOfNext
<1>3. /\ step' \in {"next", "ended", "failed"} /\ stable' \subseteq stable
      /\ step = "lookup" => cursor \notin stable'
      /\ step' = "ended" => stable' \subseteq Range(yielded)
  BY <1>1, <1>2
<1> QED
  BY <1>1, <1>3, WalkGoesOn

LEMMA LookupStep ==
  ASSUME IInv, Lookup
  PROVE  IInv'
<1>1. PICK c : /\ c = cursor /\ step = "lookup" /\ c \in Present /\ yielded' = Append(yielded, c)
               /\ step' = "next"
               /\ UNCHANGED <<job, bucket, since, ids, verifier, changes, stable, disturbed, cursor,
                              slots, log, result, streak>>
  BY DEF Lookup, walkVars, kernelVars
<1>2. job \in Walks /\ c \in Keys /\ job = "iter"
  BY <1>1, LookupIsIter
<1>3. /\ TypeOK /\ WalkRight /\ NoRepetition
      /\ cursor \in Keys \union {None} /\ yielded \in Seq(Keys)
      /\ stable \subseteq Present /\ None \notin Present
      /\ \A j \in stable : j \in Range(yielded) \/ (step # "ended" /\ Ahead(j))
  BY <1>2, WalkFacts
<1>4. yielded' \in Seq(Keys) /\ Range(yielded') = Range(yielded) \union {c}
  BY <1>1, <1>2, <1>3, AppendFacts
<1>5. TypeOK'
  BY <1>1, <1>2, <1>3, <1>4, WalkTypes
<1>6. Present' = Present
  BY <1>1 DEF Present
<1>7. ASSUME NEW j \in stable PROVE j \in Range(yielded') \/ (step' # "ended" /\ Ahead(j)')
  <2>1. CASE j \in Range(yielded) \/ j = c
    BY <1>4, <2>1
  <2>2. CASE j \notin Range(yielded) /\ j # c
    <3>1. Ahead(j)
      BY <1>3, <2>2
    <3>2. Ahead(j)'
      BY <1>1, <1>6, <2>2, <3>1 DEF Ahead
    <3> QED
      BY <1>1, <3>2
  <2> QED
    BY <2>1, <2>2
<1>8. ASSUME ~disturbed, NEW j \in stable, j \in Range(yielded) PROVE Before(j, c)
  <2>1. yielded # <<>>
    BY <1>8 DEF Range
  <2>2. Behind(j)
    BY <1>2, <1>3, <1>8, <2>1 DEF WalkRight
  <2> QED
    BY <1>1, <2>2 DEF Behind
<1>9. WalkRight'
  <2>1. ~disturbed' => \A j \in stable' \intersect Range(yielded') : Behind(j)'
    <3>1. SUFFICES ASSUME ~disturbed, NEW j \in stable, j \in Range(yielded') PROVE Behind(j)'
      BY <1>1
    <3>2. CASE j = c
      BY <1>1, <3>2 DEF Behind
    <3>3. CASE j # c
      <4>1. Before(j, c)
        BY <1>4, <1>8, <3>1, <3>3
      <4> QED
        BY <1>1, <4>1 DEF Behind, Before
    <3> QED
      BY <3>2, <3>3
  <2>2. stable' \subseteq Present' /\ step' # "lookup" /\ cursor' \in Present'
    BY <1>1, <1>3, <1>6
  <2> QED
    BY <1>1, <1>7, <2>1, <2>2 DEF WalkRight
<1>10. NoRepetition'
  <2>1. SUFFICES ASSUME NEW i \in DOMAIN yielded', NEW j \in DOMAIN yielded',
                        i < j, yielded'[i] = yielded'[j], ~disturbed, yielded'[i] \in stable
                 PROVE  FALSE
    BY <1>1, <1>2 DEF NoRepetition
  <2>2. /\ Len(yielded) \in Nat /\ DOMAIN yielded = 1 .. Len(yielded)
        /\ DOMAIN yielded' = 1 .. Len(yielded) + 1
        /\ yielded'[Len(yielded) + 1] = c /\ \A m \in 1 .. Len(yielded) : yielded'[m] = yielded[m]
    BY <1>1, <1>2, <1>3, AppendFacts
  <2>3. CASE j \in 1 .. Len(yielded)
    <3>1. i \in 1 .. Len(yielded) /\ yielded[i] = yielded[j] /\ yielded[i] \in stable
      BY <2>1, <2>2, <2>3
    <3> QED
      BY <1>3, <2>1, <2>2, <2>3, <3>1 DEF NoRepetition
  <2>4. CASE j = Len(yielded) + 1
    <3>1. i \in DOMAIN yielded /\ yielded[i] = c /\ c \in stable
      BY <2>1, <2>2, <2>4
    <3>2. c \in Range(yielded)
      BY <3>1 DEF Range
    <3>3. Before(c, c)
      BY <1>8, <2>1, <3>1, <3>2
    <3> QED
      BY <1>1, <1>3, <3>3, OrderFacts
  <2> QED
    BY <2>1, <2>2, <2>3, <2>4
<1> QED
  BY <1>1, <1>2, <1>5, <1>9, <1>10, OnlyWalk

LEMMA LookupMissingStep ==
  ASSUME IInv, LookupMissing
  PROVE  IInv'
<1>1. /\ step = "lookup" /\ cursor \notin Present /\ step' = "next"
      /\ UNCHANGED <<job, bucket, since, ids, verifier, changes, stable, disturbed, cursor, yielded,
                     slots, log, result, streak>>
  BY DEF LookupMissing, StepAfterMissing, walkVars, kernelVars
<1>2. job \in Walks /\ stable \subseteq Present
  BY <1>1, LookupIsIter, WalkFacts
<1> QED
  BY <1>1, <1>2, WalkGoesOn

LEMMA LookupFailsStep ==
  ASSUME IInv, LookupFails
  PROVE  IInv'
<1>1. /\ step = "lookup" /\ step' = "next" /\ stable' = stable \ {cursor}
      /\ UNCHANGED <<job, bucket, since, ids, verifier, changes, disturbed, cursor, yielded,
                     slots, log, result, streak>>
  BY DEF LookupFails
<1>2. job \in Walks
  BY <1>1, LookupIsIter
<1> QED
  BY <1>1, <1>2, WalkGoesOn

-----------------------------------------------------------------------------
(* iter_obj_ids and query, and the changes of the objects *)

\* An object that is unloaded, or a program that is detached.
LEMMA RemoveIdStep ==
  ASSUME IInv, NEW i \in 1 .. MaxId, RemoveId(i)
  PROVE  IInv'
<1>1. /\ job \in {"ids", "query"} /\ changes < MaxChanges /\ changes' = changes + 1
      /\ ids' = ids \ {i} /\ stable' = stable \ {i}
      /\ UNCHANGED <<job, step, bucket, since, verifier, disturbed, cursor, yielded, slots, log,
                     result, streak>>
  BY DEF RemoveId, Change
<1>2. TypeOK /\ IdsRight /\ QueryRight /\ NoRepetition /\ QuerySurvivesRemovals
  BY DEF IInv
<1>3. changes' \in 0 .. MaxChanges /\ 0 .. Cardinality(Keys) + changes \subseteq 0 .. Cardinality(Keys) + changes'
  BY <1>1, <1>2, KeyFacts
<1>4. TypeOK'
  <2>1. since' \in [Keys -> 0 .. Cardinality(Keys) + changes']
    BY <1>1, <1>2, <1>3 DEF TypeOK
  <2> QED
    BY <1>1, <1>2, <1>3, <2>1 DEF TypeOK, Present
<1>5. CASE job = "ids"
  <2>1. IdsRight'
    BY <1>1, <1>2, <1>5 DEF IdsRight
  <2>2. NoRepetition'
    BY <1>1, <1>2 DEF NoRepetition
  <2> QED
    BY <1>1, <1>4, <1>5, <2>1, <2>2, OnlyIds
<1>6. CASE job = "query"
  <2>1. Cardinality(ids') <= Cardinality(ids) /\ Cardinality(ids') \in Nat /\ Cardinality(ids) \in Nat
    <3>1. ids \subseteq 1 .. MaxId /\ 1 \in Int /\ MaxId \in Int
      BY <1>2 DEF TypeOK
    <3>2. IsFiniteSet(ids)
      BY <3>1, FS_Interval, FS_Subset
    <3>3. IsFiniteSet(ids') /\ Cardinality(ids') <= Cardinality(ids)
      BY <1>1, <3>2, FS_Subset
    <3> QED
      BY <3>2, <3>3, FS_CardinalityType
  <2>2. slots.len \in Nat
    BY <1>2 DEF TypeOK
  <2>3. ~disturbed /\ slots.retries = 1 => Cardinality(ids') <= slots.len
    <3>1. ~disturbed /\ slots.retries = 1 => Cardinality(ids) <= slots.len
      BY <1>2, <1>6 DEF QueryRight
    <3> QED
      BY <2>1, <2>2, <3>1
  <2>4. QueryRight'
    BY <1>1, <1>2, <1>6, <2>3 DEF QueryRight
  <2>5. QuerySurvivesRemovals'
    BY <1>1, <1>2 DEF QuerySurvivesRemovals
  <2> QED
    BY <1>1, <1>4, <1>6, <2>4, <2>5, OnlyQuery
<1> QED
  BY <1>1, <1>5, <1>6

LEMMA AddIdStep ==
  ASSUME IInv, NEW i \in 1 .. MaxId, AddId(i)
  PROVE  IInv'
<1>1. /\ job \in {"ids", "query"} /\ changes < MaxChanges /\ changes' = changes + 1
      /\ ids' = ids \union {i} /\ disturbed' = TRUE
      /\ UNCHANGED <<job, step, bucket, since, verifier, stable, cursor, yielded, slots, log,
                     result, streak>>
  BY DEF AddId, Change
<1>2. TypeOK /\ IdsRight /\ QueryRight /\ NoRepetition /\ QuerySurvivesRemovals
  BY DEF IInv
<1>3. changes' \in 0 .. MaxChanges /\ 0 .. Cardinality(Keys) + changes \subseteq 0 .. Cardinality(Keys) + changes'
  BY <1>1, <1>2, KeyFacts
<1>4. TypeOK'
  <2>1. since' \in [Keys -> 0 .. Cardinality(Keys) + changes']
    BY <1>1, <1>2, <1>3 DEF TypeOK
  <2> QED
    BY <1>1, <1>2, <1>3, <2>1, SMTT(30) DEF TypeOK, Present
<1>5. CASE job = "ids"
  <2>1. IdsRight'
    BY <1>1, <1>2, <1>5 DEF IdsRight
  <2>2. NoRepetition'
    BY <1>1, <1>2, <1>5 DEF NoRepetition
  <2> QED
    BY <1>1, <1>4, <1>5, <2>1, <2>2, OnlyIds
<1>6. CASE job = "query"
  <2>1. QueryRight'
    BY <1>1, <1>2, <1>6 DEF QueryRight
  <2>2. QuerySurvivesRemovals'
    BY <1>1, <1>2 DEF QuerySurvivesRemovals
  <2> QED
    BY <1>1, <1>4, <1>6, <2>1, <2>2, OnlyQuery
<1> QED
  BY <1>1, <1>5, <1>6

LEMMA IdsFacts ==
  ASSUME IInv, job = "ids"
  PROVE  /\ TypeOK /\ IdsRight /\ NoRepetition
         /\ cursor \in 0 .. MaxId /\ yielded \in Seq(1 .. MaxId)
         /\ ids \subseteq 1 .. MaxId /\ stable \subseteq ids
BY DEF IInv, IdsRight, TypeOK

\* The least of some numbers.
LEMMA MinFacts ==
  ASSUME NEW S, S \subseteq Nat, S # {}
  PROVE  Min(S) \in S /\ \A n \in S : Min(S) <= n
<1>1. \E n \in S : \A m \in S : n <= m
  BY LeastNumber
<1>2. \E n \in S : \A m \in S : n =< m
  BY <1>1
<1> QED
  BY <1>2 DEF Min

LEMMA GetNextIdStep ==
  ASSUME IInv, GetNextId
  PROVE  IInv'
<1> DEFINE later == {i \in ids : i > cursor}
<1>1. /\ job = "ids" /\ step = "next"
      /\ UNCHANGED <<job, bucket, since, ids, verifier, changes, stable, disturbed, slots, log,
                     result, streak>>
      /\ IF later = {} THEN step' = "ended" /\ UNCHANGED <<cursor, yielded>>
         ELSE cursor' = Min(later) /\ yielded' = Append(yielded, Min(later)) /\ step' = step
  BY DEF GetNextId, walkVars, kernelVars
<1>2. /\ TypeOK /\ IdsRight /\ NoRepetition
      /\ cursor \in 0 .. MaxId /\ yielded \in Seq(1 .. MaxId)
      /\ ids \subseteq 1 .. MaxId /\ stable \subseteq ids
  BY <1>1, IdsFacts
<1>3. CASE later = {}
  <2>1. step' = "ended" /\ UNCHANGED <<cursor, yielded>>
    BY <1>1, <1>3
  <2>2. TypeOK'
    BY <1>1, <1>2, <2>1 DEF TypeOK, Present
  <2>3. IdsRight'
    BY <1>1, <1>2, <1>3, <2>1 DEF IdsRight
  <2>4. NoRepetition'
    BY <1>1, <1>2, <2>1 DEF NoRepetition
  <2> QED
    BY <1>1, <2>2, <2>3, <2>4, OnlyIds
<1>4. CASE later # {}
  <2>1. PICK new : new = Min(later)
    OBVIOUS
  <2>2. cursor' = new /\ yielded' = Append(yielded, new) /\ step' = "next"
    BY <1>1, <1>4, <2>1
  <2>3. new \in later /\ \A i \in later : new <= i
    <3>1. later \subseteq Nat
      <4>1. \A i \in ids : i \in Nat
        BY <1>2
      <4> QED
        BY <4>1
    <3> HIDE DEF later
    <3> QED
      BY <1>4, <2>1, <3>1, MinFacts
  <2>4. new \in 1 .. MaxId /\ new > cursor /\ \A i \in ids : i <= cursor \/ new <= i
    BY <1>2, <2>3
  <2>5. /\ yielded' \in Seq(1 .. MaxId) /\ Len(yielded) \in Nat
        /\ DOMAIN yielded = 1 .. Len(yielded) /\ DOMAIN yielded' = 1 .. Len(yielded) + 1
        /\ yielded'[Len(yielded) + 1] = new /\ \A n \in 1 .. Len(yielded) : yielded'[n] = yielded[n]
        /\ Range(yielded') = Range(yielded) \union {new}
    BY <1>2, <2>2, <2>4, AppendFacts
  <2>6. TypeOK'
    BY <1>1, <1>2, <2>2, <2>4, <2>5, SMTT(30) DEF TypeOK, Present
  <2>7. \A n \in 1 .. Len(yielded) : yielded[n] \in Nat /\ yielded[n] <= cursor
    <3>1. \A n \in 1 .. Len(yielded) : yielded[n] \in 1 .. MaxId
      BY <1>2
    <3>2. \A n \in 1 .. Len(yielded) : yielded[n] <= cursor
      BY <1>1, <1>2, <2>5 DEF IdsRight
    <3> QED
      BY <3>1, <3>2
  <2>8. IdsRight'
    <3>1. ASSUME NEW i \in stable PROVE i \in Range(yielded') \/ i > new
      <4>1. i \in Range(yielded) \/ i > cursor
        BY <1>1, <1>2 DEF IdsRight
      <4>2. i \in Nat
        BY <1>2
      <4> QED
        BY <1>2, <2>4, <2>5, <4>1, <4>2
    <3>2. ASSUME NEW n \in DOMAIN yielded' PROVE yielded'[n] <= new
      <4>1. n \in 1 .. Len(yielded) \/ n = Len(yielded) + 1
        BY <2>5
      <4> QED
        BY <1>2, <2>4, <2>5, <2>7, <4>1
    <3> QED
      BY <1>1, <1>2, <2>2, <3>1, <3>2 DEF IdsRight
  <2>9. NoRepetition'
    <3>1. SUFFICES ASSUME NEW i \in DOMAIN yielded', NEW j \in DOMAIN yielded', i < j,
                          yielded'[i] = yielded'[j]
                   PROVE  FALSE
      BY DEF NoRepetition
    <3>2. CASE j \in 1 .. Len(yielded)
      <4>1. i \in 1 .. Len(yielded) /\ yielded[i] = yielded[j]
        BY <2>5, <3>1, <3>2
      <4> QED
        BY <1>1, <1>2, <2>5, <3>1, <3>2, <4>1 DEF NoRepetition
    <3>3. CASE j = Len(yielded) + 1
      <4>1. i \in 1 .. Len(yielded) /\ yielded[i] = new
        BY <2>5, <3>1, <3>3
      <4> QED
        BY <1>2, <2>4, <2>7, <4>1
    <3> QED
      BY <2>5, <3>1, <3>2, <3>3
  <2> QED
    BY <1>1, <2>6, <2>8, <2>9, OnlyIds
<1> QED
  BY <1>3, <1>4

LEMMA GetNextFailsStep ==
  ASSUME IInv, GetNextFails
  PROVE  IInv'
<1>1. /\ job \in {"keys", "iter", "ids"} /\ step = "next" /\ step' = "failed"
      /\ UNCHANGED <<job, bucket, since, ids, verifier, changes, stable, disturbed, cursor, yielded,
                     slots, log, result, streak>>
  BY DEF GetNextFails, walkVars, kernelVars
<1>2. CASE job = "ids"
  <2>1. TypeOK /\ IdsRight /\ NoRepetition
    BY <1>2, IdsFacts
  <2>2. TypeOK'
    BY <1>1, <2>1 DEF TypeOK, Present
  <2>3. IdsRight' /\ NoRepetition'
    BY <1>1, <1>2, <2>1 DEF IdsRight, NoRepetition
  <2> QED
    BY <1>1, <1>2, <2>2, <2>3, OnlyIds
<1>3. CASE job \in Walks
  BY <1>1, <1>3, WalkGoesOn
<1> QED
  BY <1>1, <1>2, <1>3 DEF Walks

\* The sequence of a finite set has its elements.
LEMMA SetToSeqType ==
  ASSUME NEW T, NEW S, S \subseteq T, IsFiniteSet(S)
  PROVE  SetToSeq(S) \in Seq(T)
<1>1. Cardinality(S) \in Nat /\ ExistsBijection(1 .. Cardinality(S), S)
  BY FS_CardinalityType
<1>2. \E f \in [1 .. Cardinality(S) -> S] : IsInjective(f)
  BY <1>1 DEF ExistsBijection, Bijection, Injection
<1>3. SetToSeq(S) \in [1 .. Cardinality(S) -> S]
  BY <1>2 DEF SetToSeq
<1>4. SetToSeq(S) \in [1 .. Cardinality(S) -> T]
  BY <1>3
<1> QED
  BY <1>1, <1>4, SeqDef

LEMMA QueryFacts ==
  ASSUME IInv, job = "query"
  PROVE  TypeOK /\ QueryRight /\ QuerySurvivesRemovals /\ IsFiniteSet(ids) /\ Cardinality(ids) \in Nat
<1>1. TypeOK /\ QueryRight /\ QuerySurvivesRemovals
  BY DEF IInv
<1>2. ids \subseteq 1 .. MaxId /\ 1 \in Int /\ MaxId \in Int
  BY <1>1 DEF TypeOK
<1>3. IsFiniteSet(ids)
  BY <1>2, FS_Interval, FS_Subset
<1> QED
  BY <1>1, <1>3, FS_CardinalityType

LEMMA QueryAnswersStep ==
  ASSUME IInv, QueryAnswers
  PROVE  IInv'
<1>1. /\ job = "query" /\ step' = "ended" /\ result' = "ok" /\ yielded' = SetToSeq(ids)
      /\ UNCHANGED <<job, bucket, since, ids, verifier, changes, stable, disturbed, cursor, log,
                     streak, slots>>
  BY DEF QueryAnswers, queryVars, kernelVars
<1>2. TypeOK /\ QueryRight /\ IsFiniteSet(ids)
  BY <1>1, QueryFacts
<1>3. yielded' \in Seq(1 .. MaxId)
  <2>1. ids \subseteq 1 .. MaxId
    BY <1>2 DEF TypeOK
  <2> QED
    BY <1>1, <1>2, <2>1, SetToSeqType
<1>4. TypeOK'
  BY <1>1, <1>2, <1>3 DEF TypeOK, Present
<1>5. QueryRight' /\ QuerySurvivesRemovals'
  BY <1>1, <1>2 DEF QueryRight, QuerySurvivesRemovals
<1> QED
  BY <1>1, <1>4, <1>5, OnlyQuery

\* The second call has room for all programs, unless one was attached since the first.
LEMMA QueryNoSpaceStep ==
  ASSUME IInv, QueryNoSpace
  PROVE  IInv'
<1>1. /\ job = "query" /\ step = "next" /\ Cardinality(ids) > slots.len
      /\ IF slots.retries = 0
         THEN slots' = [len |-> Cardinality(ids), retries |-> 1] /\ UNCHANGED <<step, result>>
         ELSE step' = "failed" /\ result' = "nospace" /\ UNCHANGED slots
      /\ UNCHANGED <<job, bucket, since, ids, verifier, changes, stable, disturbed, cursor, log,
                     streak, yielded>>
  BY DEF QueryNoSpace, Room, queryVars, kernelVars
<1>2. TypeOK /\ QueryRight /\ QuerySurvivesRemovals /\ Cardinality(ids) \in Nat
  BY <1>1, QueryFacts
<1>3. slots \in [len : Nat, retries : 0 .. 1]
  BY <1>2 DEF TypeOK
<1>4. CASE slots.retries = 0
  <2>1. /\ slots' \in [len : Nat, retries : 0 .. 1] /\ slots'.len = Cardinality(ids)
        /\ UNCHANGED <<step, result>>
    BY <1>1, <1>2, <1>4
  <2>2. TypeOK'
    BY <1>1, <1>2, <2>1, SMTT(30) DEF TypeOK, Present
  <2>3. QueryRight' /\ QuerySurvivesRemovals'
    BY <1>1, <1>2, <2>1 DEF QueryRight, QuerySurvivesRemovals
  <2> QED
    BY <1>1, <2>2, <2>3, OnlyQuery
<1>5. CASE slots.retries # 0
  <2>1. slots.retries = 1 /\ step' = "failed" /\ result' = "nospace" /\ UNCHANGED slots
    BY <1>1, <1>3, <1>5
  <2>2. TypeOK'
    BY <1>1, <1>2, <2>1 DEF TypeOK, Present
  <2>3. disturbed
    BY <1>1, <1>2, <1>3, <2>1 DEF QueryRight, TypeOK
  <2>4. QueryRight' /\ QuerySurvivesRemovals'
    BY <1>1, <1>2, <2>1, <2>3 DEF QueryRight, QuerySurvivesRemovals
  <2> QED
    BY <1>1, <2>2, <2>4, OnlyQuery
<1> QED
  BY <1>4, <1>5

LEMMA QueryFailsStep ==
  ASSUME IInv, QueryFails
  PROVE  IInv'
<1>1. /\ job = "query" /\ step' = "failed" /\ result' = "other"
      /\ UNCHANGED <<job, bucket, since, ids, verifier, changes, stable, disturbed, cursor, log,
                     streak, slots, yielded>>
  BY DEF QueryFails, queryVars, kernelVars
<1>2. TypeOK /\ QueryRight
  BY <1>1, QueryFacts
<1>3. TypeOK'
  BY <1>1, <1>2 DEF TypeOK, Present
<1>4. QueryRight' /\ QuerySurvivesRemovals'
  BY <1>1, <1>2 DEF QueryRight, QuerySurvivesRemovals
<1> QED
  BY <1>1, <1>3, <1>4, OnlyQuery

-----------------------------------------------------------------------------
(* load_program *)

LEMMA TwoNumbers ==
  ASSUME NEW a \in Nat, NEW b \in Nat
  PROVE  /\ Max({a, b}) = (IF a >= b THEN a ELSE b)
         /\ Min({a, b}) = (IF a <= b THEN a ELSE b)
<1>1. CASE a >= b
  <2>1. Max({a, b}) = a
    BY <1>1 DEF Max
  <2>2. Min({a, b}) = b
    BY <1>1 DEF Min
  <2> QED
    BY <1>1, <2>1, <2>2
<1>2. CASE a < b
  <2>1. Max({a, b}) = b
    BY <1>2 DEF Max
  <2>2. Min({a, b}) = a
    BY <1>2 DEF Min
  <2> QED
    BY <1>2, <2>1, <2>2
<1> QED
  BY <1>1, <1>2

\* The next log is the largest one, or ten times as large as the last.
LEMMA LogGrows ==
  ASSUME NEW cap \in Nat
  PROVE  /\ NextLen(cap) \in Nat /\ MinLog <= NextLen(cap) /\ NextLen(cap) <= MaxLog
         /\ NextLen(cap) = MaxLog \/ NextLen(cap) >= 10 * cap
         /\ \A len \in Nat : NextCap(cap, len) \in Nat /\ NextCap(cap, len) >= len
<1>1. MinLog \in Nat /\ MinLog <= MaxLog /\ MaxLog \in Nat /\ 10 * cap \in Nat
  OBVIOUS
<1>2. PICK m \in Nat : m = Min({MaxLog, 10 * cap}) /\ m = (IF MaxLog <= 10 * cap THEN MaxLog ELSE 10 * cap)
  BY <1>1, TwoNumbers
<1>3. NextLen(cap) = (IF MinLog >= m THEN MinLog ELSE m)
  BY <1>1, <1>2, TwoNumbers DEF NextLen
<1>4. ASSUME NEW len \in Nat PROVE NextCap(cap, len) \in Nat /\ NextCap(cap, len) >= len
  <2>1. 2 * cap \in Nat
    OBVIOUS
  <2>2. Max({2 * cap, len}) = (IF 2 * cap >= len THEN 2 * cap ELSE len)
    BY <2>1, TwoNumbers
  <2> QED
    BY <2>1, <2>2 DEF NextCap
<1> QED
  BY <1>1, <1>2, <1>3, <1>4

LogType == [len : Nat, cap : Nat, retries : 0 .. MaxRetries, attempts : 1 .. Attempts]

\* BPF_PROG_LOAD is retried with a larger log, or its result is final.
LEMMA ReturnedFacts ==
  ASSUME log \in LogType, log.cap >= log.len, Levels, NEW r, Returned(r),
         log.len = 0 \/ (MinLog <= log.len /\ log.len <= MaxLog)
  PROVE  \/ /\ log' \in LogType /\ log'.cap >= log'.len
            /\ MinLog <= log'.len /\ log'.len <= MaxLog
            /\ Levels' /\ log'.attempts = Attempts
            /\ UNCHANGED <<step, result>>
         \/ /\ ~TriesAgain(r) /\ step' = "ended" /\ result' = r /\ log' = log
<1>1. CASE TriesAgain(r)
  <2>1. PICK len \in Nat, cap \in Nat :
          /\ len = NextLen(log.cap) /\ cap = NextCap(log.cap, len)
          /\ MinLog <= len /\ len <= MaxLog /\ cap >= len
          /\ len = MaxLog \/ len >= 10 * log.cap
    <3>1. log.cap \in Nat
      BY DEF LogType
    <3> QED
      BY <3>1, LogGrows
  <2>2. /\ log' = [len |-> len, cap |-> cap, retries |-> log.retries + 1, attempts |-> Attempts]
        /\ UNCHANGED <<step, result>>
    BY <1>1, <2>1 DEF Returned
  <2>3. /\ log'.len = len /\ log'.cap = cap /\ log'.retries = log.retries + 1
        /\ log'.attempts = Attempts
    BY <2>2
  <2>4. log.retries + 1 \in 0 .. MaxRetries /\ log.retries \in Nat /\ log.len \in Nat /\ log.cap \in Nat
    BY <1>1 DEF TriesAgain, LogType
  <2>5. Attempts \in 1 .. Attempts
    OBVIOUS
  <2>6. log' \in LogType
    BY <2>1, <2>2, <2>4, <2>5 DEF LogType
  <2>7. MinLog \in Nat /\ MaxLog \in Nat /\ MaxLog > 0
    OBVIOUS
  \* A retry brings the log from one level to the next.
  <2>8. ASSUME NEW n \in Nat, NEW x \in Nat, Reached(n, x) PROVE Reached(n + 1, 10 * x)'
    <3>1. SUFFICES ASSUME log.retries + 1 >= n + 1 PROVE len = MaxLog \/ len >= 10 * x
      BY <2>3 DEF Reached
    <3>2. log.len = MaxLog \/ log.len >= x
      BY <2>4, <2>8, <3>1 DEF Reached
    <3> QED
      BY <2>1, <2>4, <2>7, <3>2
  <2>9. Levels'
    <3>1. Reached(1, MinLog)'
      BY <2>1, <2>3 DEF Reached
    <3>2. Reached(1 + 1, 10 * MinLog)' /\ Reached(2 + 1, 10 * (10 * MinLog))'
          /\ Reached(3 + 1, 10 * (100 * MinLog))' /\ Reached(4 + 1, 10 * (1000 * MinLog))'
      <4>1. /\ 10 * MinLog \in Nat /\ 100 * MinLog \in Nat /\ 1000 * MinLog \in Nat
        BY <2>7
      <4> QED
        BY <2>7, <2>8, <4>1 DEF Levels
    <3>3. /\ 1 + 1 = 2 /\ 2 + 1 = 3 /\ 3 + 1 = 4 /\ 4 + 1 = 5
          /\ 10 * (10 * MinLog) = 100 * MinLog /\ 10 * (100 * MinLog) = 1000 * MinLog
          /\ 10 * (1000 * MinLog) = 10000 * MinLog
      BY <2>7
    <3>4. log'.retries # 0
      BY <2>3, <2>4
    <3> QED
      BY <3>1, <3>2, <3>3, <3>4 DEF Levels
  <2> QED
    BY <2>1, <2>2, <2>3, <2>6, <2>9
<1>2. CASE ~TriesAgain(r)
  BY <1>2 DEF Returned
<1> QED
  BY <1>1, <1>2

LEMMA LoadFacts ==
  ASSUME IInv, job = "load"
  PROVE  /\ TypeOK /\ LoadRight /\ log \in LogType /\ log.cap >= log.len /\ Levels
         /\ log.len = 0 \/ (MinLog <= log.len /\ log.len <= MaxLog)
         /\ verifier \in [verdict : {"ok", "rejected"}, need : Needs, accounts : BOOLEAN,
                          privileged : BOOLEAN, raised : BOOLEAN, tried : BOOLEAN]
         /\ streak \in Nat
BY DEF IInv, TypeOK, LoadRight, LogType

\* What the load reports, when it does not try again.
LEMMA FinalVerdict ==
  ASSUME IInv, job = "load", step = "next", Limited => verifier.tried, ~TriesAgain(Verdict)
  PROVE  \/ Verdict = "ok" /\ verifier.verdict = "ok"
         \/ Verdict = "rejected" /\ verifier.verdict = "rejected" /\ log.len >= verifier.need
         \/ Verdict = "nospace" /\ verifier.need > MaxLog
         \/ Verdict = "perm" /\ verifier.accounts /\ ~verifier.privileged
<1>1. /\ LoadRight /\ log \in LogType /\ Levels
      /\ log.len = 0 \/ (MinLog <= log.len /\ log.len <= MaxLog)
      /\ verifier \in [verdict : {"ok", "rejected"}, need : Needs, accounts : BOOLEAN,
                       privileged : BOOLEAN, raised : BOOLEAN, tried : BOOLEAN]
  BY LoadFacts
<1>2. /\ log.len \in Nat /\ log.retries \in Nat /\ verifier.need \in Nat
      /\ verifier.verdict \in {"ok", "rejected"}
  <2>1. log.len \in Nat /\ log.retries \in 0 .. MaxRetries
    BY <1>1 DEF LogType
  <2>2. verifier.need \in Needs /\ verifier.verdict \in {"ok", "rejected"}
    BY <1>1
  <2>3. log.retries \in Nat /\ verifier.need \in Nat
    <3>1. \A r \in 0 .. MaxRetries : r \in Nat
      OBVIOUS
    <3>2. \A n \in Needs : n \in Nat
      OBVIOUS
    <3> QED
      BY <2>1, <2>2, <3>1, <3>2, Zenon
  <2> QED
    BY <2>1, <2>2, <2>3
<1>3. CASE Limited
  <2>1. Verdict = "perm"
    BY <1>3 DEF Verdict
  <2>2. verifier.accounts /\ ~verifier.raised /\ verifier.raised = verifier.privileged
    BY <1>1, <1>3 DEF Limited, LoadRight
  <2> QED
    BY <2>1, <2>2
<1>4. CASE ~Limited /\ log.len > 0 /\ log.len < verifier.need
  <2>1. Verdict = "nospace"
    BY <1>4 DEF Verdict
  <2>2. log.retries = MaxRetries
    BY <2>1 DEF TriesAgain
  <2>3. Reached(5, 10000 * MinLog)
    BY <1>1 DEF Levels
  <2>4. log.len = MaxLog
    BY <1>1, <1>2, <1>4, <2>2, <2>3, RetriesAssumption DEF Reached
  <2> QED
    BY <1>2, <1>4, <2>1, <2>4
<1>5. CASE ~Limited /\ ~(log.len > 0 /\ log.len < verifier.need)
  <2>1. Verdict = verifier.verdict
    BY <1>5 DEF Verdict
  <2>2. CASE verifier.verdict = "ok"
    BY <2>1, <2>2
  <2>3. CASE verifier.verdict = "rejected"
    <3>1. log.retries >= 1
      BY <1>2, <2>1, <2>3, RetriesAssumption DEF TriesAgain
    <3>2. Reached(1, MinLog)
      BY <1>1 DEF Levels
    <3>3. log.len > 0
      BY <1>2, <3>1, <3>2 DEF Reached
    <3>4. log.len >= verifier.need
      BY <1>2, <1>5, <3>3
    <3> QED
      BY <2>1, <2>3, <3>4
  <2> QED
    BY <1>2, <2>2, <2>3
<1> QED
  BY <1>3, <1>4, <1>5

LEMMA LoadReturnsStep ==
  ASSUME IInv, LoadReturns
  PROVE  IInv'
<1>1. /\ job = "load" /\ step = "next" /\ (Limited => verifier.tried) /\ streak' = 0
      /\ Returned(Verdict)
      /\ UNCHANGED <<job, bucket, since, ids, changes, stable, disturbed, cursor, yielded, slots,
                     verifier>>
  BY DEF LoadReturns, loadVars
<1>2. /\ TypeOK /\ LoadRight /\ log \in LogType /\ log.cap >= log.len /\ Levels
      /\ log.len = 0 \/ (MinLog <= log.len /\ log.len <= MaxLog)
  BY <1>1, LoadFacts
<1>3. CASE /\ log' \in LogType /\ log'.cap >= log'.len
           /\ MinLog <= log'.len /\ log'.len <= MaxLog
           /\ Levels' /\ log'.attempts = Attempts
           /\ UNCHANGED <<step, result>>
  <2>1. TypeOK'
    BY <1>1, <1>2, <1>3 DEF TypeOK, Present, LogType
  <2>2. LoadRight'
    <3>1. 0 + Attempts >= Attempts
      OBVIOUS
    <3> QED
      BY <1>1, <1>2, <1>3, <3>1 DEF LoadRight
  <2>3. VerdictReported'
    BY <1>1, <1>3 DEF VerdictReported
  <2> QED
    BY <1>1, <2>1, <2>2, <2>3, OnlyLoad
<1>4. CASE ~TriesAgain(Verdict) /\ step' = "ended" /\ result' = Verdict /\ log' = log
  <2>1. Verdict \in {"perm", "nospace", "ok", "rejected"}
    <3>1. verifier.verdict \in {"ok", "rejected"}
      BY <1>2 DEF TypeOK
    <3> QED
      BY <3>1 DEF Verdict
  <2>2. TypeOK'
    BY <1>1, <1>2, <1>4, <2>1 DEF TypeOK, Present
  <2>3. LoadRight'
    <3>1. Levels'
      BY <1>2, <1>4 DEF Levels, Reached
    <3> QED
      BY <1>1, <1>2, <1>4, <3>1 DEF LoadRight
  <2>4. VerdictReported'
    <3>1. \/ result' = "ok" /\ verifier.verdict = "ok"
          \/ result' = "rejected" /\ verifier.verdict = "rejected" /\ log.len >= verifier.need
          \/ result' = "nospace" /\ verifier.need > MaxLog
          \/ result' = "perm" /\ verifier.accounts /\ ~verifier.privileged
      BY <1>1, <1>4, FinalVerdict
    <3> QED
      BY <1>1, <1>4, <3>1 DEF VerdictReported
  <2> QED
    BY <1>1, <2>2, <2>3, <2>4, OnlyLoad
<1> QED
  BY <1>1, <1>2, <1>3, <1>4, ReturnedFacts

LEMMA InterruptedStep ==
  ASSUME IInv, Interrupted
  PROVE  IInv'
<1>1. /\ job = "load" /\ step = "next" /\ streak' = streak + 1
      /\ IF log.attempts = 1 THEN Returned("interrupted")
         ELSE log' = [log EXCEPT !.attempts = log.attempts - 1] /\ UNCHANGED <<step, result>>
      /\ UNCHANGED <<job, bucket, since, ids, changes, stable, disturbed, cursor, yielded, slots,
                     verifier>>
  BY DEF Interrupted, loadVars
<1>2. /\ TypeOK /\ LoadRight /\ log \in LogType /\ log.cap >= log.len /\ Levels
      /\ log.len = 0 \/ (MinLog <= log.len /\ log.len <= MaxLog)
      /\ streak \in Nat
  BY <1>1, LoadFacts
<1>3. streak' \in Nat /\ streak + log.attempts >= Attempts /\ log.attempts \in 1 .. Attempts
  BY <1>1, <1>2 DEF LoadRight, LogType
<1>4. CASE log.attempts # 1
  <2>1. log' = [log EXCEPT !.attempts = log.attempts - 1] /\ UNCHANGED <<step, result>>
    BY <1>1, <1>4
  <2>2. log.attempts - 1 \in 1 .. Attempts
    BY <1>3, <1>4
  <2>3. /\ log' \in LogType /\ log'.attempts = log.attempts - 1
        /\ log'.len = log.len /\ log'.cap = log.cap /\ log'.retries = log.retries
    BY <1>2, <2>1, <2>2 DEF LogType
  <2>4. TypeOK'
    <3>1. /\ log' \in LogType /\ log'.cap >= log'.len
          /\ log'.len = 0 \/ (MinLog <= log'.len /\ log'.len <= MaxLog)
      BY <1>2, <2>3
    <3> QED
      BY <1>1, <1>2, <1>3, <2>1, <3>1 DEF TypeOK, Present, LogType
  <2>5. LoadRight'
    <3>1. Levels'
      BY <1>2, <2>3 DEF Levels, Reached
    <3>2. streak' + log'.attempts >= Attempts
      BY <1>1, <1>2, <1>3, <2>3
    <3> QED
      BY <1>1, <1>2, <2>1, <3>1, <3>2 DEF LoadRight
  <2>6. VerdictReported'
    BY <1>1, <2>1 DEF VerdictReported
  <2> QED
    BY <1>1, <2>4, <2>5, <2>6, OnlyLoad
<1>5. CASE log.attempts = 1
  <2>1. Returned("interrupted")
    BY <1>1, <1>5
  <2>2. CASE /\ log' \in LogType /\ log'.cap >= log'.len
             /\ MinLog <= log'.len /\ log'.len <= MaxLog
             /\ Levels' /\ log'.attempts = Attempts
             /\ UNCHANGED <<step, result>>
    <3>1. TypeOK'
      BY <1>1, <1>2, <1>3, <2>2 DEF TypeOK, Present, LogType
    <3>2. streak' + Attempts >= Attempts
      BY <1>3
    <3>3. LoadRight'
      BY <1>1, <1>2, <2>2, <3>2 DEF LoadRight
    <3>4. VerdictReported'
      BY <1>1, <2>2 DEF VerdictReported
    <3> QED
      BY <1>1, <3>1, <3>3, <3>4, OnlyLoad
  <2>3. CASE step' = "ended" /\ result' = "interrupted" /\ log' = log
    <3>1. TypeOK'
      BY <1>1, <1>2, <1>3, <2>3 DEF TypeOK, Present
    <3>2. LoadRight'
      <4>1. Levels'
        BY <1>2, <2>3 DEF Levels, Reached
      <4> QED
        BY <1>1, <1>2, <2>3, <4>1 DEF LoadRight
    <3>3. streak' >= Attempts
      BY <1>1, <1>2, <1>3, <1>5
    <3>4. VerdictReported'
      BY <1>1, <2>3, <3>3 DEF VerdictReported
    <3> QED
      BY <1>1, <3>1, <3>2, <3>4, OnlyLoad
  <2> QED
    BY <1>2, <2>1, <2>2, <2>3, ReturnedFacts
<1> QED
  BY <1>4, <1>5

LEMMA RaiseMemlockStep ==
  ASSUME IInv, RaiseMemlock
  PROVE  IInv'
<1>1. /\ job = "load" /\ step = "next"
      /\ verifier' = [verifier EXCEPT !.tried = TRUE, !.raised = verifier.privileged]
      /\ UNCHANGED <<job, bucket, since, ids, changes, stable, disturbed, cursor, yielded, slots,
                     step, log, result, streak>>
  BY DEF RaiseMemlock, loadVars
<1>2. /\ TypeOK /\ LoadRight /\ Levels
      /\ verifier \in [verdict : {"ok", "rejected"}, need : Needs, accounts : BOOLEAN,
                       privileged : BOOLEAN, raised : BOOLEAN, tried : BOOLEAN]
  BY <1>1, LoadFacts
<1>3. /\ verifier' \in [verdict : {"ok", "rejected"}, need : Needs, accounts : BOOLEAN,
                        privileged : BOOLEAN, raised : BOOLEAN, tried : BOOLEAN]
      /\ verifier'.tried = TRUE /\ verifier'.raised = verifier.privileged
      /\ verifier'.privileged = verifier.privileged
  BY <1>1, <1>2
<1>4. TypeOK'
  BY <1>1, <1>2, <1>3 DEF TypeOK, Present
<1>5. LoadRight'
  <2>1. Levels'
    BY <1>1, <1>2 DEF Levels, Reached
  <2> QED
    BY <1>1, <1>2, <1>3, <2>1 DEF LoadRight
<1>6. VerdictReported'
  BY <1>1 DEF VerdictReported
<1> QED
  BY <1>1, <1>4, <1>5, <1>6, OnlyLoad


-----------------------------------------------------------------------------
(* The initial states *)

\* At first, the keys of a bucket are numbered: no two have the same number.
LEMMA NumberedOnce ==
  ASSUME Init, NEW j \in Present, NEW k \in Present, bucket[j] = bucket[k], since[j] = since[k]
  PROVE  j = k
<1>1. bucket[j] \in Buckets /\ Present \subseteq Keys
  <2>1. Present \subseteq Keys
    BY DEF Present
  <2>2. bucket \in [Keys -> Buckets]
    BY DEF Init, Buckets
  <2> QED
    BY <2>1, <2>2
<1>2. PICK n \in 0 .. Cardinality(Keys) :
        /\ {since[i] : i \in {m \in Present : bucket[m] = bucket[j]}} = 1 .. n
        /\ Cardinality({m \in Present : bucket[m] = bucket[j]}) = n
  BY <1>1 DEF Init
<1> DEFINE inside == {m \in Present : bucket[m] = bucket[j]}
           f == [i \in inside |-> since[i]]
<1>3. j \in inside /\ k \in inside /\ inside \subseteq Keys
  BY <1>1
<1>4. {since[i] : i \in inside} = 1 .. n /\ Cardinality(inside) = n
  BY <1>2
<1>5. IsFiniteSet(inside)
  BY <1>3, FS_Subset
<1> HIDE DEF inside
<1>6. f \in Surjection(inside, 1 .. n)
  BY <1>4 DEF Surjection
<1>7. n \in Nat /\ Cardinality(1 .. n) = n
  <2>1. Cardinality(Keys) \in Nat
    BY FS_CardinalityType
  <2>2. n \in Nat
    BY <2>1
  <2>3. Cardinality(1 .. n) = IF 1 > n THEN 0 ELSE n - 1 + 1
    <3>1. 1 \in Int /\ n \in Int
      BY <2>2
    <3> HIDE DEF f
    <3> QED
      BY <3>1, FS_Interval, Zenon
  <2> QED
    BY <2>2, <2>3
<1>8. f \in Injection(inside, 1 .. n)
  <2> HIDE DEF f
  <2> QED
    BY <1>4, <1>5, <1>6, <1>7, FS_Surjection
<1>9. f[j] = f[k]
  BY <1>3
<1> QED
  <2>1. \A x, y \in inside : f[x] = f[y] => x = y
    BY <1>8 DEF Injection, IsInjective
  <2> QED
    BY <1>3, <1>9, <2>1

LEMMA InitInvariant == Init => IInv
<1> SUFFICES ASSUME Init PROVE IInv
  OBVIOUS
<1>1. /\ job \in {"keys", "iter", "ids", "query", "load"} /\ step = "next" /\ changes = 0
      /\ cursor = (IF job = "ids" THEN 0 ELSE None) /\ yielded = <<>>
      /\ slots = [len |-> Slots, retries |-> 0]
      /\ log = [len |-> 0, cap |-> 0, retries |-> 0, attempts |-> Attempts]
      /\ result = "none" /\ disturbed = FALSE /\ streak = 0
      /\ stable = IF job = "ids" THEN ids ELSE Present
  BY DEF Init
<1>2. Cardinality(Keys) \in Nat
  BY FS_CardinalityType
<1>3. /\ bucket \in [Keys -> Buckets] /\ since \in [Keys -> 0 .. Cardinality(Keys) + changes]
      /\ job \notin Walks => Present = {}
  <2>1. CASE job \in Walks
    <3>1. bucket \in [Keys -> Buckets] /\ since \in [Keys -> 0 .. Cardinality(Keys)]
      BY <2>1 DEF Init, Walks
    <3> QED
      BY <1>1, <1>2, <2>1, <3>1
  <2>2. CASE job \notin Walks
    <3>1. bucket = [k \in Keys |-> 1] /\ since = [k \in Keys |-> 0]
      BY <2>2 DEF Init, Walks
    <3>2. 1 \in Buckets /\ 0 \in 0 .. Cardinality(Keys) + changes
      BY <1>1, <1>2 DEF Buckets
    <3> QED
      BY <3>1, <3>2 DEF Present
  <2> QED
    BY <2>1, <2>2
<1>4. ids \subseteq 1 .. MaxId
  BY DEF Init
<1>5. verifier \in [verdict : {"ok", "rejected"}, need : Needs, accounts : BOOLEAN,
                    privileged : BOOLEAN, raised : BOOLEAN, tried : BOOLEAN]
      /\ verifier.raised = FALSE /\ verifier.tried = FALSE
  BY DEF Init
<1>6. \A j, k \in Present : bucket[j] = bucket[k] /\ since[j] = since[k] => j = k
  BY NumberedOnce
<1>7. DOMAIN yielded = {} /\ \A S : yielded \in Seq(S)
  BY <1>1
<1>8. TypeOK
  <2>1. cursor \in IF job = "ids" THEN 0 .. MaxId ELSE Keys \union {None}
    BY <1>1
  <2>2. /\ slots \in [len : Nat, retries : 0 .. 1]
        /\ log \in [len : Nat, cap : Nat, retries : 0 .. MaxRetries, attempts : 1 .. Attempts]
        /\ log.len = 0 /\ log.cap >= log.len
    BY <1>1
  <2>3. changes \in 0 .. MaxChanges /\ streak \in Nat
    BY <1>1
  <2> QED
    BY <1>1, <1>3, <1>4, <1>5, <1>6, <1>7, <2>1, <2>2, <2>3 DEF TypeOK
<1>9. WalkRight
  BY <1>1 DEF WalkRight, Walks, Ahead
<1>10. IdsRight
  <2>1. SUFFICES ASSUME job = "ids" PROVE IdsRight
    BY DEF IdsRight
  <2>2. \A i \in stable : i > cursor
    BY <1>1, <1>4, <2>1
  <2> QED
    BY <1>1, <1>7, <2>1, <2>2 DEF IdsRight
<1>11. QueryRight
  BY <1>1, <1>3 DEF QueryRight, Walks
<1>12. LoadRight
  <2>1. Levels
    BY <1>1 DEF Levels, Reached
  <2>2. streak + log.attempts >= Attempts
    BY <1>1
  <2> QED
    BY <1>1, <1>3, <1>5, <2>1, <2>2 DEF LoadRight, Walks
<1>13. NoRepetition /\ QuerySurvivesRemovals /\ VerdictReported
  BY <1>1, <1>7 DEF NoRepetition, QuerySurvivesRemovals, VerdictReported
<1> QED
  BY <1>8, <1>9, <1>10, <1>11, <1>12, <1>13 DEF IInv

-----------------------------------------------------------------------------
(* Every step *)

LEMMA StepKept == IInv /\ [Next]_vars => IInv'
<1> SUFFICES ASSUME IInv, [Next]_vars PROVE IInv'
  OBVIOUS
<1>1. ASSUME Loop PROVE IInv'
  <2>1. ASSUME GetNextKey \/ LastKey \/ Lookup \/ LookupMissing \/ LookupFails PROVE IInv'
    BY <2>1, GetNextKeyStep, LastKeyStep, LookupStep, LookupMissingStep, LookupFailsStep
  <2>2. ASSUME GetNextId \/ GetNextFails PROVE IInv'
    BY <2>2, GetNextIdStep, GetNextFailsStep
  <2>3. ASSUME QueryAnswers \/ QueryNoSpace \/ QueryFails PROVE IInv'
    BY <2>3, QueryAnswersStep, QueryNoSpaceStep, QueryFailsStep
  <2>4. ASSUME Interrupted \/ RaiseMemlock \/ LoadReturns PROVE IInv'
    BY <2>4, InterruptedStep, RaiseMemlockStep, LoadReturnsStep
  <2> QED
    BY <1>1, <2>1, <2>2, <2>3, <2>4 DEF Loop
<1>2. ASSUME NEW k \in Keys, RemoveKey(k) \/ UpdateKey(k) PROVE IInv'
  BY <1>2, RemoveKeyStep, UpdateKeyStep
<1>3. ASSUME NEW i \in 1 .. MaxId, RemoveId(i) \/ AddId(i) PROVE IInv'
  BY <1>3, RemoveIdStep, AddIdStep
<1>4. ASSUME UNCHANGED vars PROVE IInv'
  <2>1. TypeOK'
    BY <1>4 DEF vars, kernelVars, IInv, TypeOK, Present
  <2>2. WalkRight'
    BY <1>4 DEF vars, kernelVars, IInv, WalkRight, Ahead, Behind, Before, Present
  <2>3. IdsRight' /\ QueryRight' /\ LoadRight'
    BY <1>4 DEF vars, kernelVars, IInv, IdsRight, QueryRight, LoadRight, Levels, Reached
  <2>4. NoRepetition' /\ QuerySurvivesRemovals' /\ VerdictReported'
    BY <1>4 DEF vars, kernelVars, IInv, NoRepetition, QuerySurvivesRemovals, VerdictReported
  <2> QED
    BY <2>1, <2>2, <2>3, <2>4 DEF IInv
<1> QED
  BY <1>1, <1>2, <1>3, <1>4 DEF Next

\* Every reachable state is typed, a walk has what stayed where it was ahead of it or
\* has yielded it, query has room for as many as there were when it was told, unless one
\* was attached since, and the log grows tenfold with each retry.
THEOREM InductiveInvariant == Spec => []IInv
  BY InitInvariant, StepKept, PTL DEF Spec

\* Every variable of the loops has its type: the log is never larger than the kernel
\* takes, the retries and attempts never exceed their bounds.
THEOREM TypeCorrect == Spec => []TypeOK
<1>1. IInv => TypeOK
  BY DEF IInv
<1> QED
  BY <1>1, InductiveInvariant, PTL

\* A walk that ends without an error has yielded every key or id that was there all the
\* time, whatever others did to the rest.
THEOREM StableAreYielded == Spec => []StableYielded
<1>1. IInv => StableYielded
  BY DEF IInv, StableYielded, WalkRight, IdsRight, Walks
<1> QED
  BY <1>1, InductiveInvariant, PTL

\* A walk repeats only keys that were moved, or what it has yielded before the key from
\* which it went on was removed or moved.
THEOREM NothingIsRepeated == Spec => []NoRepetition
<1>1. IInv => NoRepetition
  BY DEF IInv
<1> QED
  BY <1>1, InductiveInvariant, PTL

\* One retry of query is enough unless a program is attached between the two calls.
THEOREM QueriesSurviveRemovals == Spec => []QuerySurvivesRemovals
<1>1. IInv => QuerySurvivesRemovals
  BY DEF IInv
<1> QED
  BY <1>1, InductiveInvariant, PTL

\* load_program reports the verifier's verdict, with its whole log where it rejects.
THEOREM VerdictsAreReported == Spec => []VerdictReported
<1>1. IInv => VerdictReported
  BY DEF IInv
<1> QED
  BY <1>1, InductiveInvariant, PTL
=============================================================================
