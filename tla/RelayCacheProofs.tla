-------------------------- MODULE RelayCacheProofs --------------------------
(* The relay cache keeps its promise for every size, lifetime and set of   *)
(* frames.                                                                 *)
EXTENDS RelayCache, FiniteSetTheorems, FunctionTheorems, WellFoundedInduction, TLAPS

\* A set of numbers that is not empty has a least member.
LEMMA LeastNumber ==
    ASSUME NEW ns \in SUBSET Nat, ns /= {}
    PROVE  \E n \in ns : \A m \in ns : n <= m
  <1> DEFINE less == { ss \in Nat \X Nat : ss[1] < ss[2] }
  <1>1. IsWellFoundedOn(less, Nat)
    BY NatLessThanWellFounded, Zenon DEF OpToRel
  <1>2. PICK n \in ns : \A m \in ns : ~(<<m, n>> \in less)
    <2> HIDE DEF less
    <2> QED BY <1>1, WFMin
  <1>3. ASSUME NEW m \in ns PROVE n <= m
    <2>1. n \in Nat /\ m \in Nat
      OBVIOUS
    <2>2. m < n => <<m, n>> \in less
      BY <2>1
    <2>3. ~(m < n)
      BY <1>2, <2>2
    <2> QED BY <2>1, <2>3
  <1> QED BY <1>3

\* First picks the least slot of a set of slots.
LEMMA FirstSlot ==
    ASSUME NEW is \in SUBSET Slots, is /= {}
    PROVE  First(is) \in is /\ \A j \in is : First(is) <= j
  <1>1. is \in SUBSET Nat
    BY CacheAssumption DEF Slots
  <1>2. \E i \in is : \A j \in is : i <= j
    BY <1>1, LeastNumber
  <1> QED BY <1>2 DEF First

Cache ==
    [Slots -> [occupied : BOOLEAN, key : Keys \union {NoKey}, expires : 0 .. MaxNow + TTL]]

\* A cache has an entry with the oldest stamp.
LEMMA OldestExists ==
    ASSUME NEW cache \in Cache
    PROVE  Oldest(cache) /= {}
  <1> DEFINE stamps == { cache[i].expires : i \in Slots }
  <1>1. 1 \in Slots
    BY CacheAssumption DEF Slots
  <1>2. stamps \in SUBSET Nat /\ stamps /= {}
    BY <1>1 DEF Cache
  <1>3. PICK n \in stamps : \A m \in stamps : n <= m
    BY <1>2, LeastNumber
  <1>4. PICK i \in Slots : cache[i].expires = n
    BY <1>3
  <1>5. i \in Oldest(cache)
    BY <1>3, <1>4 DEF Oldest
  <1> QED BY <1>5

\* The victim is a slot; it is free, or no slot is and none has an older stamp.
LEMMA VictimSlot ==
    ASSUME NEW cache \in Cache
    PROVE  /\ Victim(cache) \in Slots
           /\ \/ ~cache[Victim(cache)].occupied
              \/ \A j \in Slots : cache[j].occupied
                                  /\ cache[Victim(cache)].expires <= cache[j].expires
  <1>1. CASE Free(cache) /= {}
    <2>1. Free(cache) \in SUBSET Slots
      BY DEF Free
    <2>2. First(Free(cache)) \in Free(cache)
      BY <1>1, <2>1, FirstSlot
    <2> QED BY <1>1, <2>2 DEF Victim, Free
  <1>2. CASE Free(cache) = {}
    <2>1. Oldest(cache) \in SUBSET Slots
      BY DEF Oldest
    <2>2. First(Oldest(cache)) \in Oldest(cache)
      BY <2>1, OldestExists, FirstSlot
    <2>3. Victim(cache) = First(Oldest(cache))
      BY <1>2 DEF Victim
    <2>4. \A j \in Slots : cache[j].occupied
      BY <1>2 DEF Free
    <2> QED BY <2>2, <2>3, <2>4 DEF Oldest
  <1> QED BY <1>1, <1>2

-----------------------------------------------------------------------------
(***************************************************************************)
(* The inductive invariant.  A stamp is the lifetime of its frame, and a   *)
(* frame that was evicted within its lifetime has left a cache behind that *)
(* is full of frames no older than it.                                     *)
(***************************************************************************)

Holds(cache, k) == \E i \in Slots : cache[i].occupied /\ cache[i].key = k

OneEntry(cache) ==
    \A i, j \in Slots :
        cache[i].occupied /\ cache[j].occupied /\ cache[i].key = cache[j].key => i = j

Stamps(cache) ==
    \A i \in Slots : cache[i].occupied =>
        /\ cache[i].key \in heard
        /\ cache[i].expires = first[cache[i].key] + TTL

Full(cache, stamp) == \A i \in Slots : cache[i].occupied /\ cache[i].expires >= stamp

Remembered(cache) ==
    \A k \in heard : now < first[k] + TTL => Holds(cache, k) \/ Full(cache, first[k] + TTL)

Good(cache) == cache \in Cache /\ OneEntry(cache) /\ Stamps(cache) /\ Remembered(cache)

History ==
    /\ now \in 0 .. MaxNow
    /\ heard \subseteq Keys /\ IsFiniteSet(heard)
    /\ first \in [Keys -> 0 .. MaxNow]
    /\ \A k \in heard : first[k] <= now
    /\ answer \in {Promise!NoAnswer} \union (Keys \X {"New", "Duplicate"})

Inv == History /\ Good(entries)

\* What the scan does to each entry.
LEMMA ReclaimEntries ==
    ASSUME NEW cache \in Cache, NEW upto \in Nat, NEW t \in Nat
    PROVE  /\ Reclaim(cache, upto, t) \in Cache
           /\ \A i \in Slots :
                 /\ Reclaim(cache, upto, t)[i].key = cache[i].key
                 /\ Reclaim(cache, upto, t)[i].expires = cache[i].expires
                 /\ Reclaim(cache, upto, t)[i].occupied <=>
                       cache[i].occupied /\ ~(i < upto /\ t >= cache[i].expires)
  BY DEF Reclaim, Cache, Expired

\* The scan forgets nothing that is still to be remembered.
LEMMA ReclaimGood ==
    ASSUME History, Good(entries), NEW upto \in Nat
    PROVE  Good(Reclaim(entries, upto, now))
  <1> DEFINE cache == Reclaim(entries, upto, now)
  <1>1. now \in Nat /\ TTL \in Nat
    BY CacheAssumption, KeysAssumption DEF History
  <1>2. /\ cache \in Cache
        /\ \A i \in Slots : /\ cache[i].key = entries[i].key
                            /\ cache[i].expires = entries[i].expires
                            /\ cache[i].occupied <=>
                                  entries[i].occupied /\ ~(i < upto /\ now >= entries[i].expires)
    BY <1>1, ReclaimEntries DEF Good
  <1> HIDE DEF cache
  <1>3. OneEntry(cache) /\ Stamps(cache)
    BY <1>2 DEF Good, OneEntry, Stamps
  <1>4. Remembered(cache)
    <2> SUFFICES ASSUME NEW k \in heard, now < first[k] + TTL
                 PROVE  Holds(cache, k) \/ Full(cache, first[k] + TTL)
      BY DEF Remembered
    <2>1. first[k] \in Nat
      BY KeysAssumption DEF History
    <2>2. CASE Holds(entries, k)
      <3>1. PICK i \in Slots : entries[i].occupied /\ entries[i].key = k
        BY <2>2 DEF Holds
      <3>2. entries[i].expires = first[k] + TTL
        BY <3>1 DEF Good, Stamps
      <3> QED BY <1>1, <1>2, <2>1, <3>1, <3>2 DEF Holds
    <2>3. CASE Full(entries, first[k] + TTL)
      <3>1. \A i \in Slots : entries[i].expires \in Nat
        BY DEF Good, Cache
      <3> QED BY <1>1, <1>2, <2>1, <2>3, <3>1 DEF Full
    <2> QED BY <2>2, <2>3 DEF Good, Remembered
  <1> QED BY <1>2, <1>3, <1>4 DEF Good, cache

\* An insertion keeps the cache good: what it evicts leaves a full cache of frames no
\* older behind.
LEMMA InsertGood ==
    ASSUME History, NEW cache, Good(cache), NEW k \in Keys, ~Holds(cache, k),
           entries' = [cache EXCEPT ![Victim(cache)] =
                          [occupied |-> TRUE, key |-> k, expires |-> now + TTL]],
           heard' = heard \union {k},
           first' = [first EXCEPT ![k] = now],
           now' = now
    PROVE  Good(entries)'
  <1> DEFINE v == Victim(cache)
             e == [occupied |-> TRUE, key |-> k, expires |-> now + TTL]
  <1>1. now \in Nat /\ TTL \in Nat /\ now + TTL \in Nat
    BY CacheAssumption, KeysAssumption DEF History
  <1>2. cache \in Cache
    BY DEF Good
  <1>3. v \in Slots /\ ( \/ ~cache[v].occupied
                         \/ \A j \in Slots : cache[j].occupied /\ cache[v].expires <= cache[j].expires )
    BY <1>2, VictimSlot
  <1> HIDE DEF v
  <1>4. \A i \in Slots : entries'[i] = IF i = v THEN e ELSE cache[i]
    BY <1>2 DEF Cache, v
  <1>5. (entries \in Cache)'
    <2>1. e \in [occupied : BOOLEAN, key : Keys \union {NoKey}, expires : 0 .. MaxNow + TTL]
      BY <1>1, KeysAssumption DEF History
    <2> QED BY <1>2, <2>1 DEF Cache, v
  <1>6. OneEntry(entries)'
    <2> SUFFICES ASSUME NEW i \in Slots, NEW j \in Slots, entries'[i].occupied, entries'[j].occupied,
                        entries'[i].key = entries'[j].key
                 PROVE  i = j
      BY DEF OneEntry
    <2>1. CASE i /= v /\ j /= v
      BY <1>4, <2>1 DEF Good, OneEntry
    <2>2. CASE i = v /\ j /= v
      BY <1>4, <2>2 DEF Holds
    <2>3. CASE i /= v /\ j = v
      BY <1>4, <2>3 DEF Holds
    <2> QED BY <2>1, <2>2, <2>3
  <1>7. \A j \in heard : j \in Keys /\ j /= k => first'[j] = first[j]
    BY DEF History
  <1>8. first'[k] = now
    BY DEF History
  <1>9. Stamps(entries)'
    <2> SUFFICES ASSUME NEW i \in Slots, entries'[i].occupied
                 PROVE  /\ entries'[i].key \in heard'
                        /\ entries'[i].expires = first'[entries'[i].key] + TTL
      BY DEF Stamps
    <2>1. CASE i = v
      BY <1>4, <1>8, <2>1
    <2>2. CASE i /= v
      <3>1. entries'[i] = cache[i] /\ cache[i].occupied
        BY <1>4, <2>2
      <3>2. cache[i].key \in heard /\ cache[i].expires = first[cache[i].key] + TTL
        BY <3>1 DEF Good, Stamps
      <3>3. cache[i].key /= k
        BY <3>1 DEF Holds
      <3> QED BY <1>7, <3>1, <3>2, <3>3 DEF History
    <2> QED BY <2>1, <2>2
  <1>10. Remembered(entries)'
    <2> SUFFICES ASSUME NEW j \in heard', now < first'[j] + TTL
                 PROVE  Holds(entries', j) \/ Full(entries', first'[j] + TTL)
      BY DEF Remembered, Holds, Full
    <2>1. CASE j = k
      BY <1>3, <1>4, <2>1 DEF Holds
    <2>2. CASE j /= k
      <3>1. j \in heard /\ j \in Keys /\ first'[j] = first[j] /\ first[j] \in Nat /\ first[j] <= now
        BY <1>7, <2>2, KeysAssumption DEF History
      <3>2. \A i \in Slots : cache[i].expires \in Nat
        BY <1>2 DEF Cache
      <3>3. CASE Full(cache, first[j] + TTL)
        BY <1>1, <1>4, <3>1, <3>2, <3>3 DEF Full
      <3>4. CASE Holds(cache, j)
        <4>1. PICK i \in Slots : cache[i].occupied /\ cache[i].key = j
          BY <3>4 DEF Holds
        <4>2. cache[i].expires = first[j] + TTL
          BY <4>1 DEF Good, Stamps
        <4>3. CASE i /= v
          BY <1>4, <4>1, <4>3 DEF Holds
        <4>4. CASE i = v
          <5>1. Full(cache, first[j] + TTL)
            BY <1>3, <3>2, <4>1, <4>2, <4>4 DEF Full
          <5> QED BY <1>1, <1>4, <3>1, <3>2, <5>1 DEF Full
        <4> QED BY <4>3, <4>4
      <3> QED BY <3>1, <3>3, <3>4 DEF Good, Remembered
    <2> QED BY <2>1, <2>2
  <1> QED BY <1>5, <1>6, <1>9, <1>10 DEF Good

\* A new cache has nothing to remember.
LEMMA InitInv == Init => Inv
  <1> SUFFICES ASSUME Init PROVE Inv
    OBVIOUS
  <1>1. History
    BY KeysAssumption, FS_EmptySet DEF Init, History
  <1>2. Good(entries)
    BY CacheAssumption, KeysAssumption
       DEF Init, Good, NewCache, Cache, OneEntry, Stamps, Remembered
  <1> QED BY <1>1, <1>2 DEF Inv

\* A frame that is not live has no entry left after the scan.
LEMMA ScannedAway ==
    ASSUME Inv, NEW k \in Keys, ~IsDuplicate(entries, k, now)
    PROVE  ~Holds(Reclaim(entries, Size + 1, now), k)
  <1>1. now \in Nat /\ Size \in Nat /\ Size + 1 \in Nat /\ entries \in Cache
    BY CacheAssumption, KeysAssumption DEF Inv, History, Good
  <1>2. \A i \in Slots : i < Size + 1
    BY <1>1 DEF Slots
  <1>3. \A i \in Slots : entries[i].occupied /\ entries[i].key = k => now >= entries[i].expires
    BY DEF IsDuplicate, Hits, Expired
  <1> QED BY <1>1, <1>2, <1>3, ReclaimEntries DEF Holds

\* observe keeps the invariant.
LEMMA HearInv ==
    ASSUME Inv, NEW k \in Keys, Hear(k)
    PROVE  Inv'
  <1>1. History /\ Good(entries) /\ now' = now
    BY DEF Inv, Hear
  <1>2. CASE IsDuplicate(entries, k, now)
    <2>1. Hits(entries, k, now) \in SUBSET Slots /\ Hits(entries, k, now) /= {}
      BY <1>2 DEF IsDuplicate, Hits
    <2>2. First(Hits(entries, k, now)) \in Nat
      BY <2>1, FirstSlot, CacheAssumption DEF Slots
    <2>3. entries' = Reclaim(entries, First(Hits(entries, k, now)), now)
      BY <1>2 DEF Hear, Observe, ObserveDuplicate
    <2>4. UNCHANGED <<heard, first>> /\ answer' = <<k, "Duplicate">>
      BY <1>2 DEF Hear
    <2>5. Good(entries')
      BY <1>1, <2>2, <2>3, ReclaimGood
    <2>6. Good(entries)'
      BY <1>1, <2>4, <2>5 DEF Good, OneEntry, Stamps, Remembered, Holds, Full
    <2> QED BY <1>1, <2>4, <2>6 DEF Inv, History
  <1>3. CASE ~IsDuplicate(entries, k, now)
    <2> DEFINE scanned == Reclaim(entries, Size + 1, now)
    <2>1. Good(scanned) /\ ~Holds(scanned, k)
      BY <1>1, <1>3, ReclaimGood, ScannedAway, CacheAssumption
    <2>2. entries' = [scanned EXCEPT ![Victim(scanned)] =
                         [occupied |-> TRUE, key |-> k, expires |-> now + TTL]]
      BY <1>3 DEF Hear, Observe, ObserveNew
    <2>3. /\ heard' = heard \union {k}
          /\ first' = [first EXCEPT ![k] = now]
          /\ answer' = <<k, "New">>
      BY <1>3 DEF Hear
    <2> HIDE DEF scanned
    <2>4. Good(entries)'
      BY <1>1, <2>1, <2>2, <2>3, InsertGood
    <2>5. IsFiniteSet(heard')
      BY <1>1, <2>3, FS_AddElement DEF History
    <2>6. \A j \in heard' : first'[j] <= now
      BY <1>1, <2>3, KeysAssumption DEF History
    <2> QED BY <1>1, <2>3, <2>4, <2>5, <2>6 DEF Inv, History
  <1> QED BY <1>2, <1>3

\* Every step keeps the invariant.
LEMMA StepInv == Inv /\ [Next]_vars => Inv'
  <1> SUFFICES ASSUME Inv, [Next]_vars PROVE Inv'
    OBVIOUS
  <1> USE CacheAssumption, KeysAssumption
  <1>1. CASE Tick
    <2>1. History'
      BY <1>1 DEF Tick, Inv, History
    <2>2. now \in Nat /\ now' = now + 1 /\ \A k \in heard : first[k] \in Nat
      BY <1>1 DEF Tick, Inv, History
    <2>3. Good(entries)'
      BY <1>1, <2>2 DEF Tick, Inv, Good, OneEntry, Stamps, Remembered, Holds, Full
    <2> QED BY <2>1, <2>3 DEF Inv
  <1>2. CASE Reboot
    <2>1. History'
      BY <1>2, FS_EmptySet DEF Reboot, History
    <2>2. Good(entries)'
      BY <1>2 DEF Reboot, Good, NewCache, Cache, OneEntry, Stamps, Remembered
    <2> QED BY <2>1, <2>2 DEF Inv
  <1>3. CASE \E k \in Keys : Hear(k)
    BY <1>3, HearInv
  <1>4. CASE UNCHANGED vars
    BY <1>4 DEF vars, Inv, History, Good, OneEntry, Stamps, Remembered, Holds, Full
  <1> QED BY <1>1, <1>2, <1>3, <1>4 DEF Next

\* Types, with stamps no later than a lifetime after the end of the boot.
THEOREM TypeCorrect == Spec => []TypeOK
  <1>1. Inv => TypeOK
    BY DEF Inv, History, Good, Cache, TypeOK
  <1> QED BY InitInv, StepInv, <1>1, PTL DEF Spec

\* Two entries never remember the same frame (RelayCache::observe).
THEOREM OneEntryAlways == Spec => []OneEntryPerFrame
  <1>1. Inv => OneEntryPerFrame
    BY DEF Inv, Good, OneEntry, OneEntryPerFrame
  <1> QED BY InitInv, StepInv, <1>1, PTL DEF Spec

\* A frame that is answered New within its lifetime was crowded out.
LEMMA CrowdedOut ==
    ASSUME Inv, NEW k \in Keys, ~IsDuplicate(entries, k, now), Promise!Live(k)
    PROVE  Cardinality(Promise!Crowd(k)) >= Size
  <1> USE CacheAssumption, KeysAssumption
  <1>1. k \in heard /\ now < first[k] + TTL /\ first[k] \in Nat /\ now \in Nat
    BY DEF Promise!Live, Inv, History
  <1>2. ~Holds(entries, k)
    <2> SUFFICES ASSUME NEW i \in Slots, entries[i].occupied, entries[i].key = k PROVE FALSE
      BY DEF Holds
    <2>1. entries[i].expires = first[k] + TTL
      BY DEF Inv, Good, Stamps
    <2> QED BY <1>1, <2>1 DEF IsDuplicate, Hits, Expired
  <1>3. Full(entries, first[k] + TTL)
    BY <1>1, <1>2 DEF Inv, Good, Remembered
  <1>4. ASSUME NEW i \in Slots PROVE entries[i].key \in Promise!Crowd(k)
    <2>1. entries[i].occupied /\ entries[i].expires >= first[k] + TTL
      BY <1>3 DEF Full
    <2>2. entries[i].key \in heard /\ entries[i].expires = first[entries[i].key] + TTL
      BY <2>1 DEF Inv, Good, Stamps
    <2>3. first[entries[i].key] \in Nat /\ entries[i].key /= k
      BY <1>2, <2>1, <2>2 DEF Inv, History, Holds
    <2> QED BY <1>1, <2>1, <2>2, <2>3 DEF Promise!Crowd
  <1> DEFINE f == [i \in Slots |-> entries[i].key]
  <1>5. f \in [Slots -> Promise!Crowd(k)]
    BY <1>4
  <1>6. \A i, j \in Slots : f[i] = f[j] => i = j
    BY <1>3 DEF Full, Inv, Good, OneEntry
  <1>7. f \in Injection(Slots, Promise!Crowd(k))
    BY <1>5, <1>6, Fun_IsInj
  <1>8. IsFiniteSet(Promise!Crowd(k))
    <2>1. Promise!Crowd(k) \in SUBSET heard
      BY DEF Promise!Crowd
    <2> QED BY <2>1, FS_Subset DEF Inv, History
  <1>9. Cardinality(Slots) <= Cardinality(Promise!Crowd(k))
    BY <1>7, <1>8, FS_Injection
  <1>10. Cardinality(Slots) = Size
    BY FS_Interval DEF Slots
  <1>11. Cardinality(Promise!Crowd(k)) \in Nat
    BY <1>8, FS_CardinalityType
  <1> QED BY <1>9, <1>10, <1>11

\* The cache implements Suppression: lifetimes count from the first reception, and only
\* a full cache forgets early, the oldest first (RelayCache::observe).
THEOREM Refinement == Spec => SuppressionSpec
  <1>1. Init => Promise!Init
    BY DEF Init, Promise!Init
  <1>2. Inv /\ [Next]_vars => [Promise!Next]_(Promise!vars)
    <2> SUFFICES ASSUME Inv, [Next]_vars PROVE [Promise!Next]_(Promise!vars)
      OBVIOUS
    <2>1. CASE Tick
      BY <2>1 DEF Tick, Promise!Next, Promise!Tick
    <2>2. CASE Reboot
      BY <2>2 DEF Reboot, Promise!Next, Promise!Forget
    <2>3. ASSUME NEW k \in Keys, Hear(k) PROVE Promise!Next
      <3>1. CASE IsDuplicate(entries, k, now)
        <4>1. PICK i \in Slots : entries[i].occupied /\ entries[i].key = k /\ ~(now >= entries[i].expires)
          BY <3>1 DEF IsDuplicate, Hits, Expired
        <4>2. k \in heard /\ entries[i].expires = first[k] + TTL
          BY <4>1 DEF Inv, Good, Stamps
        <4>3. now \in Nat /\ first[k] \in Nat /\ TTL \in Nat
          BY CacheAssumption, KeysAssumption DEF Inv, History
        <4>4. Promise!Live(k)
          BY <4>1, <4>2, <4>3 DEF Promise!Live
        <4> QED BY <2>3, <3>1, <4>4 DEF Hear, Promise!HearDuplicate, Promise!Next
      <3>2. CASE ~IsDuplicate(entries, k, now)
        <4>1. Promise!Live(k) => Cardinality(Promise!Crowd(k)) >= Size
          BY <3>2, CrowdedOut
        <4>2. /\ answer' = <<k, "New">> /\ heard' = heard \union {k}
              /\ first' = [first EXCEPT ![k] = now] /\ now' = now
          BY <2>3, <3>2 DEF Hear
        <4>3. Promise!HearNew(k)
          BY <4>1, <4>2 DEF Promise!HearNew, Promise!Cardinality, Cardinality
        <4> QED BY <4>3 DEF Promise!Next
      <3> QED BY <3>1, <3>2
    <2>4. CASE UNCHANGED vars
      BY <2>4 DEF vars, Promise!vars
    <2> QED BY <2>1, <2>2, <2>3, <2>4 DEF Next
  <1> QED BY InitInv, StepInv, <1>1, <1>2, PTL DEF Spec, SuppressionSpec, Promise!Spec
=============================================================================
