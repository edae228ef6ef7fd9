---------------------------- MODULE RelayCacheOps ----------------------------
(***************************************************************************)
(* RelayCache of mesh-core/src/relay.rs: a fixed array of hashed frames    *)
(* with expiry stamps.  A frame's key covers everything but its hop byte   *)
(* and its checksum, so the copies of one frame share a key.  Times are    *)
(* milliseconds since boot; their u64 does not end within a device's life. *)
(***************************************************************************)
EXTENDS Naturals

CONSTANTS
    Size,       \* RELAY_CACHE_SIZE, 64 in the code
    TTL,        \* RELAY_CACHE_TTL_MS, 8000 in the code
    NoKey       \* the zeroed key of an entry never written

ASSUME CacheAssumption == Size \in Nat \ {0} /\ TTL \in Nat \ {0}

Slots == 1 .. Size

\* RelayCache::new
NewCache == [i \in Slots |-> [occupied |-> FALSE, key |-> NoKey, expires |-> 0]]

Expired(e, t) == e.occupied /\ t >= e.expires

\* Mutant of Hits: an entry counts up to and including its last millisecond.
HitsInclusive(cache, k, t) ==
    { i \in Slots : cache[i].occupied /\ t <= cache[i].expires /\ cache[i].key = k }

\* The live entries of a frame.
Hits(cache, k, t) ==
    { i \in Slots : cache[i].occupied /\ ~Expired(cache[i], t) /\ cache[i].key = k }

\* Mutant of Reclaim: expired entries stay.
ReclaimNothing(cache, upto, t) == cache

\* The scan frees what it finds expired, and stops at a hit.
Reclaim(cache, upto, t) ==
    [i \in Slots |-> IF i < upto /\ Expired(cache[i], t)
                     THEN [cache[i] EXCEPT !.occupied = FALSE] ELSE cache[i]]

First(is) == CHOOSE i \in is : \A j \in is : i <= j

Free(cache) == { i \in Slots : ~cache[i].occupied }

\* The entries with the oldest expiry.
Oldest(cache) == { i \in Slots : \A j \in Slots : cache[i].expires <= cache[j].expires }

\* Mutant of Victim: the first slot goes, whatever its age.
VictimFirst(cache) == IF Free(cache) /= {} THEN First(Free(cache)) ELSE 1

\* The slot an insertion takes.
Victim(cache) == IF Free(cache) /= {} THEN First(Free(cache)) ELSE First(Oldest(cache))

\* observe of a frame that is live: its entry is left as it is.
ObserveDuplicate(cache, k, t) == Reclaim(cache, First(Hits(cache, k, t)), t)

\* Mutant of ObserveNew: the stamp is counted on from the victim's.
ObserveFromStamp(cache, k, t) ==
    LET scanned == Reclaim(cache, Size + 1, t) IN
    [scanned EXCEPT ![Victim(scanned)] =
        [occupied |-> TRUE, key |-> k, expires |-> @.expires + TTL]]

\* observe of a frame that is not live.
ObserveNew(cache, k, t) ==
    LET scanned == Reclaim(cache, Size + 1, t) IN
    [scanned EXCEPT ![Victim(scanned)] =
        [occupied |-> TRUE, key |-> k, expires |-> t + TTL]]

IsDuplicate(cache, k, t) == Hits(cache, k, t) /= {}

Observe(cache, k, t) ==
    IF IsDuplicate(cache, k, t) THEN ObserveDuplicate(cache, k, t) ELSE ObserveNew(cache, k, t)
=============================================================================
