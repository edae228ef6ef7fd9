\* Two slots, lifetime of two ticks, four frames: expiry, reclaim before and after
\* the hit, eviction with and without equal stamps.
CONSTANTS
    Size = 2
    TTL = 2
    NoKey = NoKey
    Keys = {k1, k2, k3, k4}
    MaxNow = 5
SPECIFICATION Spec
INVARIANTS TypeOK OneEntryPerFrame
PROPERTY SuppressionSpec
