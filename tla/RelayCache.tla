----------------------------- MODULE RelayCache -----------------------------
(***************************************************************************)
(* One relay cache in use: frames arrive in any order and number, time     *)
(* passes, the board restarts with an empty cache.                         *)
(***************************************************************************)
EXTENDS RelayCacheOps

CONSTANTS
    Keys,       \* the frames on the air
    MaxNow      \* bound: how long a boot lasts

ASSUME KeysAssumption == NoKey \notin Keys /\ MaxNow \in Nat

VARIABLES
    now,        \* milliseconds since boot
    entries,    \* RelayCache.entries
    heard,      \* history: frames heard since boot
    first,      \* history: when each was last answered New
    answer      \* history: the last answer

vars == <<now, entries, heard, first, answer>>

\* Every definition of the promise refers to the same time, history and answers.
Promise == INSTANCE Suppression

Init ==
    /\ now = 0
    /\ entries = NewCache
    /\ heard = {}
    /\ first = [k \in Keys |-> 0]
    /\ answer = Promise!NoAnswer

\* observe, called by transit and note_origin.
Hear(k) ==
    /\ entries' = Observe(entries, k, now)
    /\ IF IsDuplicate(entries, k, now)
       THEN /\ answer' = <<k, "Duplicate">>
            /\ UNCHANGED <<heard, first>>
       ELSE /\ answer' = <<k, "New">>
            /\ heard' = heard \union {k}
            /\ first' = [first EXCEPT ![k] = now]
    /\ UNCHANGED now

Tick ==
    /\ now < MaxNow
    /\ now' = now + 1
    /\ answer' = Promise!NoAnswer
    /\ UNCHANGED <<entries, heard, first>>

Reboot ==
    /\ now' = 0
    /\ entries' = NewCache
    /\ heard' = {}
    /\ first' = [k \in Keys |-> 0]
    /\ answer' = Promise!NoAnswer

Next == Tick \/ Reboot \/ \E k \in Keys : Hear(k)

Spec == Init /\ [][Next]_vars

-----------------------------------------------------------------------------

TypeOK ==
    /\ now \in 0 .. MaxNow
    /\ entries \in [Slots -> [occupied : BOOLEAN, key : Keys \union {NoKey}, expires : 0 .. MaxNow + TTL]]
    /\ heard \subseteq Keys
    /\ first \in [Keys -> 0 .. MaxNow]
    /\ answer \in {Promise!NoAnswer} \union (Keys \X {"New", "Duplicate"})

\* Two entries never remember the same frame, expired ones not yet reclaimed
\* included: observe inserts only after a scan that found no live entry and
\* reclaimed every expired one.
OneEntryPerFrame ==
    \A i, j \in Slots :
        entries[i].occupied /\ entries[j].occupied /\ entries[i].key = entries[j].key => i = j

\* relay.rs: "Cache entries expire 8 s after FIRST reception; duplicate
\* observations never extend the lifetime", and only a full cache forgets early,
\* the oldest first.  The cache implements Suppression.
SuppressionSpec == Promise!Spec
=============================================================================
