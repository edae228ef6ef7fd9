-------------------------------- MODULE Boot --------------------------------
(***************************************************************************)
(* The way of the node record from flash into the engine at boot and back  *)
(* at the next commit: main and runtime_task of firmware/src/main.rs,      *)
(* StorageService of firmware/src/storage.rs, Engine::set_identity, and    *)
(* the two commands that stage a snapshot on a board without contacts.     *)
(*                                                                         *)
(* The same sources build two images: "free" without a radio, which writes *)
(* only what a USB command staged, and "radio", whose main loop writes     *)
(* whatever the engine has staged at the start of every turn.              *)
(*                                                                         *)
(* Abstractions: of the record only the signing key and the identity are   *)
(* kept; a load may fail at any boot (a read error, an unknown version, a  *)
(* record that does not decode).                                           *)
(***************************************************************************)
EXTENDS Naturals

CONSTANTS
    Keys,             \* signing keys, each drawn at most once
    MaxBoots,         \* bound: boots
    None              \* no record, no key, nothing staged

VARIABLES
    image,            \* the feature the firmware was built with
    record,           \* flash under KEY_NODE
    engine,           \* the engine while the power is on, else None
    health,           \* StoreHealth of the USB state
    persist,          \* Engine::persist_scratch while persist_dirty
    usb_staged,       \* usb.staged
    drawn,            \* keys the TRNG has given
    boots             \* boots so far

vars == <<image, record, engine, health, persist, usb_staged, drawn, boots>>

Init ==
    /\ image \in {"free", "radio"}
    /\ record = None
    /\ engine = None
    /\ health = "Unprovisioned"
    /\ persist = None /\ usb_staged = None
    /\ drawn = {}
    /\ boots = 0

-----------------------------------------------------------------------------

\* persist_view
Snapshot(e) == [keys |-> e.keys, uid |-> e.uid]

\* Engine::new
NewEngine == [keys |-> None, uid |-> FALSE, fault |-> FALSE]

\* What the storage service may answer to Load; a record that restore refuses counts
\* with those that could not be read.
LoadAnswers == {"Fault", IF record = None THEN "Empty" ELSE "Loaded"}

\* Engine::restore, on the new engine
Restored(answer) ==
    IF answer = "Loaded" THEN [NewEngine EXCEPT !.keys = record.keys, !.uid = record.uid]
    ELSE NewEngine

\* set_identity: an engine without an identity is given one, and the snapshot of that is
\* staged.
SetIdentity(e) ==
    /\ engine' = [e EXCEPT !.uid = TRUE]
    /\ persist' = IF e.uid THEN None ELSE Snapshot([e EXCEPT !.uid = TRUE])

\* A load that failed is remembered in health only.
PowerOn(answer) ==
    /\ engine = None
    /\ boots < MaxBoots
    /\ boots' = boots + 1
    /\ SetIdentity(Restored(answer))
    /\ health' = CASE answer = "Fault" -> "Fault"
                   [] answer = "Loaded" -> "Ready"
                   [] answer = "Empty" -> "Unprovisioned"
    /\ usb_staged' = None
    /\ UNCHANGED <<image, record, drawn>>

PowerOff ==
    /\ engine /= None
    /\ engine' = None /\ persist' = None /\ usb_staged' = None
    /\ UNCHANGED <<image, record, health, drawn, boots>>

\* The loop of the free image commits what a line staged before it reads the next one.
BetweenLines == image = "free" => usb_staged = None

\* dispatch refuses every command but the status ones when health is Fault.
Answers == engine /= None /\ BetweenLines /\ health /= "Fault" /\ ~engine.fault

\* stage_persist of the engine and stage_for_commit of the USB state.
Stage(e) == engine' = e /\ persist' = Snapshot(e) /\ usb_staged' = Snapshot(e)

\* op_provision and complete_provision
Provision(k) ==
    /\ Answers
    /\ engine.keys = None
    /\ k \notin drawn
    /\ drawn' = drawn \union {k}
    /\ Stage([engine EXCEPT !.keys = k])
    /\ UNCHANGED <<image, record, health, boots>>

\* op_time_set
TimeSet ==
    /\ Answers
    /\ Stage(engine)
    /\ UNCHANGED <<image, record, health, drawn, boots>>

\* What the next commit writes: Runtime::commit takes the engine's snapshot when the USB
\* state has none, commit_staged does not.
Due == IF usb_staged = None /\ image = "radio" THEN persist ELSE usb_staged

\* What the flash may hold after the storage service has stored an item, or failed to.
Stored(ok) == IF ok THEN {Due} ELSE {record, Due}

\* The commit after a USB line, or of advance_time at the top of a turn (a faulted
\* engine does not get there).
Commit ==
    /\ engine /= None
    /\ image = "radio" => ~engine.fault
    /\ Due /= None
    /\ \/ record' \in Stored(TRUE) /\ UNCHANGED <<engine, health>>
       \/ /\ record' \in Stored(FALSE)
          /\ engine' = [engine EXCEPT !.fault = TRUE]
          /\ health' = "Fault"
    /\ persist' = None /\ usb_staged' = None
    /\ UNCHANGED <<image, drawn, boots>>

Next ==
    \/ \E answer \in LoadAnswers : PowerOn(answer)
    \/ PowerOff
    \/ \E k \in Keys : Provision(k)
    \/ TimeSet \/ Commit

Spec == Init /\ [][Next]_vars

-----------------------------------------------------------------------------

\* storage.rs: an unreadable record "fails closed", "never quiet key regeneration": a
\* signing key that has reached the flash stays there, also when a boot cannot read it.
KeysKept ==
    [][record /= None /\ record.keys /= None => record'.keys = record.keys]_vars
=============================================================================
