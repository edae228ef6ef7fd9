# Verification of the LoRa mesh node

TLA+ modules, TLC configurations and TLAPS proofs kept beside the firmware and
crates of this repository. They are written from the Rust source; where a
comment or a document promises something, the promise appears as a property.

## 1. The system

Three battery-powered boards exchange short encrypted messages over LoRa. Each
board talks to a host over USB, pairs with another board in a ceremony carried
by hand, and relays frames it cannot read.

| Part | Source | State it keeps | Operations |
| --- | --- | --- | --- |
| replay window | `crates/mesh-core/src/security.rs` | highest number, 64-bit bitmap, empty flag | `accept`, `restore` |
| clock | `crates/mesh-core/src/clock.rs` | none | hour epochs, accept window of one hour either side |
| relay cache | `crates/mesh-core/src/relay.rs` | 64 hashed frames with expiry | `observe`, `prepare_forward` |
| pairing records | `crates/mesh-core/src/pairing.rs` | none | encode and decode offer, proof, confirmation |
| node engine | `crates/mesh-node/src/engine.rs` | contacts (keys, send numbers, windows, block flag), trusted time, send in flight, pending ceremony, staged snapshot | send, receive, acknowledge, pair, block, delete, set time, commit, restore |
| record | `crates/mesh-node/src/persist.rs` | the bytes on flash | `encode_into`, `decode_view` |
| storage service | `firmware/src/storage.rs` | three keys in a flash map | load, commit |
| radio task and gate | `firmware/src/radio.rs` | policy and generations, two queues, RF state | `set_policy`, `tx_token`, commands, receive loop |
| runtime | `firmware/src/runtime.rs` | in-flight send, ping and forward, last policy | one turn: clock, USB lines, radio events, time-outs |
| USB protocol | `firmware/src/usb.rs` | staged copy, staged reply | one handler per command |
| host tools | `host/meshctl`, `webapp`, `scripts` | contacts, history, port lock | request and reply over a line |

How they interact. The runtime owns the engine and runs on the same cooperative
executor as the radio task and the storage service. It talks to the radio task
through two bounded queues and the policy gate, a critical section that both
read; to the storage service by request and answer; to the host by lines. The
engine does nothing by itself: an operation *stages* a snapshot, the runtime
commits it, tells the engine, and only then lets a frame or an event out.

What is hard: power may go at any moment, including in the middle of a write; a
write may fail and yet have happened; sequence numbers are shared by data and
acknowledgements and reserved in blocks; hours roll over while frames are late;
the policy changes at every await of the radio task; both queues have eight
places; a radio may stop answering, and its interrupt line
is a level that may stay high.

What makes each part correct:

- replay window: no number is accepted twice, and none is refused without need;
- engine: no key and nonce is used for two frames; no message is delivered twice;
  the record is always readable; trusted time never goes back below traffic;
- gate: no frame leaves that was forbidden while it waited, and after the
  barrier there is silence; every command is answered;
- runtime: every request gets one final reply; a retry never outlives its send;
- relay: a frame is forwarded at most once while it is remembered;
- pairing: both sides end with the same root and opposite roles, or neither.

## 2. Modules

| Module | Stands for | Role |
| --- | --- | --- |
| `ReplayWindowOps` | `ReplayWindow` | operators on a window, with its width as a constant |
| `ReplayWindow` | one window in use | state machine with restarts |
| `AtMostOnce` | what a window promises | abstract specification |
| `Engine`, `MCEngine` | `Engine`, the record, the commit | state machine with power loss and torn writes |
| `UsbStaging`, `MCUsbStaging` | the USB staging slot over `Engine` | composition, shows a defect |
| `RadioGate` | gate, queues and radio task | state machine with fairness |
| `RelayCacheOps` | `RelayCache` | operators on the cache |
| `RelayCache` | one cache in use | state machine with restarts |
| `Suppression` | what the cache promises | abstract specification |
| `Mesh`, `MCMesh` | sender, relay, receiver, air | composition, with fairness |
| `MessageService` | what the mesh promises to two hosts | abstract specification |
| `Runtime` | `Runtime`, with the queues to the radio task | state machine with fairness |
| `Pairing`, `MCPairing` | the ceremony between boards | state machine with power loss |
| `Boot` | load, restore, first commit, two images | state machine, shows a defect |
| `WindowLemmas`, `ReplayWindowProofs`, `RelayCacheProofs`, `EngineProofs`, `RadioGateProofs`, `PairingProofs`, `MeshProofs`, `RuntimeProofs` | | proofs |

`Engine` extends `ReplayWindowOps`, `UsbStaging` extends `Engine`, and `RelayCache`
and `Mesh` both extend `RelayCacheOps`. `ReplayWindow`, `RelayCache` and `Mesh` are
shown to implement their abstract specifications through `INSTANCE`.

### ReplayWindow

`win` is the triple of the struct, with the bitmap as the set of its one bits.
`Offer` is `accept` on a number that already authenticated, `Restart` writes the
triple and reads it back with `restore`. `seen` is history. `AtMostOnce` has no
bitmap: the set of accepted numbers decides, and `PromiseSpec` says that the
window is an implementation of it with `accepted <- seen`.

### Engine

The variables follow the fields of `struct Engine`; `flash` is the durable
record. `caller` is the position of the caller between staging and effect:
after an operation has staged (`commit`), and between the two commits of a send
(`emit`). `after` is what the caller will do once the commit succeeds.

| Action | Code |
| --- | --- |
| `Provision`, `SetTimeConfirmed`, `AdvanceTime`, `AdvanceTimeFails`, `SetRadio` | the methods of the same names |
| `PairActivate`, `PairCancel` | `import_confirm` with `activate_contact`, `pair_cancel` |
| `DeleteContact`, `SetBlocked` | the same |
| `SendBegin`, `SendEmit`, `SendRetryEcho`, `SendComplete` | the same |
| `OnData`, `OnAck`, `BuildAck` | the branches of `on_frame`, `build_ack` |
| `CommitOk`, `CommitFails` | `Runtime::commit` with `commit_ok`, or `discard_staged` and `mark_fault` |
| `Reboot` | loss of power, then `restore` |

A frame is identified by root, epoch and sequence number, which fix its key and
nonce, and by what it carries. Frames from the peers are adversarially free: any
epoch, any number, as often as they like. A failed write and a write cut short
leave either the old or the new record (`TornWrite`, the guarantee of the flash
map library, external). The record also refuses to boot from what `decode_view`
would refuse, so `RecordDecodable` is what makes `Reboot` always possible.

The second commit of a send, and the second snapshot of `build_ack`, already make
`tx_next` on flash cover every number that is out. Skipping the reserved block in
`restore` is a second line of defence, and no property depends on it alone.

### UsbStaging

`Runtime::commit` writes `usb.staged` if it is there and the engine's own
snapshot otherwise. Commands that ask for a commit refresh the copy. Three do
not ask: `provision`, `pair_import` and `radio_arm_next_boot` answer inline.
`FlushStaged` is the head of the next turn of the main loop.

### RadioGate

The policy variables are `POLICY_STATE`, `cmds` and `evts` the two channels, `pc`
the await the task is at. `SetPolicy`, `QueueTx`, `QueueControl`, `DrainEvt` and
`FaultSeen` are what the runtime can do. There is no await between
`sync_policy`, `tx_token` and `try_send`, so minting and queueing are one step.
`cad`, `backoff`, `prepare` and `air` are the awaits of `do_tx` at which the
policy may change; the gate is asked at dequeue, after every back-off and after
the last CAD, and not after `tx_prepare`. `forbidden`, `closed_at`, `fence`,
`aired` and `done` are history.

`dio0` is the chip's interrupt line. It rises when the chip likes (`IrqRises`), and
`finish_rx` clears it or, when the flags cannot be read, reports `RxCrcError` and leaves
it high. `select` polls the line before the command queue, so `TakeCmd` needs it low
unless the task is parked. A line that stays high therefore keeps `run` from `RADIO_CMD`:
`RxCrcError` is no Fault, nobody closes the gate, and commands wait until the host
switches the radio off and the loop parks. A flood of bad frames does the same if there
is always another by the end of the 10 ms after an error. `EveryCommandEnds` names this
case, `LineNeverLow`, and shows that it is the only one: it says less than the comment at
`radio.rs:248`, "every command gets exactly one correlated terminal event".

### RelayCache

The array of 64 entries is a function on slots, a key stands for the SHA-256 of a
frame without hop byte and checksum. `Observe` is split as the code is: the scan that
reclaims what it passes and stops at a hit, and the insertion that takes the first free
slot or the oldest entry. `first` and `heard` are history, and they are the state of
`Suppression`, which has no slots: there a frame is new when its lifetime is over, or
when `Size` other frames were first heard no earlier than it.

### Mesh

One sender, one relay, one receiver. `Send`, `Retry`, `Unconfirmed` and `HearAck` are
the sender's runtime, `HearData` is `on_rx` with `build_ack`, `HearTransit`,
`HearForeign` and `ForwardOut` are `transit`, `schedule_forward` and the forward's part
of `poll_timeouts`. Every transmission decides at once which of its copies arrive; a copy
then arrives in any order within `MaxDelay`. A unit of time is four seconds, so the
lifetime of 8 s and the retry interval of 12 s are 2 and 3. `MeshAssumption` says that an
attempt's frames are gone before the relay's memory of them and the delay together
exceed the retry interval; on hardware a hop takes under two seconds. `harmed`
records which attempts lost a copy, or a forward that was overwritten in the relay's
one slot: this is how `UnconfirmedNeedsLosses` can say that nothing but such a loss
makes a message unconfirmed.

### Runtime

`board` holds the engine's and the runtime's fields; each handler is a function of it,
because handlers call one another (`commit` may call `fail_radio_closed`, which answers
the send in flight, in the middle of any of them). `evts` is `RADIO_EVT`, `board.cmds`
`RADIO_CMD`; the command being carried out still counts. `wait` is the control that sits
in `wait_control`; events are handled meanwhile, requests and deadlines are not.

| Action | Code |
| --- | --- |
| `Request` | a USB line: `op_send`, `op_ping`, `op_radio_set`, `op_block`, `op_delete`, up to their answer or wait; the commits of time, settings and Wi-Fi, by their outcome |
| `HandleEvt` | `on_radio_evt` with `on_tx_done`, `on_cad_done`, `on_rx` |
| `BarrierDone`, `WaitTimeout` | the two ends of `wait_control`, and what the control does after it |
| `DeadlinePasses`, `PollDue`, `PollListened` | time, and the two halves of `poll_timeouts` |
| `HourFails` | `advance_time` when it, or its commit, fails |
| `RadioStep`, `RadioReports` | the radio task's terminal events, and the frames and faults it reports |

A request is its number, and `answers` collects every final word said about it. Two
paths forget a request without a word and are recorded in `dropped`: a send when the
radio is switched off (`runtime.rs:1122`), the finding of `runtime_silent`, and a ping when
the radio is closed on a fault (`runtime.rs:335`). A ping has no deadline either:
`PROBE_TIMEOUT` is declared and not used. The ledger of the proof shows that there is no
third path: a request is answered, dropped, in flight or owed. `SendsAndControlsEnd` needs
nothing of the radio task: the send's slot and the control's wait become free by the
runtime's own deadlines.

Delete commits a second time after its barrier (`runtime.rs:480`). That commit finds nothing
staged, so `AfterWait` leaves it out: the first commit took `usb.staged`, no line is read
during the wait, `send_complete` stages nothing, and every branch of `on_rx` that stages
commits, or discards, before it returns. `MintedInSync` is about the cache that
`sync_policy` compares with; it says nothing of a `SetEnabled(false)` that a full queue
swallows, which the closed gate makes up for.

### Pairing

Any number of boards; every record a board has shown may be imported anywhere, any
number of times, in any order. The root is derived from the Diffie-Hellman secret of the
two offers and their transcript; proofs and confirmations carry the key they are sealed
with, and an import opens only what its own keys open. `pending` has the fields of
`PendingPair`; an imported offer replaces the earlier one but not the proofs, as in the
code, and `Agreement` is what the check of the MAC over both proofs has to save.
`Batched` says whether a command may run before the commit of the one before it: `FALSE`
is the free image, which commits after every line, `TRUE` the radio image, which does not
after `pair_import`.

### Boot

The signing key's way from flash to engine and back. `LoadAnswers` are the storage
service's, `health` is the USB side's view and `engine.fault` the engine's own. Both images
are initial states of one run; the free image commits what a line staged before it reads
the next.

## 3. What the runs check

| Run | Instance | Distinct states | Shows |
| --- | --- | --- | --- |
| `replay_window` | width 3, numbers 0 to 8 | 5,120 | exactness, storability, refinement of `AtMostOnce` |
| `engine_tx` | one contact, blocks of 2, numbers to 4, two hours, two contents | 639,520 | nonces, durability of numbers, time floor, decodable record, emit and retry |
| `engine_rx` | one contact, window width 1, three hours, two peer numbers | 1,023,286 | no redelivery, durability of reception |
| `usb_staging` | as `engine_tx` | violation | the stale copy, see section 6 |
| `radio_gate` | one contact and opaque forwards, queues of 1, 2 CAD attempts, 4 policy changes, 3 commands | 563,278 | gate, barrier, truthful events, every command ends unless the line starves it |
| `relay_cache` | 2 slots, lifetime 2, 4 frames, 6 points in time | 30,062 | one entry per frame, refinement of `Suppression` |
| `mesh` | two messages over the relay, or one with a direct path; 2 attempts, cache of 2, one foreign frame or restart | 500,740 | refinement of `MessageService`, losses explain UNCONFIRMED, retries traverse, every send ends |
| `runtime` | 2 contacts, queues of 2, 2 attempts, 3 requests, one report of the radio by itself | 2,327,681 | one final word, no frame after it, policy in step, fences, sends and controls end |
| `runtime_silent` | one contact, queues of 3, one attempt, 3 requests | violation | section 6 |
| `pairing` | 3 boards with 4 offers; 3 offers and 1 mishap; 2 boards, 4 offers and 2 mishaps | 487,650 | agreement, one contact per peer, no root started twice |
| `pairing_batch` | one ceremony of two boards and one other command | violation | section 6 |
| `boot` | two keys, three boots | violation | section 6 |

Bounds and why they are enough. Three positions and nine numbers let a window
slide out completely, by exactly its width and by more. Blocks of two with four
numbers let a block run out twice and the sequence space end in the middle of an
acknowledgement. Three hours let a window be kept, dropped and started anew.
One contact is enough because slots share only time and the send in flight; the
proofs cover any number. `MaxRoots` is 1 in TLC; pairing again after a delete is
covered by the proofs. With four policy changes a radio can go off and on, and a
contact be blocked and unblocked, while one frame waits; three commands put a
frame, another frame and a barrier in line. A queue of one, with the command in hand,
fills at once, which is where events are dropped and `Report` waits; the theorems on the
gate hold for every capacity. `MaxEdges` keeps its last change for
`FaultSeen`, so that the bound never stops the runtime from closing the gate.

Two cache slots and four frames let a full cache evict with and without equal stamps;
five ticks outlast two lifetimes. In `Mesh` two messages let an acknowledgement of the
first meet the second, two attempts a late answer to the first attempt meet the second, and
one foreign frame is enough to overwrite the forward slot or to fill the cache. In
`Runtime` three requests are a send, a control that cancels it and a further send or
control that a late event may hit; queues of two make `BUSY` of the second half of a
control reachable. `Probes` is 1: a further probe only repeats the first. In `Pairing` two
contacts per board make a ceremony compete with another for a slot, and four offers let two
ceremonies of one board overlap.

`CHECK_DEADLOCK FALSE` is set where the system may rightly rest: `RadioGate` parks when
no command comes and the radio is off, and the bounds on requests, messages, offers or
boots make the rest of `Mesh`, `Runtime`, `Pairing` and `Boot` final.

Fairness. `RadioGate`: `WF(WorkStep)`, since the executor polls the radio task again
and again and every await in a command has a time-out; `SF(TakeStep)`, since a `select`
that is entered with the line low and a command queued takes the command in its first
poll, so an interrupt cannot slip in between forever as weak fairness would let it (a high
line disables `TakeStep`, and strong fairness then promises nothing);
`WF(DrainEvt \/ FaultSeen)`, since the main loop drains events every turn. Nothing is
assumed of the chip: every transfer may fail each time, and the line may rise whenever
the task listens and never fall. `Mesh`: the main loop polls its deadlines every 50 ms,
what is on the air ends, and time passes; nothing is assumed about delivery. `Runtime`:
turns follow one another, `with_timeout` fires, and a deadline comes; `runtime_silent` also
lets the radio task answer every command, so that its counterexample does not rest on a
radio that stopped. New requests, frames, faults and failing commits are never assumed.

Properties, and the mutant that breaks each, are listed in `PROJECT.json`. The
mutated definitions stand in the modules right before the definition they mutate.

## 4. What is proved

`WindowLemmas`, `ReplayWindowProofs`, `RelayCacheProofs`, `EngineProofs`,
`RadioGateProofs`, `PairingProofs`, `MeshProofs` and `RuntimeProofs` are checked by TLAPS
for every value of the constants. TLC checked the inductive invariants of `RadioGate`,
`Mesh` and `Runtime` on the instances of their runs before they were proved.

**Replay window** (any width, any set of numbers). `Inv` is typing, exactness and
well-formedness together: exactness alone is not inductive, since `Restart` turns
a window without bits into an empty one. `Refinement` shows that each step is a
step of `AtMostOnce`: a number is stale by the bitmap exactly if some accepted
number lies a width above it.

**Relay cache** (any number of slots, any lifetime, any set of frames). The slots say
less than the history does, so the invariant ties them: an occupied slot holds a frame
that was heard and the stamp is its first reception plus a lifetime (`Stamps`), no frame
has two slots (`OneEntry`), and a frame still within its lifetime is in a slot or else
every slot is occupied by a frame that expires no earlier (`Remembered`, `Full`). The last
part is what eviction of the oldest keeps and what `OneEntryPerFrame` alone would not give.
For `Refinement`, a frame answered "New" within its lifetime finds the cache full; the
keys of the slots are an injection into its crowd, so the crowd has as many frames as
there are slots.

**Engine** (any number of contacts, epochs, contents and pairings, any block size
and width). The properties speak of history against flash, and a step from RAM
to flash passes through the staged snapshot. The inductive invariant therefore
says of three places (flash, the staged snapshot, and RAM when nothing is
staged) that each is `Good`: its contacts would refuse every delivered message,
and would use no number under which a frame of the same root is out. While an
operation is staged, the snapshot has to be good for the effects still to come
(`StagedInv`), and the frames waiting must be new (`FramesAbove`). `SendInv` says
that the send in flight is either about to be sealed under a reserved number or
is out already, which is what makes a retry harmless and an emit never refused.
The lemmas in the first half of `EngineProofs` show that each way of changing
contacts keeps them good.

**Gate** (any contacts, capacities and numbers of attempts, generations without
wrap). `IndInv` says that a command short of its final gate is younger than all
that was aired or fenced (`Young`), and that if it was ever forbidden its token
is dead: it is forbidden now, or a generation moved on (`Dead`). Generations only
grow while they do not wrap, which is the assumption `MaxEdges < GenMod`: with
32 bits, four thousand million policy changes between minting and sending. For
`SilentAfterBarrier` a frame past its gate but not yet triggered was permitted
when it passed, so what forbids it now came later than its queueing
(`PassedInv`).

**Pairing** (any boards, slots, offers and mishaps). `Sound` holds in both images. It says
that every record ever shown is one the code makes from two offers (`RecordsOk`), that the
fields of a ceremony fit one another although its proofs may belong to an offer replaced
since (`CeremoniesOk`), and that every contact, in RAM and on flash, came out of two offers
with a confirmation over both proofs (`ContactsOk`). `Agreement` needs this detour through
the records: what a board holds proves something about its peer only because a transcript
determines its two offers (`TranscriptInjective`) and only the peer could have made the
confirmation. `Exclusive` is proved for `~Batched`, where a ceremony that is still open
has a free slot, a peer that is no contact, and an offer from which no root was made
(`Open`); offers not yet made are in no root (`Spent`), so a root is never started twice.
`pairing_batch` refutes the conclusion without the hypothesis.

**Mesh** (any number of messages, attempts and foreign frames, any cache and delay that
`MeshAssumption` allows). For `RetryTraverses` the cache has to be tied to the sender's
deadline: what an attempt set off is about only so long (`Timing`), an entry for the message
in flight expires by the deadline, and no frame the relay is still to hear is remembered
(`Cache`). `UnconfirmedNeedsLosses` rests on `Tokens`: an attempt at the message in flight
was harmed, or something of it is on the air or in the forward slot; at the deadline the
frames are gone, so only harm is left. `Refinement` maps `status` and `delivered` to
`MessageService`; the step that matters is `HearAck`, where an acknowledgement about is one
of a message already accepted (`Traffic`).

**Runtime** (any contacts, capacities, attempts, probes and requests). Handlers call one
another, so the invariant is stated of a board in the middle of a handler: `Good(b, owed)`
keeps a ledger in which every request is answered, given up, held by the send or the ping
in flight, or owed by whoever runs now. `ReplyOk` and `DropOk` settle a debt, `SendOverOk`
and `PingOverOk` hand what was held back to the caller, and `FailRadioClosedOk`, which any
commit may set off, is proved once for all handlers. Between steps the debtors are the
control in its wait and the requests to come (`Owed`). `Linked` says that the engine's
send is the runtime's and may still go out; `Cancels` that a cancelled send in flight is no
longer the engine's, which is why `poll_timeouts` cannot retry it; `Queues` that the ids of
commands and completions grow along both queues, which is why the completion of an old
barrier cannot pass for the new one. Mid-handler, `Follows` says that no frame was queued.
The three action properties are proved of the same steps as `Inv`.

Assumptions are the named ASSUMEs on constants; TLC evaluates them in the runs.

Only model-checked: liveness, which is out of the prover's reach (`EveryCommandEnds`,
`EverySendEnds`, `SendsAndControlsEnd`), and the violations in `usb_staging`,
`pairing_batch`, `boot` and `runtime_silent`. Every safety property of a passing run is a theorem.

## 5. What is not modelled, and why

- The contents of the settings and Wi-Fi records: each has a key of its own and shares
  nothing with the node record but the storage task. `Runtime` has their commits as to
  outcome, reply and fault.
- The upgrade of older node records in `persist.rs`: a pure conversion of bytes, covered
  by its tests.
- A polling gap of more than an hour: `Engine` moves the clock hour by hour.
- The host's `serial_link` and `bus`, the web application, installer and bench
  scripts: programs of their own at the other end of the line.
- Cryptography (keys and tags are injective values), byte layouts, JSON, modem
  registers, the user interfaces, the Meshtastic decoder, the vendored bundle under
  `mcpb/`. Inside `Engine`, `radio_available`, labels, aliases and counters
  are left out because no property tells their values apart.

Next, in this order: the two-hop forward of `Mesh` with `RadioGate` in place of the
one-step transmission; `Boot` of the free image, which keeps the keys, as a theorem; the
host's request and reply matching against `Runtime`.

## 6. Findings

`usb_staging` violates `NonceNeverReused`. A host command
`radio_arm_next_boot` and a received message in one turn of the main loop: the
command leaves its snapshot in `usb.staged`; the message stages a newer one in
the engine; `commit` writes the older; `commit_ok` lets the event and the
acknowledgement out. The flash knows neither the accepted number nor the block
the acknowledgement used. After a power loss and a time setting within the same
hour the message is delivered again and another acknowledgement goes out under
the same key and nonce. `Engine` shows that the contract of `engine.rs` is sound
when the caller keeps it; here the caller does not.

`pairing_batch` violates `RootNeverRestarted`. In the radio image `pair_import` is
answered without a commit. A further command in the same batch of lines, say a time
setting, stages in its place; the commit writes the new contact, but `commit_ok` no
longer sees an activation and keeps the ceremony. The confirmation can then be imported a
second time, and `activate_contact` starts the sequence numbers of the same root over.
`pairing` shows that a commit after every command rules this out.

`boot` violates `KeysKept`. A record that cannot be read at boot leaves `health` at Fault
and the engine blank but unfaulted. `set_identity` stages the blank engine, and the first
turn of the radio image commits it over the keys. `storage.rs` promises that an
unreadable record "fails closed". The free image never writes what no command staged, and
keeps the record.

`runtime_silent` violates `EverySendIsReported`. The host switches the radio on, sends, and
switches the radio off while the send waits for its acknowledgement. The engine forgets the
send at once; `control_set_radio_already_staged` waits for its barrier and then sets `send`
to `None`, and the host that asked for the send never hears of it again. Block and delete
answer the send they cancel, and so does a fault. The plan promises an error for a
cancelled send, and the guide an honest report.
