----------------------------- MODULE RadioGate -----------------------------
(***************************************************************************)
(* The radio task of firmware/src/radio.rs: the policy gate (generations   *)
(* and transmit tokens), the bounded command and event queues, and the     *)
(* task that takes one command at a time while the runtime, on the same    *)
(* executor, may change the policy at every await.                         *)
(*                                                                         *)
(* The runtime appears as what it can do to this module: set the policy,   *)
(* mint a token and queue a command in one go (queue_tx, send_ack_frame,   *)
(* poll_timeouts: there is no await between sync_policy and try_send),     *)
(* drain an event, and close the gate on a Fault event.                    *)
(*                                                                         *)
(* Abstractions: a frame is its command; jitter, back-off lengths and SPI  *)
(* registers are left out; every driver call may fail.  Of the chip only   *)
(* the interrupt line is kept: select polls it before the command queue.   *)
(***************************************************************************)
EXTENDS Naturals, Sequences

CONSTANTS
    Contacts,         \* contact slots with a bit in the block mask
    NoContact,        \* contact_id = None: an opaque forward
    QueueCap,         \* RADIO_QUEUE_CAP, 8 in the code
    CadMax,           \* CAD_MAX_ATTEMPTS, 5 in the code
    GenMod,           \* generations are u32: 2^32 in the code
    MaxEdges,         \* bound: policy changes since boot
    MaxCmds,          \* bound: commands since boot (ids are u64)
    NoCmd             \* the task holds no command

ASSUME RadioAssumption ==
    /\ NoContact \notin Contacts
    /\ QueueCap \in Nat \ {0}
    /\ CadMax \in Nat \ {0}
    /\ GenMod \in Nat /\ MaxEdges \in Nat /\ MaxEdges < GenMod
    /\ MaxCmds \in Nat
    /\ NoCmd \notin [kind : {"Tx", "CadProbe", "SetEnabled", "Barrier"}, id : Nat, on : BOOLEAN,
                     contact : Contacts \union {NoContact},
                     token : [all : Nat, contact_gen : Nat, contact : Contacts \union {NoContact}]]

VARIABLES
    enabled, blocked_mask, all_gen, contact_gen,  \* POLICY_STATE
    cmds,             \* RADIO_CMD
    evts,             \* RADIO_EVT
    next_cmd,         \* the runtime's command id counter
    rf,               \* Radio.enabled
    pc,               \* where the task is
    hand,             \* the command the task holds, or NoCmd
    attempt,          \* CAD attempts of the command in hand that found activity
    result,           \* how the command in hand ended: the terminal event to send
    dio0,             \* the chip's interrupt line is high
    edges,            \* policy changes so far
    aired,            \* history: the Tx commands whose frame was triggered
    forbidden,        \* history: ids the policy forbade before their final gate
    closed_at,        \* history: next_cmd when a contact was last shut out
    fence,            \* history: the last barrier that completed
    done              \* history: ids whose terminal event was sent

policy == <<enabled, blocked_mask, all_gen, contact_gen>>
task == <<rf, pc, hand, attempt, result, dio0>>
vars == <<policy, cmds, evts, next_cmd, task, edges,
          aired, forbidden, closed_at, fence, done>>

Targets == Contacts \union {NoContact}

-----------------------------------------------------------------------------
(* The policy gate.                                                        *)

\* tx_token
TxToken(c) ==
    [all |-> all_gen,
     contact_gen |-> IF c \in Contacts THEN contact_gen[c] ELSE 0,
     contact |-> c]

\* Mutant of TokenValid: a fresh token is enough, whatever the switch says.
TokenIgnoresSwitch(c, token) ==
    /\ token.all = all_gen
    /\ token.contact = c
    /\ c \in Contacts => c \notin blocked_mask /\ token.contact_gen = contact_gen[c]

\* token_valid
TokenValid(c, token) ==
    /\ enabled
    /\ token.all = all_gen
    /\ token.contact = c
    /\ c \in Contacts => c \notin blocked_mask /\ token.contact_gen = contact_gen[c]

\* What the policy (on, mask) lets through.
Permits(on, mask, c) == on /\ c \notin mask

\* The Tx commands that have not passed their final gate.
Waiting ==
    { cmds[i] : i \in 1 .. Len(cmds) } \union (IF pc \in {"cad", "backoff"} THEN {hand} ELSE {})

\* The body of set_policy, with the history of what it shuts out.
SetPolicyTo(on, mask) ==
    /\ all_gen' = IF on /= enabled THEN (all_gen + 1) % GenMod ELSE all_gen
    /\ contact_gen' =
          [c \in Contacts |-> IF (c \in mask) /= (c \in blocked_mask)
                              THEN (contact_gen[c] + 1) % GenMod ELSE contact_gen[c]]
    /\ enabled' = on
    /\ blocked_mask' = mask
    /\ edges' = IF on /= enabled \/ mask /= blocked_mask THEN edges + 1 ELSE edges
    /\ forbidden' = forbidden \union
          { x.id : x \in { y \in Waiting : y.kind = "Tx" /\ ~Permits(on, mask, y.contact) } }
    /\ closed_at' =
          [c \in Targets |-> IF Permits(enabled, blocked_mask, c) /\ ~Permits(on, mask, c)
                             THEN next_cmd ELSE closed_at[c]]

-----------------------------------------------------------------------------
(* The runtime's side.                                                     *)

\* sync_policy: the engine's switch and block bits reach the gate.  The last edge
\* is kept for FaultSeen, which must always be able to close the gate.
SetPolicy(on, mask) ==
    /\ edges + 1 < MaxEdges
    /\ <<on, mask>> /= <<enabled, blocked_mask>>
    /\ SetPolicyTo(on, mask)
    /\ UNCHANGED <<cmds, evts, next_cmd, task, aired, fence, done>>

\* The commands; only SetEnabled looks at "on", only Tx at contact and token.
Control(kind, on) ==
    [kind |-> kind, id |-> next_cmd, on |-> on, contact |-> NoContact,
     token |-> [all |-> 0, contact_gen |-> 0, contact |-> NoContact]]
TxCmd(c) ==
    [kind |-> "Tx", id |-> next_cmd, on |-> TRUE, contact |-> c, token |-> TxToken(c)]

CanSend == Len(cmds) < QueueCap /\ next_cmd <= MaxCmds

\* RADIO_CMD.try_send with an id from alloc_cmd.
TrySend(cmd) ==
    /\ cmds' = Append(cmds, cmd)
    /\ next_cmd' = next_cmd + 1

\* The control paths and the ping queue SetEnabled, Barrier and CadProbe.
QueueControl(kind, on) ==
    /\ CanSend
    /\ TrySend(Control(kind, on))
    /\ UNCHANGED <<policy, evts, task, edges, aired, forbidden, closed_at, fence, done>>

\* queue_tx, send_ack_frame and poll_timeouts, from the minting of the token on.
QueueTx(c) ==
    /\ CanSend
    /\ TrySend(TxCmd(c))
    /\ forbidden' = IF Permits(enabled, blocked_mask, c) THEN forbidden
                    ELSE forbidden \union {next_cmd}
    /\ UNCHANGED <<policy, evts, task, edges, aired, closed_at, fence, done>>

IsFault(evt) == evt.kind = "Fault"

\* on_radio_evt of an event that changes nothing here.
DrainEvt ==
    /\ evts /= <<>>
    /\ ~IsFault(Head(evts))
    /\ evts' = Tail(evts)
    /\ UNCHANGED <<policy, cmds, next_cmd, task, edges, aired, forbidden, closed_at, fence, done>>

\* Mutant of FaultSeen: only the command is queued, the gate stays open.
FaultLeavesGate ==
    /\ evts /= <<>>
    /\ IsFault(Head(evts))
    /\ evts' = Tail(evts)
    /\ IF CanSend THEN TrySend(Control("SetEnabled", FALSE)) ELSE UNCHANGED <<cmds, next_cmd>>
    /\ UNCHANGED <<policy, task, edges, aired, forbidden, closed_at, fence, done>>

\* on_radio_evt of a Fault: fail_radio_closed shuts the gate first and then tries
\* to queue SetEnabled(false); a full queue loses that command.
FaultSeen ==
    /\ evts /= <<>>
    /\ IsFault(Head(evts))
    /\ evts' = Tail(evts)
    /\ SetPolicyTo(FALSE, blocked_mask)
    /\ IF CanSend THEN TrySend(Control("SetEnabled", FALSE)) ELSE UNCHANGED <<cmds, next_cmd>>
    /\ UNCHANGED <<task, aired, fence, done>>

-----------------------------------------------------------------------------
(* The radio task.                                                         *)

\* Mutant of TryEvt: the event is queued even when there is no room.
TryEvtUnbounded(kind) == evts' = Append(evts, [kind |-> kind, id |-> 0])

\* RADIO_EVT.try_send: dropped when the queue is full.
TryEvt(kind) ==
    evts' = IF Len(evts) < QueueCap THEN Append(evts, [kind |-> kind, id |-> 0]) ELSE evts

\* The command in hand is over; its terminal event waits for room.
Finish(outcome, attempted) ==
    /\ pc' = "report"
    /\ result' = [outcome |-> outcome, attempted |-> attempted]

\* The gate as do_tx and do_cad_probe ask it for a command.
GateOpen(on, cmd) ==
    on /\ IF cmd.kind = "Tx" THEN TokenValid(cmd.contact, cmd.token) ELSE enabled

NoResult == [outcome |-> "none", attempted |-> FALSE]

history == <<aired, forbidden, closed_at, fence, done>>
outside == <<policy, next_cmd, edges>>

\* enter_rx: the chip listens, or one of the transfers to it failed.
EnterRx ==
    \/ pc' = "rx" /\ UNCHANGED evts
    \/ pc' = "top" /\ TryEvt("Fault")

\* finish_rx: a frame, a bad frame, a fault, or a spurious wake.  When the flags cannot
\* be read or cleared it says RxCrcError and the line stays high.
FinishRx ==
    \/ ~dio0' /\ UNCHANGED evts
    \/ ~dio0' /\ \E kind \in {"RxFrame", "RxCrcError", "Fault"} : TryEvt(kind)
    \/ dio0' /\ TryEvt("RxCrcError")

\* The head of the loop in run: receive while enabled, else only take commands.
LoopTop ==
    /\ pc = "top"
    /\ \/ ~(rf /\ enabled) /\ pc' = "park" /\ UNCHANGED evts
       \/ rf /\ enabled /\ EnterRx
    /\ UNCHANGED <<outside, cmds, rf, hand, attempt, result, dio0, history>>

\* The chip has received something while the task waits or is on its way back to the
\* select (what comes while it is parked or at a command is there when it is back).
IrqRises ==
    /\ rf /\ pc \in {"top", "rx"}
    /\ ~dio0
    /\ dio0' = TRUE
    /\ UNCHANGED <<outside, cmds, evts, rf, pc, hand, attempt, result, history>>

\* The interrupt won the race.
RxIrq ==
    /\ pc = "rx" /\ dio0
    /\ pc' = "top"
    /\ dio0' \in BOOLEAN
    /\ FinishRx
    /\ UNCHANGED <<outside, cmds, rf, hand, attempt, result, history>>

\* A parked task receives from the queue; select polls the line, which is a level,
\* first and the queue only if the line is low.
TakeCmd(kind) ==
    /\ pc = "park" \/ (pc = "rx" /\ ~dio0)
    /\ cmds /= <<>>
    /\ Head(cmds).kind = kind
    /\ cmds' = Tail(cmds)
    /\ hand' = Head(cmds)

\* handle_cmd of SetEnabled: off puts the chip to sleep, which may fail.
HandleSetEnabled ==
    /\ TakeCmd("SetEnabled")
    /\ rf' = Head(cmds).on
    /\ \/ Finish("Ok", FALSE) /\ UNCHANGED evts
       \/ ~rf' /\ Finish("Failed", FALSE) /\ TryEvt("Fault")
    /\ UNCHANGED <<outside, attempt, dio0, history>>

HandleBarrier ==
    /\ TakeCmd("Barrier")
    /\ Finish("Ok", FALSE)
    /\ UNCHANGED <<outside, evts, rf, attempt, dio0, history>>

\* handle_cmd of Tx and CadProbe, as far as the first CAD.
HandleRadio(kind) ==
    /\ TakeCmd(kind)
    /\ attempt' = 0
    /\ IF GateOpen(rf, Head(cmds))
       THEN pc' = "cad" /\ UNCHANGED result
       ELSE Finish("Cancelled", FALSE)
    /\ UNCHANGED <<outside, evts, rf, dio0, history>>

\* What a CAD or a transmission that failed leaves of the line: it was cleared or not.
LineLeft == dio0' \in {FALSE, dio0}

CadFails ==
    /\ pc = "cad"
    /\ Finish("Radio", FALSE)
    /\ LineLeft
    /\ UNCHANGED <<outside, cmds, evts, rf, hand, attempt, history>>

\* cad_once heard activity: back off, or give up after the last attempt (a probe
\* that finds the channel busy has done its job).  Its interrupt was processed and
\* the line cleared.
CadBusy ==
    /\ pc = "cad"
    /\ dio0' = FALSE
    /\ IF attempt + 1 >= CadMax
       THEN /\ Finish(IF hand.kind = "Tx" THEN "ChannelBusy" ELSE "Ok", FALSE)
            /\ UNCHANGED attempt
       ELSE /\ pc' = "backoff"
            /\ attempt' = attempt + 1
            /\ UNCHANGED result
    /\ UNCHANGED <<outside, cmds, evts, rf, hand, history>>

BackoffOver ==
    /\ pc = "backoff"
    /\ IF GateOpen(rf, hand) THEN pc' = "cad" /\ UNCHANGED result ELSE Finish("Cancelled", FALSE)
    /\ UNCHANGED <<outside, cmds, evts, rf, hand, attempt, dio0, history>>

\* Mutant of FinalGate: the verdict of the gate at the last attempt is reused.
FinalGateSkipped == TRUE

\* The check of do_tx after the loop of CAD attempts.
FinalGate == GateOpen(rf, hand)

\* The channel is clear: a probe is over, a frame meets its final gate.
CadClear ==
    /\ pc = "cad"
    /\ dio0' = FALSE
    /\ IF hand.kind = "Tx"
       THEN IF FinalGate
            THEN pc' = "prepare" /\ UNCHANGED result
            ELSE Finish("Cancelled", FALSE)
       ELSE Finish("Ok", FALSE)
    /\ UNCHANGED <<outside, cmds, evts, rf, hand, attempt, history>>

PrepareFails ==
    /\ pc = "prepare"
    /\ Finish("Radio", FALSE)
    /\ UNCHANGED <<outside, cmds, evts, rf, hand, attempt, dio0, history>>

\* tx_prepare is done and tx_wait pulls the trigger.
Trigger ==
    /\ pc = "prepare"
    /\ pc' = "air"
    /\ aired' = aired \union {hand}
    /\ UNCHANGED <<outside, cmds, evts, rf, hand, attempt, result, dio0,
                   forbidden, closed_at, fence, done>>

\* Mutant of AirDone: a transmission that times out was not attempted.
AirDoneUnattempted ==
    /\ pc = "air"
    /\ \E outcome \in {"Ok", "Radio"} : Finish(outcome, outcome = "Ok")
    /\ LineLeft
    /\ UNCHANGED <<outside, cmds, evts, rf, hand, attempt, history>>

\* The transmission ends, or its interrupt never comes within the time-out.
AirDone ==
    /\ pc = "air"
    /\ \E outcome \in {"Ok", "Radio"} : Finish(outcome, TRUE)
    /\ LineLeft
    /\ UNCHANGED <<outside, cmds, evts, rf, hand, attempt, history>>

\* RADIO_EVT.send().await of the one terminal event.
Report ==
    /\ pc = "report"
    /\ Len(evts) < QueueCap
    /\ evts' = Append(evts, [kind |-> hand.kind, id |-> hand.id])
    /\ done' = done \union {hand.id}
    /\ fence' = IF hand.kind = "Barrier" THEN hand.id ELSE fence
    /\ pc' = "top"
    /\ hand' = NoCmd
    /\ result' = NoResult
    /\ attempt' = 0
    /\ UNCHANGED <<outside, cmds, rf, dio0, aired, forbidden, closed_at>>

-----------------------------------------------------------------------------
Init ==
    /\ enabled = FALSE /\ blocked_mask = {}
    /\ all_gen = 0 /\ contact_gen = [c \in Contacts |-> 0]
    /\ cmds = <<>> /\ evts = <<>> /\ next_cmd = 1
    /\ rf = FALSE /\ pc = "top" /\ hand = NoCmd /\ attempt = 0 /\ result = NoResult
    /\ dio0 = FALSE
    /\ edges = 0
    /\ aired = {} /\ forbidden = {} /\ done = {} /\ fence = 0
    /\ closed_at = [c \in Targets |-> 1]

RuntimeStep ==
    \/ \E on \in BOOLEAN, mask \in SUBSET Contacts : SetPolicy(on, mask)
    \/ \E c \in Targets : QueueTx(c)
    \/ \E on \in BOOLEAN : QueueControl("SetEnabled", on)
    \/ \E kind \in {"Barrier", "CadProbe"} : QueueControl(kind, TRUE)

TakeStep ==
    \/ HandleSetEnabled
    \/ HandleBarrier
    \/ \E kind \in {"Tx", "CadProbe"} : HandleRadio(kind)

WorkStep ==
    \/ LoopTop \/ RxIrq
    \/ CadFails \/ CadBusy \/ BackoffOver \/ CadClear
    \/ PrepareFails \/ Trigger \/ AirDone
    \/ Report

Next == RuntimeStep \/ DrainEvt \/ FaultSeen \/ IrqRises \/ TakeStep \/ WorkStep

Spec == Init /\ [][Next]_vars

\* The executor polls the task and the main loop again and again; nothing is assumed of
\* the chip and the air (IrqRises).  A select that is entered with the line low and a
\* command queued takes the command in its first poll; an interrupt that rises before
\* that poll may win again and again in the model, not in the code: strong fairness
\* for TakeStep, which a high line disables.
Fairness ==
    /\ WF_vars(WorkStep)
    /\ SF_vars(TakeStep)
    /\ WF_vars(DrainEvt \/ FaultSeen)

FairSpec == Spec /\ Fairness

-----------------------------------------------------------------------------
(* Properties.                                                             *)

Kinds == {"Tx", "CadProbe", "SetEnabled", "Barrier"}
Tokens == [all : Nat, contact_gen : Nat, contact : Targets]
Commands == [kind : Kinds, id : Nat, on : BOOLEAN, contact : Targets, token : Tokens]
Events == [kind : Kinds \union {"RxFrame", "RxCrcError", "Fault"}, id : Nat]
Outcomes == {"none", "Ok", "Failed", "Radio", "ChannelBusy", "Cancelled"}

\* Every variable holds a value of its type, generations stay below their width,
\* and neither queue outgrows its capacity (RADIO_QUEUE_CAP).
TypeOK ==
    /\ enabled \in BOOLEAN /\ blocked_mask \in SUBSET Contacts
    /\ all_gen \in 0 .. GenMod - 1 /\ contact_gen \in [Contacts -> 0 .. GenMod - 1]
    /\ cmds \in Seq(Commands) /\ Len(cmds) <= QueueCap
    /\ evts \in Seq(Events) /\ Len(evts) <= QueueCap
    /\ next_cmd \in Nat \ {0}
    /\ rf \in BOOLEAN /\ dio0 \in BOOLEAN
    /\ pc \in {"top", "park", "rx", "cad", "backoff", "prepare", "air", "report"}
    /\ hand \in Commands \union {NoCmd}
    /\ attempt \in Nat
    /\ result \in [outcome : Outcomes, attempted : BOOLEAN]
    /\ edges \in 0 .. MaxEdges
    /\ aired \subseteq Commands
    /\ forbidden \subseteq Nat /\ done \subseteq Nat /\ fence \in Nat
    /\ closed_at \in [Targets -> Nat]

\* A frame that the policy forbade at any moment between its queueing and its
\* final gate never goes on the air, even if the radio was switched back on or
\* the contact unblocked in the meantime ("on/unblock never revives old tokens").
ForbiddenNeverAired == \A x \in aired : x.id \notin forbidden

\* Once a barrier queued after the radio was switched off, or after a contact was
\* blocked, has completed, no frame goes on the air that the policy forbids: the
\* reply to radio_set and to block may be believed (run, Barrier, do_tx).
SilentAfterBarrier ==
    [][\A x \in aired' \ aired :
          ~Permits(enabled, blocked_mask, x.contact) => fence < closed_at[x.contact]]_vars

\* The terminal event of a command says attempted exactly if its frame was
\* triggered, and one that was cancelled or met a busy channel was not (do_tx).
AttemptedTruthful ==
    pc = "report" =>
        /\ result.attempted <=> hand \in aired
        /\ result.outcome \in {"Cancelled", "ChannelBusy"} => hand \notin aired

\* From some time on every select finds the line high: the chip never lets it go
\* (RxCrcError is no Fault, so nobody closes the gate), or there is always one more
\* frame by the time the last one is dealt with.
LineNeverLow ==
    /\ []<>(pc = "rx")
    /\ <>[](pc = "rx" => dio0)

\* "every command gets exactly one correlated terminal event", whatever faults, frames
\* and policy changes come in between, unless the interrupt line starves the queue:
\* the one way run never gets to RADIO_CMD.
EveryCommandEnds ==
    LineNeverLow \/ []<>(\A n \in 1 .. MaxCmds : n < next_cmd => n \in done)

-----------------------------------------------------------------------------
(***************************************************************************)
(* The inductive invariant behind the properties.  A command that has not  *)
(* met its final gate is younger than everything aired and fenced, and if  *)
(* it was ever forbidden then its token is dead: it is forbidden still, or *)
(* a generation has moved on since the token was minted.                   *)
(***************************************************************************)

Working == {"cad", "backoff", "prepare", "air", "report"}

\* Generations have not wrapped, and FaultSeen has an edge left to close with.
GenInv ==
    /\ all_gen <= edges
    /\ \A c \in Contacts : contact_gen[c] <= edges
    /\ enabled => edges < MaxEdges

HandInv ==
    /\ hand /= NoCmd <=> pc \in Working
    /\ pc \in {"prepare", "air"} => hand.kind = "Tx"

\* x is older than what is still to be queued and younger than all that is over.
Young(x) ==
    /\ x.id < next_cmd
    /\ fence < x.id
    /\ \A y \in aired : y.id < x.id

OrderInv ==
    /\ fence < next_cmd
    /\ \A n \in forbidden : n < next_cmd
    /\ \A x \in aired : x.id < next_cmd
    /\ \A i \in 1 .. Len(cmds) : Young(cmds[i])
    /\ \A i, j \in 1 .. Len(cmds) : i < j => cmds[i].id < cmds[j].id
    /\ pc \in Working => hand.id < next_cmd /\ fence < hand.id
    /\ pc \in Working => \A i \in 1 .. Len(cmds) : hand.id < cmds[i].id
    /\ pc \in {"cad", "backoff", "prepare"} => Young(hand)

\* No gate will ever let x through again.
Dead(x) ==
    \/ x.token.all < all_gen
    \/ x.contact \in Contacts /\ x.token.contact_gen < contact_gen[x.contact]
    \/ ~Permits(enabled, blocked_mask, x.contact)

Minted(x) ==
    x.kind = "Tx" =>
        /\ x.token.all <= all_gen
        /\ x.contact \in Contacts => x.token.contact_gen <= contact_gen[x.contact]
        /\ x.id \in forbidden => Dead(x)

TokenInv ==
    /\ \A i \in 1 .. Len(cmds) : Minted(cmds[i])
    /\ pc \in {"cad", "backoff"} => Minted(hand)

\* A frame past its gate was permitted then: what forbids it now came later.
PassedInv ==
    pc = "prepare" =>
        /\ hand.id \notin forbidden
        /\ ~Permits(enabled, blocked_mask, hand.contact) => hand.id < closed_at[hand.contact]

AirInv ==
    /\ pc = "air" => hand \in aired
    /\ AttemptedTruthful
    /\ ForbiddenNeverAired

\* What the properties of the gate rest on.
IndInv ==
    /\ TypeOK
    /\ GenInv
    /\ HandInv
    /\ OrderInv
    /\ TokenInv
    /\ PassedInv
    /\ AirInv
=============================================================================
