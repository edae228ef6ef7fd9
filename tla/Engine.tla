------------------------------- MODULE Engine -------------------------------
(***************************************************************************)
(* The secure node engine of mesh-node/src/engine.rs with the record it    *)
(* persists, under the durability contract of its header: the caller       *)
(* commits the staged snapshot, tells the engine (commit_ok), and only     *)
(* then lets the frame or the event out.  The board may lose power between *)
(* any two steps, and a write that is cut short or reported as failed may  *)
(* or may not have reached the flash.                                      *)
(*                                                                         *)
(* Abstractions.                                                           *)
(*  - A pair root is a number; a finished pairing ceremony yields a number *)
(*    never used before (X25519 with fresh ephemeral keys).  The ceremony  *)
(*    itself is not in this module.                                        *)
(*  - The hourly key is a function of root, direction and epoch, the nonce *)
(*    of epoch and sequence, so an outgoing frame's key and nonce are its  *)
(*    (root, epoch, sequence).  What it carries is a member of Bodies.     *)
(*  - Trusted time is kept to the hour (the epoch); a correction inside    *)
(*    the hour changes nothing here.                                       *)
(*  - Frames that no contact authenticates are relayed opaquely and touch  *)
(*    none of this state.                                                  *)
(***************************************************************************)
EXTENDS Integers, ReplayWindowOps

CONSTANTS
    Contacts,         \* the contact slots
    Block,            \* SEQ_RESERVE_BLOCK, 32 in the code
    SeqMax,           \* the largest sequence number, u64::MAX in the code
    EpochMax,         \* the largest epoch, u32::MAX in the code
    Bodies,           \* what a frame carries: text or ACK reference, and packet id
    RxSeqs,           \* sequence numbers the peers use
    MaxRoots,         \* bound: pairing ceremonies completed
    NoSend,           \* pending_send = None
    NoStage           \* staged = None

ASSUME EngineAssumption ==
    /\ Block \in Nat \ {0}
    /\ SeqMax \in Nat
    /\ EpochMax \in Nat
    /\ MaxRoots \in Nat
    /\ NoSend \notin [contact : Contacts, epoch : 0 .. EpochMax, seq : Nat, body : Bodies]
    /\ RxSeqs \subseteq Nat

VARIABLES
    provisioned,      \* this board has its signing key
    radio_on,         \* the RF switch; pairing needs it off
    time_valid,       \* trusted time was set since boot
    now,              \* the epoch of unix_seconds
    contacts,         \* RAM: the contact in each slot
    persisted_tx_epoch,  \* RAM: highest epoch ever transmitted in
    pending_send,     \* the DATA in flight, with pending_text, or NoSend
    fault,            \* storage failed: endpoint operation is over until reboot
    staged,           \* the StagedCommit waiting for the caller, or NoStage
    scratch,          \* persist_scratch: the staged snapshot (blank once it is not read)
    flash,            \* the durable record
    caller,           \* where the caller is: "idle", "commit" or "emit"
    after,            \* what the caller does once the commit succeeds
    air,              \* history: every frame handed to the radio
    delivered,        \* history: every DATA reported to the host
    roots             \* pairing ceremonies completed so far

ram == <<provisioned, radio_on, time_valid, now, contacts, persisted_tx_epoch,
         pending_send, fault>>
persist == <<staged, scratch, flash>>
history == <<air, delivered, roots>>
vars == <<ram, persist, caller, after, history>>

-----------------------------------------------------------------------------
(* Epochs and receive windows (clock.rs, AnchorHours of security.rs).      *)

Epochs == 0 .. EpochMax

\* AnchorHours::slots: the retained epochs around an anchor, saturating.
Slots(anchor) == { e \in Epochs : anchor <= e + 1 /\ e <= anchor + 1 }

\* clock::in_accept_window
InAcceptWindow(e, local) == e <= local + 1 /\ local <= e + 1

\* A contact has one DATA and one ACK window for each retained epoch (win_epochs
\* is Slots(anchor)); here they are functions on all epochs, empty elsewhere.
Fresh == [s \in Epochs |-> NewWindow]

\* Mutant of AdvanceWindows: an epoch retained across the move starts empty too.
AdvanceForgets(w, anchor, e) == Fresh

\* The windows after set_time_confirmed moves the anchor: an epoch retained before
\* and after keeps its window, the others are dropped or start empty.
AdvanceWindows(w, anchor, e) ==
    [s \in Epochs |-> IF s \in Slots(anchor) \intersect Slots(e) THEN w[s] ELSE NewWindow]

\* Engine::epoch
Epoch == IF time_valid THEN now ELSE 0

-----------------------------------------------------------------------------
(* Contacts and the persisted record.                                      *)

\* Contact::empty
EmptyContact ==
    [present |-> FALSE, blocked |-> FALSE, root |-> 0,
     tx_next |-> 0, tx_reserved |-> 0, tx_epoch_max |-> 0,
     anchor |-> 0, win_data |-> Fresh, win_ack |-> Fresh]

\* activate_contact
NewContact(root, epoch) ==
    [present |-> TRUE, blocked |-> FALSE, root |-> root,
     tx_next |-> 0, tx_reserved |-> 0, tx_epoch_max |-> 0,
     anchor |-> epoch, win_data |-> Fresh, win_ack |-> Fresh]

\* StagedCommit.  Only TxReserve carries something the record or commit_ok needs.
Stage(op) == [op |-> op]
TxReserve(slot, new_reserved) ==
    [op |-> "TxReserve", slot |-> slot, new_reserved |-> new_reserved]

\* The contacts with the reservation that is being staged.
Reserve(cs, op) ==
    IF op.op = "TxReserve" THEN [cs EXCEPT ![op.slot].tx_reserved = op.new_reserved] ELSE cs

\* Mutant of PersistView: the record lacks the reservation being staged.
PersistWithoutReserve(prov, epoch, cs, op) ==
    [provisioned |-> prov, tx_epoch |-> epoch, contacts |-> cs]

\* persist_view: the RAM state, as it will be once the commit succeeds.
PersistView(prov, epoch, cs, op) ==
    [provisioned |-> prov, tx_epoch |-> epoch, contacts |-> Reserve(cs, op)]

\* What persist::decode_view requires of a contact in a record it accepts.
Decodable(record) ==
    \A c \in Contacts :
        LET pc == record.contacts[c] IN
        /\ pc.tx_next <= pc.tx_reserved
        /\ \A s \in Epochs : WellFormed(pc.win_data[s]) /\ WellFormed(pc.win_ack[s])
        /\ ~pc.present => /\ ~pc.blocked /\ pc.root = 0 /\ pc.anchor = 0
                          /\ pc.tx_next = 0 /\ pc.tx_reserved = 0 /\ pc.tx_epoch_max = 0

\* The contact Engine::restore builds: the whole reserved block is skipped.
RestoreContact(pc) ==
    IF ~pc.present THEN EmptyContact
    ELSE [pc EXCEPT
            !.tx_next  = IF pc.tx_reserved >= pc.tx_next THEN pc.tx_reserved ELSE pc.tx_next,
            !.tx_reserved = IF pc.tx_reserved >= pc.tx_next THEN pc.tx_reserved ELSE pc.tx_next,
            !.win_data = [s \in Epochs |-> RestoreWindow(pc.win_data[s])],
            !.win_ack  = [s \in Epochs |-> RestoreWindow(pc.win_ack[s])]]

\* The record a board without one starts from: Engine::new.
BlankRecord ==
    [provisioned |-> FALSE, tx_epoch |-> 0, contacts |-> [c \in Contacts |-> EmptyContact]]

-----------------------------------------------------------------------------
(* Frames.                                                                 *)

Frame(c, epoch, seq, body) ==
    [root |-> contacts[c].root, epoch |-> epoch, seq |-> seq, body |-> body]

\* The DATA frame of the send in flight, the same whenever it is built.
DataFrame(ps) == Frame(ps.contact, ps.epoch, ps.seq, ps.body)

\* What was received, for the purpose of at-most-once delivery.
Key(c, e, s) == [root |-> contacts[c].root, epoch |-> e, seq |-> s]

-----------------------------------------------------------------------------
(* Staging and the caller.                                                 *)

Nothing == [emit |-> FALSE, complete |-> FALSE, frames |-> {}, events |-> {}]

\* check_usable
Usable == ~fault /\ provisioned

Max2(a, b) == IF a >= b THEN a ELSE b

\* stage_persist, after which the caller owes a commit and then what "then" says.
StagePersist(op, prov, epoch, cs, then) ==
    /\ staged' = op
    /\ scratch' = PersistView(prov, epoch, cs, op)
    /\ caller' = "commit"
    /\ after' = then
    /\ UNCHANGED flash

Init ==
    /\ provisioned = FALSE
    /\ radio_on = FALSE
    /\ time_valid = FALSE
    /\ now = 0
    /\ contacts = BlankRecord.contacts
    /\ persisted_tx_epoch = 0
    /\ pending_send = NoSend
    /\ fault = FALSE
    /\ staged = NoStage
    /\ scratch = BlankRecord
    /\ flash = BlankRecord
    /\ caller = "idle"
    /\ after = Nothing
    /\ air = {}
    /\ delivered = {}
    /\ roots = 0

-----------------------------------------------------------------------------
(* Administrative operations.                                              *)

Provision ==
    /\ caller = "idle"
    /\ ~fault /\ ~provisioned
    /\ provisioned' = TRUE
    /\ StagePersist(Stage("Provision"), TRUE, persisted_tx_epoch, contacts, Nothing)
    /\ UNCHANGED <<radio_on, time_valid, now, contacts, persisted_tx_epoch,
                   pending_send, fault, history>>

\* Mutant of TimeFloorOK: only the anchors of present contacts count.
TimeFloorAnchors(e) == \A c \in Contacts : contacts[c].present => e >= contacts[c].anchor

\* The floor below which trusted time may not move.
TimeFloorOK(e) ==
    /\ e >= persisted_tx_epoch
    /\ \A c \in Contacts : contacts[c].present => e >= contacts[c].anchor

AdvanceContact(ct, e) ==
    IF ct.present
    THEN [ct EXCEPT !.anchor = e,
                    !.win_data = AdvanceWindows(ct.win_data, ct.anchor, e),
                    !.win_ack = AdvanceWindows(ct.win_ack, ct.anchor, e)]
    ELSE ct

MoveTime(e) ==
    LET cs == [c \in Contacts |-> AdvanceContact(contacts[c], e)] IN
    /\ now' = e
    /\ time_valid' = TRUE
    /\ contacts' = cs
    /\ StagePersist(Stage("Time"), provisioned, persisted_tx_epoch, cs, Nothing)
    /\ UNCHANGED <<provisioned, radio_on, persisted_tx_epoch, pending_send, fault, history>>

\* The host sets the time; a jump past the next hour needs confirmation.
SetTimeConfirmed(e, confirmed) ==
    /\ caller = "idle"
    /\ ~fault
    /\ TimeFloorOK(e)
    /\ confirmed \/ ~time_valid \/ e <= now + 1
    /\ MoveTime(e)

\* advance_time across an hour boundary: set_time of the next hour.
AdvanceTime ==
    /\ caller = "idle"
    /\ ~fault /\ time_valid
    /\ now + 1 \in Epochs
    /\ TimeFloorOK(now + 1)
    /\ MoveTime(now + 1)

\* Mutant of AdvanceTimeFails: the hour counter runs past its range.
AdvanceTimeOverflows ==
    /\ caller = "idle"
    /\ ~fault /\ time_valid
    /\ now + 1 \notin Epochs
    /\ now' = now + 1
    /\ UNCHANGED <<provisioned, radio_on, time_valid, contacts, persisted_tx_epoch,
                   pending_send, fault, persist, caller, after, history>>

\* advance_time past the last representable hour gives the time up.
AdvanceTimeFails ==
    /\ caller = "idle"
    /\ ~fault /\ time_valid
    /\ now + 1 \notin Epochs
    /\ time_valid' = FALSE
    /\ UNCHANGED <<provisioned, radio_on, now, contacts, persisted_tx_epoch,
                   pending_send, fault, persist, caller, after, history>>

SetRadio(enabled) ==
    /\ caller = "idle"
    /\ ~fault
    /\ radio_on' = enabled
    /\ pending_send' = IF enabled THEN pending_send ELSE NoSend
    /\ StagePersist(Stage("None"), provisioned, persisted_tx_epoch, contacts, Nothing)
    /\ UNCHANGED <<provisioned, time_valid, now, contacts, persisted_tx_epoch, fault, history>>

\* import_confirm of a ceremony that ends well: a free slot gets a fresh root.
PairActivate(c) ==
    LET cs == [contacts EXCEPT ![c] = NewContact(roots + 1, Epoch)] IN
    /\ caller = "idle"
    /\ Usable
    /\ ~radio_on
    /\ ~contacts[c].present
    /\ roots < MaxRoots
    /\ roots' = roots + 1
    /\ contacts' = cs
    /\ StagePersist(Stage("PairActivate"), provisioned, persisted_tx_epoch, cs, Nothing)
    /\ UNCHANGED <<provisioned, radio_on, time_valid, now, persisted_tx_epoch,
                   pending_send, fault, air, delivered>>

\* pair_cancel also drops a send in flight.
PairCancel ==
    /\ caller = "idle"
    /\ pending_send /= NoSend
    /\ pending_send' = NoSend
    /\ UNCHANGED <<provisioned, radio_on, time_valid, now, contacts, persisted_tx_epoch,
                   fault, persist, caller, after, history>>

\* Mutant of UnlessTo: the send in flight survives.
KeepSend(c) == pending_send

\* The send in flight if it is not to c.
UnlessTo(c) == IF pending_send /= NoSend /\ pending_send.contact = c THEN NoSend ELSE pending_send

DeleteContact(c) ==
    LET cs == [contacts EXCEPT ![c] = EmptyContact] IN
    /\ caller = "idle"
    /\ Usable
    /\ contacts[c].present
    /\ contacts' = cs
    /\ pending_send' = UnlessTo(c)
    /\ StagePersist(Stage("None"), provisioned, persisted_tx_epoch, cs, Nothing)
    /\ UNCHANGED <<provisioned, radio_on, time_valid, now, persisted_tx_epoch, fault, history>>

SetBlocked(c, blocked) ==
    LET cs == [contacts EXCEPT ![c].blocked = blocked] IN
    /\ caller = "idle"
    /\ Usable
    /\ contacts[c].present
    /\ contacts' = cs
    /\ pending_send' = IF blocked THEN UnlessTo(c) ELSE pending_send
    /\ StagePersist(Stage("None"), provisioned, persisted_tx_epoch, cs, Nothing)
    /\ UNCHANGED <<provisioned, radio_on, time_valid, now, persisted_tx_epoch, fault, history>>

-----------------------------------------------------------------------------
(* Transmit path.                                                          *)

\* The next number is outside the durably reserved block.
Exhausted(ct) == ct.tx_next >= ct.tx_reserved

\* checked_add of one more block
CanReserve(ct) == ct.tx_next + Block <= SeqMax

\* Mutants of TakeNumber: the number, or the epoch, is not recorded.
TakeEpochOnly(ct, epoch) == [ct EXCEPT !.tx_epoch_max = Max2(ct.tx_epoch_max, epoch)]
TakeNumberOnly(ct, epoch) == [ct EXCEPT !.tx_next = ct.tx_next + 1]

\* The contact once number tx_next is used in an epoch.
TakeNumber(ct, epoch) ==
    [ct EXCEPT !.tx_next = ct.tx_next + 1, !.tx_epoch_max = Max2(ct.tx_epoch_max, epoch)]

SendBegin(c, body) ==
    LET ct == contacts[c]
        op == IF Exhausted(ct) THEN TxReserve(c, ct.tx_next + Block) ELSE Stage("None")
    IN
    /\ caller = "idle"
    /\ Usable
    /\ time_valid
    /\ ct.present /\ ~ct.blocked
    /\ pending_send = NoSend
    /\ Epoch >= ct.tx_epoch_max
    /\ Exhausted(ct) => CanReserve(ct)
    /\ pending_send' = [contact |-> c, epoch |-> Epoch, seq |-> ct.tx_next, body |-> body]
    /\ StagePersist(op, provisioned, persisted_tx_epoch, contacts, [Nothing EXCEPT !.emit = TRUE])
    /\ UNCHANGED <<provisioned, radio_on, time_valid, now, contacts, persisted_tx_epoch,
                   fault, history>>

\* The conditions under which send_emit encrypts rather than fails.
EmitAllowed ==
    /\ staged = NoStage
    /\ pending_send /= NoSend
    /\ LET ct == contacts[pending_send.contact] IN
       /\ ct.present
       /\ ct.tx_next = pending_send.seq
       /\ pending_send.seq < ct.tx_reserved
       /\ pending_send.epoch >= ct.tx_epoch_max

SendEmit ==
    LET ps == pending_send
        cs == [contacts EXCEPT ![ps.contact] = TakeNumber(@, ps.epoch)]
        epoch == Max2(persisted_tx_epoch, ps.epoch)
    IN
    /\ caller = "emit"
    /\ EmitAllowed
    /\ contacts' = cs
    /\ persisted_tx_epoch' = epoch
    /\ StagePersist(Stage("None"), provisioned, epoch, cs,
                    [Nothing EXCEPT !.frames = {DataFrame(ps)}])
    /\ UNCHANGED <<provisioned, radio_on, time_valid, now, pending_send, fault, history>>

\* send_retry_echo: the same bytes again, nothing to persist.
SendRetryEcho ==
    /\ caller = "idle"
    /\ pending_send /= NoSend
    /\ contacts[pending_send.contact].present
    /\ air' = air \union {DataFrame(pending_send)}
    /\ UNCHANGED <<ram, persist, caller, after, delivered, roots>>

\* send_complete, when the caller gives the send up.
SendComplete ==
    /\ caller = "idle"
    /\ pending_send /= NoSend
    /\ pending_send' = NoSend
    /\ UNCHANGED <<provisioned, radio_on, time_valid, now, contacts, persisted_tx_epoch,
                   fault, persist, caller, after, history>>

-----------------------------------------------------------------------------
(* Receive path: on_frame for a frame some contact authenticates.          *)

CanReceive(c, e) ==
    /\ caller = "idle"
    /\ Usable
    /\ time_valid
    /\ InAcceptWindow(e, Epoch)
    /\ contacts[c].present /\ ~contacts[c].blocked
    /\ e \in Slots(contacts[c].anchor)

\* build_ack on the contacts cs, whose staged operation was op: the ACK takes the
\* next number of the same sequence space as DATA, reserving a block if needed.
BuildAck(c, cs, op, ack, events) ==
    LET ct == cs[c]
        taken == [cs EXCEPT ![c] = TakeNumber(ct, Epoch)]
        epoch == Max2(persisted_tx_epoch, Epoch)
    IN
    IF Exhausted(ct) /\ ~CanReserve(ct)
    THEN /\ contacts' = cs
         /\ UNCHANGED persisted_tx_epoch
         /\ StagePersist(op, provisioned, persisted_tx_epoch, cs,
                         [Nothing EXCEPT !.events = events])
    ELSE /\ contacts' = taken
         /\ persisted_tx_epoch' = epoch
         /\ StagePersist(IF Exhausted(ct) THEN TxReserve(c, ct.tx_next + Block)
                         ELSE Stage("RxAccept"),
                         provisioned, epoch, taken,
                         [Nothing EXCEPT !.frames = {Frame(c, Epoch, ct.tx_next, ack)},
                                         !.events = events])

\* A DATA frame (e, s) arrives; the ACK that answers it carries ack.
OnData(c, e, s, ack) ==
    LET w  == contacts[c].win_data[e]
        cs == [contacts EXCEPT ![c].win_data[e] = Accept(w, s)]
    IN
    /\ CanReceive(c, e)
    /\ \/ /\ Verdict(w, s) = "Accepted"
          /\ BuildAck(c, cs, Stage("RxAccept"), ack, {Key(c, e, s)})
       \/ /\ Verdict(w, s) = "Duplicate"
          /\ BuildAck(c, contacts, Stage("None"), ack, {})
    /\ UNCHANGED <<provisioned, radio_on, time_valid, now, pending_send, fault, history>>

\* An ACK frame (e, s) arrives, referring to the send in flight or to another one.
OnAck(c, e, s, matches) ==
    LET w  == contacts[c].win_ack[e]
        cs == [contacts EXCEPT ![c].win_ack[e] = Accept(w, s)]
    IN
    /\ CanReceive(c, e)
    /\ matches => pending_send /= NoSend /\ pending_send.contact = c
    /\ Verdict(w, s) = "Accepted"
    /\ contacts' = cs
    /\ StagePersist(Stage("RxAccept"), provisioned, persisted_tx_epoch, cs,
                    [Nothing EXCEPT !.complete = matches])
    /\ UNCHANGED <<provisioned, radio_on, time_valid, now, persisted_tx_epoch,
                   pending_send, fault, history>>

-----------------------------------------------------------------------------
(* The commit, its failure, and the loss of power.                         *)

\* Mutant of ApplyStaged: the reservation is durable but never applied in RAM.
ApplyNothing == UNCHANGED contacts

\* commit_ok: a staged reservation takes effect.
ApplyStaged == contacts' = Reserve(contacts, staged)

\* The record is durable: the engine applies it and the effects become visible.
Commit(record) ==
    /\ caller = "commit"
    /\ flash' = record
    /\ ApplyStaged
    /\ staged' = NoStage
    /\ scratch' = BlankRecord
    /\ pending_send' = IF after.complete THEN NoSend ELSE pending_send
    /\ air' = air \union after.frames
    /\ delivered' = delivered \union after.events
    /\ caller' = IF after.emit THEN "emit" ELSE "idle"
    /\ after' = Nothing
    /\ UNCHANGED <<provisioned, radio_on, time_valid, now, persisted_tx_epoch, fault, roots>>

CommitOk == Commit(scratch)

\* What a write leaves behind when it fails or is cut short: the map storage keeps
\* the old item readable until the new one is complete.
TornWrite(record) == flash' \in {flash, record}

\* Mutant of CommitFails: the effects become visible although the write failed.
CommitFailsVisibly ==
    /\ caller = "commit"
    /\ TornWrite(scratch)
    /\ staged' = NoStage
    /\ scratch' = BlankRecord
    /\ pending_send' = NoSend
    /\ fault' = TRUE
    /\ caller' = "idle"
    /\ air' = air \union after.frames
    /\ delivered' = delivered \union after.events
    /\ after' = Nothing
    /\ UNCHANGED <<provisioned, radio_on, time_valid, now, contacts, persisted_tx_epoch, roots>>

\* discard_staged and mark_fault
CommitFault(record) ==
    /\ caller = "commit"
    /\ TornWrite(record)
    /\ staged' = NoStage
    /\ scratch' = BlankRecord
    /\ pending_send' = NoSend
    /\ fault' = TRUE
    /\ caller' = "idle"
    /\ after' = Nothing
    /\ UNCHANGED <<provisioned, radio_on, time_valid, now, contacts, persisted_tx_epoch,
                   history>>

CommitFails == CommitFault(scratch)

\* Power is lost, possibly while a record is being written, and the board boots:
\* Engine::restore of whatever the flash then holds.
Boot(record) ==
    /\ IF caller = "commit" THEN TornWrite(record) ELSE UNCHANGED flash
    /\ Decodable(flash')
    /\ provisioned' = flash'.provisioned
    /\ radio_on' = FALSE
    /\ time_valid' = FALSE
    /\ now' = 0
    /\ contacts' = [c \in Contacts |-> RestoreContact(flash'.contacts[c])]
    /\ persisted_tx_epoch' = flash'.tx_epoch
    /\ pending_send' = NoSend
    /\ fault' = FALSE
    /\ staged' = NoStage
    /\ scratch' = BlankRecord
    /\ caller' = "idle"
    /\ after' = Nothing
    /\ UNCHANGED history

Reboot == Boot(scratch)

Next ==
    \/ Provision
    \/ \E e \in Epochs, confirmed \in BOOLEAN : SetTimeConfirmed(e, confirmed)
    \/ AdvanceTime
    \/ AdvanceTimeFails
    \/ \E enabled \in BOOLEAN : SetRadio(enabled)
    \/ PairCancel
    \/ \E c \in Contacts :
          \/ PairActivate(c)
          \/ DeleteContact(c)
          \/ \E blocked \in BOOLEAN : SetBlocked(c, blocked)
          \/ \E body \in Bodies : SendBegin(c, body)
          \/ \E e \in Epochs, s \in RxSeqs :
                \/ \E ack \in Bodies : OnData(c, e, s, ack)
                \/ \E matches \in BOOLEAN : OnAck(c, e, s, matches)
    \/ SendEmit
    \/ SendRetryEcho
    \/ SendComplete
    \/ CommitOk
    \/ CommitFails
    \/ Reboot

Spec == Init /\ [][Next]_vars

-----------------------------------------------------------------------------
(* Properties.                                                             *)

Contact ==
    [present : BOOLEAN, blocked : BOOLEAN, root : Nat,
     tx_next : Nat, tx_reserved : Nat, tx_epoch_max : Epochs, anchor : Epochs,
     win_data : [Epochs -> ReplayWindow], win_ack : [Epochs -> ReplayWindow]]

Record == [provisioned : BOOLEAN, tx_epoch : Epochs, contacts : [Contacts -> Contact]]

Sending == [contact : Contacts, epoch : Epochs, seq : Nat, body : Bodies]

Frames == [root : Nat, epoch : Epochs, seq : Nat, body : Bodies]

Keys == [root : Nat, epoch : Epochs, seq : Nat]

Staged ==
    [op : {"None", "Provision", "Time", "PairActivate", "RxAccept"}]
        \union [op : {"TxReserve"}, slot : Contacts, new_reserved : Nat]

After ==
    [emit : BOOLEAN, complete : BOOLEAN, frames : SUBSET Frames, events : SUBSET Keys]

\* Every variable holds a value of the kind the struct Engine declares.
TypeOK ==
    /\ provisioned \in BOOLEAN /\ radio_on \in BOOLEAN
    /\ time_valid \in BOOLEAN /\ fault \in BOOLEAN
    /\ now \in Epochs /\ persisted_tx_epoch \in Epochs
    /\ contacts \in [Contacts -> Contact]
    /\ pending_send \in Sending \union {NoSend}
    /\ staged \in Staged \union {NoStage}
    /\ scratch \in Record /\ flash \in Record
    /\ caller \in {"idle", "commit", "emit"}
    /\ after \in After
    /\ air \subseteq Frames /\ delivered \subseteq Keys
    /\ roots \in Nat

\* Two different frames never go out under one key and nonce, whatever is sent,
\* acknowledged, deleted, re-paired, torn or rebooted in between: the promise
\* of the block reservation (send_begin, build_ack, restore).
NonceNeverReused ==
    \A f, g \in air :
        f.root = g.root /\ f.epoch = g.epoch /\ f.seq = g.seq => f = g

\* A message the host was given is never given to it again: no event waiting for
\* its commit was delivered before, not even before a power loss (on_frame).
NeverRedelivered == after.events \intersect delivered = {}

\* An engine with the contacts cs would refuse the message k.
Refuses(cs, k) ==
    \A c \in Contacts :
        LET pc == cs[c] IN
        pc.present /\ pc.root = k.root
            => \/ k.epoch < pc.anchor /\ k.epoch \notin Slots(pc.anchor)
               \/ k.epoch \in Slots(pc.anchor) /\ Verdict(pc.win_data[k.epoch], k.seq) /= "Accepted"

\* Delivery is durable before it is visible: the flash refuses every message the
\* host has already been given ("Commit reception BEFORE event/ACK", on_frame).
ReceptionDurable == \A k \in delivered : Refuses(flash.contacts, k)

\* A frame is on the air only under a number and an epoch that the flash, were
\* it read back now, would never use again (TxReserve, persisted_tx_epoch).
TransmitDurable ==
    \A f \in air :
        /\ f.epoch <= flash.tx_epoch
        /\ \A c \in Contacts :
              LET pc == flash.contacts[c] IN
              pc.present /\ pc.root = f.root => f.seq < pc.tx_reserved /\ f.epoch <= pc.tx_epoch_max

\* Trusted time is never accepted below an epoch this board has transmitted in,
\* on this boot or an earlier one (the floor of set_time_confirmed).
TimeNeverBelowTraffic == time_valid => \A f \in air : f.epoch <= now

\* The record in flash, and the one about to be written, are ones decode_view
\* accepts at the next boot; in particular tx_next <= tx_reserved, although in
\* RAM build_ack runs past the reservation until its commit returns.
RecordDecodable == Decodable(flash) /\ (caller = "commit" => Decodable(scratch))

\* Once the reservation is durable the send goes out: none of send_emit's
\* refusals (dirty, wrong number, unreserved number, older epoch) can occur.
EmitNeverRefused == caller = "emit" => EmitAllowed

\* Between operations the send in flight is to a contact that is there and not
\* blocked, and its frame was already on the air: a retry repeats it and never
\* encrypts anything new (set_blocked, delete_contact, send_retry_echo).
RetryOnlyRepeats ==
    caller = "idle" /\ pending_send /= NoSend =>
        LET ct == contacts[pending_send.contact] IN
        /\ ct.present /\ ~ct.blocked
        /\ DataFrame(pending_send) \in air

-----------------------------------------------------------------------------
(***************************************************************************)
(* The inductive invariant behind the properties.  Its core is Good: a set *)
(* of contacts from which the engine may go on, be it in RAM, staged or in *)
(* flash, because every number on the air lies below tx_next and every     *)
(* message the host has is refused.                                        *)
(***************************************************************************)

WindowsStorable(ct) ==
    \A s \in Epochs : WellFormed(ct.win_data[s]) /\ WellFormed(ct.win_ack[s])

\* The contacts hold distinct roots that were handed out.
GoodRoots(cs, rs) ==
    /\ \A c \in Contacts : cs[c].present \/ cs[c] = EmptyContact
    /\ \A c \in Contacts : cs[c].present => cs[c].root \in 1 .. rs
    /\ \A c, d \in Contacts :
          cs[c].present /\ cs[d].present /\ cs[c].root = cs[d].root => c = d

\* The frame f lies below everything the contacts may still send.
Below(f, cs) ==
    \A c \in Contacts :
        cs[c].present /\ cs[c].root = f.root
            => f.seq < cs[c].tx_next /\ f.epoch <= cs[c].tx_epoch_max

GoodTx(cs, epoch, frames) ==
    /\ \A c \in Contacts : cs[c].tx_next <= cs[c].tx_reserved
    /\ \A f \in frames : f.epoch <= epoch /\ Below(f, cs)

GoodRx(cs, keys) ==
    /\ \A c \in Contacts : WindowsStorable(cs[c])
    /\ \A k \in keys : Refuses(cs, k)

Good(cs, epoch, frames, keys, rs) ==
    GoodRoots(cs, rs) /\ GoodTx(cs, epoch, frames) /\ GoodRx(cs, keys)

\* Frames waiting for the commit: at most one, above all others of its root.
FramesAbove(new, frames, rs) ==
    /\ \A f, g \in new : f = g
    /\ \A f \in new : /\ f.root <= rs
                      /\ \A g \in frames : g.root = f.root => g.seq < f.seq

\* A step is staged: the snapshot is the present state, and once the frames are
\* out and the events delivered the engine can go on from it.
StagedInv ==
    caller = "commit" =>
        /\ ~fault
        /\ staged \in Staged
        /\ scratch = PersistView(provisioned, persisted_tx_epoch, contacts, staged)
        /\ Good(scratch.contacts, persisted_tx_epoch, air \union after.frames,
                delivered \union after.events, roots)
        /\ FramesAbove(after.frames, air, roots)
        /\ \A k \in after.events : k \notin delivered /\ k.root <= roots
        /\ after.emit => after.frames = {} /\ ~after.complete

\* Nothing is staged: the RAM state itself is good, unless storage has failed.
SettledInv ==
    caller /= "commit" =>
        /\ staged = NoStage /\ after = Nothing
        /\ ~fault => Good(contacts, persisted_tx_epoch, air, delivered, roots)

FaultInv == fault => caller = "idle" /\ pending_send = NoSend

\* The send in flight is either about to be sealed under the next number, which
\* is reserved, or its one frame is out or waiting for its commit.
Sealing == caller = "emit" \/ after.emit

SendInv ==
    /\ Sealing => pending_send /= NoSend
    /\ pending_send /= NoSend =>
         LET ct == contacts[pending_send.contact] IN
         /\ ct.present /\ ~ct.blocked
         /\ ~Sealing => DataFrame(pending_send) \in air \union after.frames
         /\ Sealing => /\ time_valid
                       /\ pending_send.epoch = now
                       /\ pending_send.seq = ct.tx_next
                       /\ pending_send.epoch >= ct.tx_epoch_max
                       /\ IF caller = "commit"
                          THEN pending_send.seq < scratch.contacts[pending_send.contact].tx_reserved
                          ELSE pending_send.seq < ct.tx_reserved

HistoryInv ==
    /\ NonceNeverReused
    /\ \A f \in air : f.root <= roots /\ f.epoch <= persisted_tx_epoch
    /\ \A k \in delivered : k.root <= roots
    /\ time_valid => persisted_tx_epoch <= now

FlashInv == Good(flash.contacts, flash.tx_epoch, air, delivered, roots)

\* What the properties above rest on: the flash, the staged snapshot and the
\* RAM of Engine each suffice to go on without reusing or redelivering anything.
IndInv ==
    /\ TypeOK
    /\ HistoryInv
    /\ FlashInv
    /\ StagedInv
    /\ SettledInv
    /\ FaultInv
    /\ SendInv
=============================================================================
