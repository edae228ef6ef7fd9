----------------------------- MODULE UsbStaging -----------------------------
(***************************************************************************)
(* Engine behind the USB command dispatch of the radio image.  A command   *)
(* that changes the engine copies the engine's snapshot into usb.staged    *)
(* (stage_for_commit), and Runtime::commit writes that copy if there is    *)
(* one, else the engine's own snapshot.  The two differ when a command     *)
(* leaves a copy behind without asking for a commit: provision,            *)
(* pair_import and radio_arm_next_boot are answered inline, and their copy *)
(* waits for the next commit, which the main loop makes at the head of its *)
(* next turn, after the radio events of the present one.                   *)
(*                                                                         *)
(* The flag armed_next_boot itself is left out: nothing here reads it.     *)
(***************************************************************************)
EXTENDS Engine

VARIABLE usb_staged   \* UsbState.staged: a record, or NoStage

allvars == <<vars, usb_staged>>

\* What Runtime::commit sends to the storage service.
ToWrite == IF usb_staged = NoStage THEN scratch ELSE usb_staged

UsbInit == Init /\ usb_staged = NoStage

\* The commands that stage and ask for a commit before they are answered.
UsbCommand ==
    /\ \/ \E e \in Epochs, confirmed \in BOOLEAN : SetTimeConfirmed(e, confirmed)
       \/ \E enabled \in BOOLEAN : SetRadio(enabled)
       \/ \E c \in Contacts :
             \/ DeleteContact(c)
             \/ \E blocked \in BOOLEAN : SetBlocked(c, blocked)
    /\ usb_staged' = scratch'

\* A command that stages, takes the copy and is answered at once.
StageInline(op, prov, cs) ==
    /\ staged' = op
    /\ scratch' = PersistView(prov, persisted_tx_epoch, cs, op)
    /\ usb_staged' = scratch'
    /\ UNCHANGED <<flash, caller, after>>

\* complete_provision
ProvisionInline ==
    /\ caller = "idle"
    /\ ~fault /\ ~provisioned
    /\ provisioned' = TRUE
    /\ StageInline(Stage("Provision"), TRUE, contacts)
    /\ UNCHANGED <<radio_on, time_valid, now, contacts, persisted_tx_epoch,
                   pending_send, fault, history>>

\* op_pair_import of the record that ends a ceremony
ActivateInline(c) ==
    LET cs == [contacts EXCEPT ![c] = NewContact(roots + 1, Epoch)] IN
    /\ caller = "idle"
    /\ Usable
    /\ ~radio_on
    /\ ~contacts[c].present
    /\ roots < MaxRoots
    /\ roots' = roots + 1
    /\ contacts' = cs
    /\ StageInline(Stage("PairActivate"), provisioned, cs)
    /\ UNCHANGED <<provisioned, radio_on, time_valid, now, persisted_tx_epoch,
                   pending_send, fault, air, delivered>>

\* op_arm
Arm ==
    /\ caller = "idle"
    /\ Usable
    /\ StageInline(Stage("None"), provisioned, contacts)
    /\ UNCHANGED <<ram, history>>

\* The head of the main loop: whatever is still staged is committed.
FlushStaged ==
    /\ caller = "idle"
    /\ ~fault
    /\ staged /= NoStage
    /\ caller' = "commit"
    /\ UNCHANGED <<ram, persist, after, history, usb_staged>>

\* on_rx: a received frame stages in the engine only.  The radio task receives
\* while the radio is on (a frame still queued when it goes off is left out).
Receive ==
    /\ radio_on
    /\ \E c \in Contacts, e \in Epochs, s \in RxSeqs :
          \/ \E ack \in Bodies : OnData(c, e, s, ack)
          \/ \E matches \in BOOLEAN : OnAck(c, e, s, matches)
    /\ UNCHANGED usb_staged

\* Sends and the clock stage in the engine only, too.
RuntimeOp ==
    /\ \/ AdvanceTime
       \/ AdvanceTimeFails
       \/ \E c \in Contacts, body \in Bodies : radio_on /\ SendBegin(c, body)
       \/ SendEmit
       \/ SendRetryEcho
       \/ SendComplete
       \/ PairCancel
    /\ UNCHANGED usb_staged

\* Runtime::commit takes the copy, and the power may go while it is written.
UsbCommit ==
    /\ Commit(ToWrite) \/ CommitFault(ToWrite) \/ Boot(ToWrite)
    /\ usb_staged' = NoStage

UsbNext ==
    \/ UsbCommand
    \/ ProvisionInline \/ Arm \/ \E c \in Contacts : ActivateInline(c)
    \/ FlushStaged \/ Receive \/ RuntimeOp
    \/ UsbCommit

UsbSpec == UsbInit /\ [][UsbNext]_allvars
=============================================================================
