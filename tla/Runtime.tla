------------------------------- MODULE Runtime -------------------------------
(***************************************************************************)
(* The runtime task of firmware/src/runtime.rs, which owns the engine, the *)
(* one send, ping and forward in flight, and the replies to the host; the  *)
(* radio task is the process at the other end of the two queues.           *)
(*                                                                         *)
(* A turn of the main loop handles USB lines, then every radio event, then *)
(* the deadlines; a handler runs to its end before the next, except that   *)
(* the three controls wait for their barrier and handle other events       *)
(* meanwhile.  board is the state a handler works on, so that handlers     *)
(* that call one another compose as functions of it.                       *)
(*                                                                         *)
(* Abstractions.                                                           *)
(*  - The radio answers every command with any outcome (RadioGate shows    *)
(*    which are possible when) and an acknowledgement comes only for a     *)
(*    frame that may have been on the air.                                 *)
(*  - A deadline is a flag that time raises.  Every commit may fail.       *)
(*  - Hardware is present, the board provisioned, its time valid; an error *)
(*    of the clock has the effect of the Fault event.                      *)
(*  - A deleted contact does not come back; pairing is another module.     *)
(***************************************************************************)
EXTENDS Naturals, Sequences, FiniteSets

CONSTANTS
    Contacts,         \* paired contacts
    QueueCap,         \* capacity of RADIO_CMD and RADIO_EVT, 8 in the code
    MaxTx,            \* MAX_TX, 3 in the code
    Probes,           \* the count of a ping, 1 to 3 in the code
    MaxReqs,          \* bound: requests of the host
    MaxRx,            \* bound: frames and faults the radio reports by itself
    None              \* Option::None

Reqs == 1 .. MaxReqs

\* PendingSend of the engine; InFlight, PingInFlight and the control in its wait of the runtime.
Pendings == [req : Reqs, contact : Contacts]
Sends == [req : Reqs, contact : Contacts, tx_count : 1 .. MaxTx, cmd : Nat, due : BOOLEAN]
Pings == [req : Reqs, remaining : 1 .. Probes, cmd : Nat]
Waits == [kind : {"SetOn", "SetOff", "Block", "Delete"}, req : Reqs, barrier : Nat]

ASSUME RuntimeAssumption ==
    /\ QueueCap \in Nat \ {0} /\ MaxTx \in Nat \ {0} /\ Probes \in Nat \ {0}
    /\ MaxReqs \in Nat /\ MaxRx \in Nat
    /\ None \notin Nat \union Pendings \union Sends \union Pings \union Waits

VARIABLES
    board,            \* engine and runtime, see Init
    evts,             \* RADIO_EVT
    wait,             \* the control in wait_control, or None
    reqs,             \* requests so far; a request is its number
    cancelled,        \* history: sends in flight to a contact the host blocked or deleted,
                      \* or when it switched the radio off
    onair,            \* history: sends with a frame that may have been on the air
    rx                \* frames and faults so far

vars == <<board, evts, wait, reqs, cancelled, onair, rx>>

\* The engine's fields come first, then the runtime's, then history: the final replies
\* to each request, the requests given up without one, the frames queued for each
\* send, and the sends whose own acknowledgement came in while they were pending.
Init ==
    /\ board = [radio_on |-> FALSE, present |-> Contacts, blocked |-> {}, fault |-> FALSE,
                pending_send |-> None,
                send |-> None, ping |-> None, forward |-> None,
                last_policy |-> [on |-> FALSE, mask |-> {}], gate |-> [on |-> FALSE, mask |-> {}],
                cmds |-> <<>>, next_cmd |-> 1,
                answers |-> [r \in Reqs |-> <<>>], dropped |-> {},
                queued |-> [r \in Reqs |-> 0], confirmed |-> {}]
    /\ evts = <<>>
    /\ wait = None
    /\ reqs = 0
    /\ cancelled = {} /\ onair = {}
    /\ rx = 0

-----------------------------------------------------------------------------
(* Steps on the board that handlers share.                                 *)

\* reply: the final word on a request.
Reply(b, r, code) == [b EXCEPT !.answers[r] = Append(@, code)]

\* The renderers: an error with its code, the outcomes of a ping and of a send, and
\* commit_reply, the success a command still owes once its snapshot is written.
EmitErr(b, r, code) == Reply(b, r, code)
EmitPing(b, r) == Reply(b, r, "ok")
EmitAcknowledged(b, r) == Reply(b, r, "ACKNOWLEDGED")
EmitUnconfirmed(b, r) == Reply(b, r, "UNCONFIRMED")
CommitReply(b, r) == Reply(b, r, "ok")

\* blocked_mask, with the radio switch: what the gate should say.
EnginePolicy(b) == [on |-> b.radio_on, mask |-> b.blocked]

\* sync_policy
SyncPolicy(b) ==
    IF b.last_policy = EnginePolicy(b) THEN b
    ELSE [b EXCEPT !.gate = EnginePolicy(b), !.last_policy = EnginePolicy(b)]

CanQueue(b) == Len(b.cmds) < QueueCap

\* alloc_cmd and RADIO_CMD.try_send: the id is used up in any case.
TrySend(b, kind, req) ==
    [b EXCEPT !.next_cmd = @ + 1,
              !.cmds = IF CanQueue(b)
                       THEN Append(@, [kind |-> kind, id |-> b.next_cmd, req |-> req]) ELSE @,
              !.queued = [r \in Reqs |-> IF r = req /\ CanQueue(b) THEN @[r] + 1 ELSE @[r]]]

\* Mutant of FailRadioClosed: the cached policy is not told of the closed gate.
FailWithoutMirror(b) ==
    LET closed == [b EXCEPT !.gate = [on |-> FALSE, mask |-> b.blocked]]
        queued == TrySend(closed, "SetEnabled", 0)
        done == [queued EXCEPT !.send = None, !.ping = None, !.forward = None,
                               !.dropped = IF b.ping = None THEN @ ELSE @ \union {b.ping.req}]
    IN IF b.send = None THEN done
       ELSE EmitErr([done EXCEPT !.pending_send = None], b.send.req, "STORAGE_FAULT")

\* fail_radio_closed
FailRadioClosed(b) ==
    LET policy == [on |-> FALSE, mask |-> b.blocked]
        queued == TrySend([b EXCEPT !.gate = policy, !.last_policy = policy], "SetEnabled", 0)
        done == [queued EXCEPT !.send = None, !.ping = None, !.forward = None,
                               !.dropped = IF b.ping = None THEN @ ELSE @ \union {b.ping.req}]
    IN IF b.send = None THEN done
       ELSE EmitErr([done EXCEPT !.pending_send = None], b.send.req, "STORAGE_FAULT")

\* Runtime::commit when the write fails: discard_staged, mark_fault, fail_radio_closed.
CommitFailed(b) == FailRadioClosed([b EXCEPT !.pending_send = None, !.fault = TRUE])

\* Mutant of SendOver: the engine's send is over, the runtime's stays.
SendStays(b) == [b EXCEPT !.pending_send = None]

\* The send in flight is over: send_complete, and send.take().
SendOver(b) == [b EXCEPT !.pending_send = None, !.send = None]

\* It is over with this error for the host.
EndSend(b, code) == EmitErr(SendOver(b), b.send.req, code)

-----------------------------------------------------------------------------
(* USB requests.                                                           *)

\* queue_tx of the first attempt, after both commits of the send.
QueueFirst(b, r, c) ==
    LET s == SyncPolicy(b)
        q == TrySend(s, "Tx", r)
    IN IF CanQueue(s)
       THEN [q EXCEPT !.send = [req |-> r, contact |-> c, tx_count |-> 1,
                                cmd |-> s.next_cmd, due |-> FALSE]]
       ELSE EmitErr([q EXCEPT !.pending_send = None], r, "BUSY")

\* drive_send_prep and the checks of send_begin.
DriveSendPrep(b, r, c) ==
    IF b.send /= None THEN {EmitErr(b, r, "BUSY")}
    ELSE IF c \notin b.present THEN {EmitErr(b, r, "BAD_REQUEST")}
    ELSE IF b.pending_send /= None THEN {EmitErr(b, r, "BUSY")}
    ELSE { EmitErr(CommitFailed(b), r, "STORAGE_FAULT"),
           QueueFirst([b EXCEPT !.pending_send = [req |-> r, contact |-> c]], r, c) }

\* op_send
OpSend(b, r, c) ==
    IF c \in b.blocked THEN {EmitErr(b, r, "CONTACT_BLOCKED")}
    ELSE IF ~b.radio_on THEN {EmitErr(b, r, "RADIO_UNAVAILABLE")}
    ELSE DriveSendPrep(b, r, c)

\* op_ping and drive_ping_prep
PingResult(b, r) ==
    IF b.ping /= None \/ ~CanQueue(b)
    THEN EmitErr(IF b.ping = None THEN TrySend(b, "CadProbe", 0) ELSE b, r, "BUSY")
    ELSE [TrySend(b, "CadProbe", 0) EXCEPT
             !.ping = [req |-> r, remaining |-> Probes, cmd |-> b.next_cmd]]

\* The tail that controls share: a barrier is queued and waited for, or BUSY.
Fence(b, kind, r) ==
    IF CanQueue(b)
    THEN /\ board' = TrySend(b, "Barrier", 0)
         /\ wait' = [kind |-> kind, req |-> r, barrier |-> b.next_cmd]
    ELSE /\ board' = EmitErr(TrySend(b, "Barrier", 0), r, "BUSY")
         /\ wait' = None

Refuse(r, code) == board' = EmitErr(board, r, code) /\ wait' = None

CommitRefused(b, r) == board' = EmitErr(CommitFailed(b), r, "STORAGE_FAULT") /\ wait' = None

\* op_radio_set and control_set_radio_already_staged, up to the wait.
SetRadio(r, on) ==
    LET set == [board EXCEPT !.radio_on = on, !.pending_send = IF on THEN @ ELSE None]
        synced == SyncPolicy(set)
        kind == IF on THEN "SetOn" ELSE "SetOff"
    IN \/ CommitRefused(set, r)
       \/ IF CanQueue(synced) THEN Fence(TrySend(synced, "SetEnabled", 0), kind, r)
          ELSE board' = EmitErr(TrySend(synced, "SetEnabled", 0), r, "BUSY") /\ wait' = None

\* Mutant of BlockedBoard: the engine keeps the send of a contact that is blocked.
BlockKeepsSend(b, c, on) == [b EXCEPT !.blocked = IF on THEN @ \union {c} ELSE @ \ {c}]

\* Engine::set_blocked
BlockedBoard(b, c, on) ==
    [b EXCEPT !.blocked = IF on THEN @ \union {c} ELSE @ \ {c},
              !.pending_send = IF on /\ @ /= None /\ @.contact = c THEN None ELSE @]

\* op_block and control_set_blocked_already_staged, up to the wait.
SetBlocked(r, c, on) ==
    IF c \notin board.present THEN Refuse(r, "BAD_REQUEST")
    ELSE \/ CommitRefused(BlockedBoard(board, c, on), r)
         \/ Fence(SyncPolicy(BlockedBoard(board, c, on)), "Block", r)

\* Mutant of DeletedBoard: the block bit stays with the empty slot.
DeletedStillBlocked(b, c) ==
    [b EXCEPT !.present = @ \ {c},
              !.pending_send = IF @ /= None /\ @.contact = c THEN None ELSE @]

\* Engine::delete_contact
DeletedBoard(b, c) ==
    [b EXCEPT !.present = @ \ {c}, !.blocked = @ \ {c},
              !.pending_send = IF @ /= None /\ @.contact = c THEN None ELSE @]

\* op_delete and its arm of on_usb_outcome: any send in flight is given up.
Delete(r, c) ==
    LET gone == SyncPolicy(DeletedBoard(board, c)) IN
    IF c \notin board.present THEN Refuse(r, "BAD_REQUEST")
    ELSE \/ CommitRefused(DeletedBoard(board, c), r)
         \/ Fence(IF gone.send = None THEN gone ELSE EndSend(gone, "BUSY"), "Delete", r)

\* commit_settings and commit_wifi write under keys of their own: a failure is said to
\* the host and is no fault of the node record.
CommitRecord(b, r) == {EmitErr(b, r, "STORAGE_FAULT"), CommitReply(b, r)}

\* The other commands that owe a commit: the time, and settings and Wi-Fi credentials,
\* whose values are left out.
OtherCommit(b, r) ==
    {EmitErr(CommitFailed(b), r, "STORAGE_FAULT"), CommitReply(b, r)} \union CommitRecord(b, r)

-----------------------------------------------------------------------------
(* Radio events.                                                           *)

\* on_tx_done: the send's completion by id, else the forward's; an ACK's changes nothing.
OnTxDone(b, e) ==
    IF b.send /= None /\ b.send.cmd = e.id
    THEN CASE e.result = "Ok" -> [b EXCEPT !.send.due = FALSE]
           [] e.result = "ChannelBusy" -> EndSend(b, "CHANNEL_BUSY")
           [] e.result = "Cancelled" ->
                 EndSend(b, IF b.send.contact \in b.blocked THEN "CONTACT_BLOCKED" ELSE "BUSY")
           [] e.result = "Radio" -> EndSend(b, "RADIO")
    ELSE IF b.forward = e.id THEN [b EXCEPT !.forward = None] ELSE b

\* on_cad_done
OnCadDone(b, e) ==
    IF b.ping = None \/ b.ping.cmd /= e.id THEN b
    ELSE LET over == [b EXCEPT !.ping = None] IN
         CASE e.result = "Cancelled" ->
                 EmitErr(over, b.ping.req, IF b.radio_on THEN "BUSY" ELSE "RADIO_UNAVAILABLE")
           [] e.result \in {"ChannelBusy", "Radio"} -> EmitErr(over, b.ping.req, "RADIO")
           [] e.result = "Ok" ->
                 IF b.ping.remaining = 1 THEN EmitPing(over, b.ping.req)
                 ELSE IF CanQueue(b)
                 THEN [TrySend(b, "CadProbe", 0) EXCEPT
                          !.ping.remaining = @ - 1, !.ping.cmd = b.next_cmd]
                 ELSE EmitErr(TrySend(over, "CadProbe", 0), b.ping.req, "BUSY")

\* The waiting forward: its command, 0 while it is not queued.
Scheduled == 0

\* A frame that is not for this board, or that a faulted one cannot open: a duplicate is
\* ignored, a new one takes the place of the waiting forward (schedule_forward).
Transit(b) == {b, [b EXCEPT !.forward = Scheduled]}

\* send_ack_frame: dropped when the queue is full.
SendAckFrame(b) == TrySend(SyncPolicy(b), "Tx", 0)

\* on_rx of DATA from a contact: ignored when blocked or stale, else committed and
\* acknowledged.
OnData(b, c) ==
    IF b.fault \/ c \notin b.present THEN Transit(b)
    ELSE IF c \in b.blocked THEN {b}
    ELSE {b, CommitFailed(b), SendAckFrame(b)}

\* Mutant of Matches: any acknowledgement of the contact will do.
MatchesContact(b, r) ==
    /\ ~b.fault
    /\ b.pending_send /= None
    /\ b.pending_send.contact \in b.present \ b.blocked

Matches(b, r) ==
    /\ ~b.fault
    /\ b.pending_send /= None
    /\ b.pending_send.req = r
    /\ b.pending_send.contact \in b.present \ b.blocked

\* on_rx of an ACK of request r's frame: the engine compares it with pending_send, the
\* runtime ends its own send if that is for the same contact.
OnAck(b, r) ==
    IF b.fault THEN Transit(b)
    ELSE IF ~Matches(b, r) THEN {b, CommitFailed(b)}
    ELSE { CommitFailed(b),
           IF b.send /= None /\ b.send.contact = b.pending_send.contact
           THEN EmitAcknowledged(SendOver([b EXCEPT !.confirmed = @ \union {r}]), b.send.req)
           ELSE b }

\* on_radio_evt
OnEvt(b, e) ==
    CASE e.kind = "TxDone" -> {OnTxDone(b, e)}
      [] e.kind = "CadDone" -> {OnCadDone(b, e)}
      [] e.kind = "ControlDone" -> {b}
      [] e.kind = "RxData" -> OnData(b, e.from)
      [] e.kind = "RxAck" -> OnAck(b, e.req)
      [] e.kind = "RxTransit" -> Transit(b)
      [] e.kind = "Fault" -> {FailRadioClosed(b)}

-----------------------------------------------------------------------------
(* Deadlines.                                                              *)

\* Mutant of PollSend: a full queue leaves the send waiting, as it does a forward.
PollSendWaits(b) ==
    IF b.send = None \/ ~b.send.due THEN b
    ELSE IF b.send.tx_count >= MaxTx THEN EmitUnconfirmed(SendOver(b), b.send.req)
    ELSE IF b.pending_send = None THEN EndSend(b, "BAD_REQUEST")
    ELSE LET s == SyncPolicy(b)
             q == TrySend(s, "Tx", b.send.req)
         IN IF CanQueue(s)
            THEN [q EXCEPT !.send.tx_count = @ + 1, !.send.due = FALSE, !.send.cmd = s.next_cmd]
            ELSE s

\* The send's part of poll_timeouts; send_retry_echo needs the engine's pending_send.
PollSend(b) ==
    IF b.send = None \/ ~b.send.due THEN b
    ELSE IF b.send.tx_count >= MaxTx THEN EmitUnconfirmed(SendOver(b), b.send.req)
    ELSE IF b.pending_send = None THEN EndSend(b, "BAD_REQUEST")
    ELSE LET s == SyncPolicy(b)
             q == TrySend(s, "Tx", b.send.req)
         IN IF CanQueue(s)
            THEN [q EXCEPT !.send.tx_count = @ + 1, !.send.due = FALSE, !.send.cmd = s.next_cmd]
            ELSE EndSend(q, "BUSY")

\* The forward's part, once its listen delay is over; a full queue leaves it waiting.
PollForward(b) ==
    LET s == SyncPolicy(b)
        q == TrySend(s, "Tx", 0)
    IN IF CanQueue(s) THEN [q EXCEPT !.forward = s.next_cmd] ELSE q

-----------------------------------------------------------------------------
(* The runtime's steps.                                                    *)

\* A line from the host, outside a wait: one of the requests, numbered in order.
\* dispatch refuses them all once the store has failed.
Request(r) ==
    /\ wait = None
    /\ reqs < MaxReqs
    /\ r = reqs + 1
    /\ reqs' = r
    /\ IF board.fault THEN Refuse(r, "STORAGE_FAULT")
       ELSE \/ /\ \E c \in Contacts : board' \in OpSend(board, r, c)
               /\ UNCHANGED wait
            \/ board' = PingResult(board, r) /\ UNCHANGED wait
            \/ board' \in OtherCommit(board, r) /\ UNCHANGED wait
            \/ \E on \in BOOLEAN : SetRadio(r, on)
            \/ \E c \in Contacts, on \in BOOLEAN : SetBlocked(r, c, on)
            \/ \E c \in Contacts : Delete(r, c)
    /\ cancelled' = IF /\ board.send /= None
                       /\ ~board'.radio_on \/ board.send.contact \notin board'.present \ board'.blocked
                    THEN cancelled \union {board.send.req} ELSE cancelled
    /\ UNCHANGED <<evts, onair, rx>>

\* Mutant of Awaited: any control completion ends the wait.
AwaitedAny(e) == wait /= None /\ e.kind = "ControlDone"

\* The completion wait_control waits for.
Awaited(e) == wait /= None /\ e.kind = "ControlDone" /\ e.id = wait.barrier

\* The main loop, or wait_control, handles the next event.
HandleEvt ==
    /\ evts /= <<>>
    /\ ~Awaited(Head(evts))
    /\ evts' = Tail(evts)
    /\ board' \in OnEvt(board, Head(evts))
    /\ UNCHANGED <<wait, reqs, cancelled, onair, rx>>

\* What a control does after its wait.  Delete's second commit there has nothing to
\* write: the first one took usb.staged, and of what the wait handles only on_rx
\* stages, and commits, or discards, before it returns.
AfterWait(b, ok) ==
    LET off == [b EXCEPT !.send = None, !.forward = None,
                         !.dropped = IF b.send = None THEN @ ELSE @ \union {b.send.req}]
        left == IF wait.kind = "SetOff" THEN off ELSE b
        fails == IF wait.kind = "Delete" THEN "STORAGE_FAULT" ELSE "BUSY"
    IN IF ok THEN CommitReply(left, wait.req) ELSE EmitErr(left, wait.req, fails)

BarrierDone ==
    /\ evts /= <<>>
    /\ Awaited(Head(evts))
    /\ evts' = Tail(evts)
    /\ board' = AfterWait(board, TRUE)
    /\ wait' = None
    /\ UNCHANGED <<reqs, cancelled, onair, rx>>

\* Two seconds are over.
WaitTimeout ==
    /\ wait /= None
    /\ board' = AfterWait(board, FALSE)
    /\ wait' = None
    /\ UNCHANGED <<evts, reqs, cancelled, onair, rx>>

\* ACK_WAIT is over for the present attempt.
DeadlinePasses ==
    /\ board.send /= None
    /\ ~board.send.due
    /\ board' = [board EXCEPT !.send.due = TRUE]
    /\ UNCHANGED <<evts, wait, reqs, cancelled, onair, rx>>

\* poll_timeouts, at the end of a turn: every event was handled.
PollDue ==
    /\ wait = None /\ evts = <<>>
    /\ board.send /= None /\ board.send.due
    /\ board' = PollSend(board)
    /\ UNCHANGED <<evts, wait, reqs, cancelled, onair, rx>>

PollListened ==
    /\ wait = None /\ evts = <<>>
    /\ board.forward = Scheduled
    /\ CanQueue(board)
    /\ board' = PollForward(board)
    /\ UNCHANGED <<evts, wait, reqs, cancelled, onair, rx>>

\* advance_time: the hour's commit fails, or the engine is faulted already and there
\* is something left to close.
HourFails ==
    /\ wait = None
    /\ \/ ~board.fault /\ board' = CommitFailed(board)
       \/ /\ board.fault
          /\ board.gate.on \/ board.send /= None \/ board.ping /= None \/ board.forward /= None
          /\ board' = FailRadioClosed(board)
    /\ UNCHANGED <<evts, wait, reqs, cancelled, onair, rx>>

-----------------------------------------------------------------------------
(* The radio task, as far as the runtime can tell.                         *)

Outcomes == {"Ok", "ChannelBusy", "Cancelled", "Radio"}

\* The task carries out the command at the head and, once there is room, queues its
\* terminal event; the command it is at still counts in cmds.
RadioStep ==
    /\ board.cmds /= <<>>
    /\ Len(evts) < QueueCap
    /\ board' = [board EXCEPT !.cmds = Tail(@)]
    /\ \E result \in Outcomes :
          LET cmd == Head(board.cmds) IN
          /\ evts' = Append(evts,
                CASE cmd.kind = "Tx" -> [kind |-> "TxDone", id |-> cmd.id, result |-> result]
                  [] cmd.kind = "CadProbe" -> [kind |-> "CadDone", id |-> cmd.id, result |-> result]
                  [] OTHER -> [kind |-> "ControlDone", id |-> cmd.id])
          /\ onair' = IF cmd.kind = "Tx" /\ cmd.req \in Reqs /\ result \in {"Ok", "Radio"}
                      THEN onair \union {cmd.req} ELSE onair
    /\ UNCHANGED <<wait, reqs, cancelled, rx>>

\* A frame or a fault; lost when the queue is full.  A task that listens, or is at a
\* command, may have one to report although the gate was closed meanwhile; a task that
\* has carried out the last command of a closed gate is parked.
RadioReports ==
    /\ rx < MaxRx
    /\ rx' = rx + 1
    /\ board.gate.on \/ board.cmds /= <<>>
    /\ Len(evts) < QueueCap
    /\ \/ \E c \in Contacts : evts' = Append(evts, [kind |-> "RxData", from |-> c])
       \/ \E r \in onair : evts' = Append(evts, [kind |-> "RxAck", req |-> r])
       \/ evts' = Append(evts, [kind |-> "RxTransit"])
       \/ evts' = Append(evts, [kind |-> "Fault"])
    /\ UNCHANGED <<board, wait, reqs, cancelled, onair>>

-----------------------------------------------------------------------------

Poll == PollDue \/ PollListened
EvtStep == HandleEvt \/ BarrierDone

Next ==
    \/ \E r \in Reqs : Request(r)
    \/ EvtStep \/ WaitTimeout \/ DeadlinePasses \/ Poll \/ HourFails
    \/ RadioStep \/ RadioReports

Spec == Init /\ [][Next]_vars

\* The runtime's turns follow one another, with_timeout fires and time passes; nothing is
\* assumed of the radio task.
FairSpec ==
    /\ Spec
    /\ WF_vars(EvtStep) /\ WF_vars(WaitTimeout) /\ WF_vars(DeadlinePasses) /\ WF_vars(PollDue)

\* The radio task answers every command as well, as it does unless its interrupt line
\* starves the queue (EveryCommandEnds of RadioGate).
RadioFairSpec == FairSpec /\ WF_vars(RadioStep)

-----------------------------------------------------------------------------

Answered(r) == board.answers[r] /= <<>>

TypeOK ==
    /\ board.blocked \subseteq board.present /\ board.present \subseteq Contacts
    /\ board.pending_send \in Pendings \union {None}
    /\ board.send \in Sends \union {None}
    /\ board.ping \in Pings \union {None}
    /\ Len(board.cmds) <= QueueCap /\ Len(evts) <= QueueCap
    /\ reqs \in 0 .. MaxReqs /\ rx \in 0 .. MaxRx

\* A request is answered at most once, however its send, ping or control ends: by an
\* event, a deadline, a control that cancels it or a fault in the middle of it.
OneFinalReply ==
    \A r \in Reqs : /\ Len(board.answers[r]) <= 1
                    /\ r \in board.dropped => ~Answered(r)

\* The engine has a send only while the runtime has the same one in flight, so an
\* acknowledgement the engine matches is the one the runtime reports: ACKNOWLEDGED is
\* said of a request only when its own frame was acknowledged.
AcknowledgedIsOwn ==
    /\ board.pending_send /= None =>
          /\ board.send /= None
          /\ board.send.req = board.pending_send.req
          /\ board.send.contact = board.pending_send.contact
    /\ \A r \in Reqs : board.answers[r] = <<"ACKNOWLEDGED">> => r \in board.confirmed

\* Plan: "no later retry/receive/ACK" for cancelled work.  A frame is queued for a send
\* only while the host waits for its answer, never once it was cancelled, and at most
\* MAX_TX times.
NoFrameAfterTheEnd ==
    [][\A r \in Reqs :
          board'.queued[r] /= board.queued[r]
              => ~Answered(r) /\ r \notin cancelled /\ board'.queued[r] <= MaxTx]_vars

\* A frame is queued, and its token minted, only with the engine's switch and block bits
\* in the gate: fail_radio_closed must not leave the cached policy behind the gate.
MintedInSync ==
    [][(\E i \in 1 .. Len(board'.cmds) :
           /\ board'.cmds[i].kind = "Tx"
           /\ board'.cmds[i].id >= board.next_cmd)
          => board'.gate = EnginePolicy(board')]_vars

\* "ok" to a control means its barrier came through: nothing queued before it is left,
\* also when the barrier of a control that timed out answers late.
OkMeansFenced ==
    [][\A r \in Reqs :
          wait /= None /\ wait.req = r /\ board'.answers[r] = <<"ok">>
              => \A cmd \in { board.cmds[i] : i \in 1 .. Len(board.cmds) } :
                    cmd.id > wait.barrier]_vars

\* The runtime is busy with a send, or waits for the barrier of a control.
InProgress(r) ==
    \/ board.send /= None /\ board.send.req = r
    \/ wait /= None /\ wait.req = r

\* A send always leaves its slot and a control its wait, by ACK_WAIT, MAX_TX and the two
\* seconds of wait_control alone: also if the radio task never answers again, no request
\* makes the runtime BUSY for good.
SendsAndControlsEnd == []<>(\A r \in Reqs : ~InProgress(r))

\* Plan: "local validation/cancellation returns ok:false with the exact error string";
\* guide: "Completion, failure, channel-busy, and cancellation each produce an honest
\* report".  The host hears how its send ended; but switching the radio off forgets the
\* send that is in flight.
EverySendIsReported ==
    \A r \in Reqs : board.send /= None /\ board.send.req = r ~> Answered(r)
=============================================================================
