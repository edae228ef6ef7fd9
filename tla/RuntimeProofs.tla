---------------------------- MODULE RuntimeProofs ----------------------------
(* What the host can rely on, for every number of requests, contacts and   *)
(* attempts and every capacity of the queues.                              *)
EXTENDS Runtime, TLAPS

Policies == [on : BOOLEAN, mask : SUBSET Contacts]
Cmds == [kind : {"Tx", "CadProbe", "Barrier", "SetEnabled"}, id : Nat, req : Nat]
Events ==
    [kind : {"TxDone", "CadDone"}, id : Nat, result : Outcomes]
      \union [kind : {"ControlDone"}, id : Nat]
      \union [kind : {"RxData"}, from : Contacts]
      \union [kind : {"RxAck"}, req : Reqs]
      \union [kind : {"RxTransit", "Fault"}]

Codes == {"BUSY", "BAD_REQUEST", "STORAGE_FAULT", "CONTACT_BLOCKED", "CHANNEL_BUSY", "RADIO",
          "RADIO_UNAVAILABLE", "UNCONFIRMED", "ACKNOWLEDGED", "ok"}

Boards ==
    [radio_on : BOOLEAN, present : SUBSET Contacts, blocked : SUBSET Contacts, fault : BOOLEAN,
     pending_send : Pendings \union {None}, send : Sends \union {None},
     ping : Pings \union {None}, forward : Nat \union {None},
     last_policy : Policies, gate : Policies, cmds : Seq(Cmds), next_cmd : Nat,
     answers : [Reqs -> Seq(Codes)], dropped : SUBSET Reqs,
     queued : [Reqs -> Nat], confirmed : SUBSET Reqs]

\* A request that nothing was said of and that was not given up.
Open(b, r) == b.answers[r] = <<>> /\ r \notin b.dropped

\* The requests that the send and the ping in flight are to answer.
Held(b) ==
    { r \in Reqs : \/ b.send /= None /\ b.send.req = r
                   \/ b.ping /= None /\ b.ping.req = r }

\* Who is to answer what: owed are the requests others than the send and the ping answer.
Ledger(b, owed) ==
    /\ \A r \in Reqs : Len(b.answers[r]) <= 1 /\ (r \in b.dropped => b.answers[r] = <<>>)
    /\ \A r \in Held(b) \union owed : Open(b, r)
    /\ Held(b) \intersect owed = {}
    /\ b.send /= None /\ b.ping /= None => b.send.req /= b.ping.req

\* The commands' numbers.
Numbered(b) ==
    /\ Len(b.cmds) <= QueueCap
    /\ \A i \in 1 .. Len(b.cmds) : b.cmds[i].id < b.next_cmd
    /\ \A i, j \in 1 .. Len(b.cmds) : i < j => b.cmds[i].id < b.cmds[j].id

\* What every handler keeps, in the middle of its work too.
Good(b, owed) ==
    /\ b \in Boards
    /\ b.blocked \subseteq b.present
    /\ b.gate = b.last_policy
    /\ Numbered(b)
    /\ Ledger(b, owed)
    /\ \A r \in Reqs : b.answers[r] = <<"ACKNOWLEDGED">> => r \in b.confirmed
    /\ b.send /= None => b.queued[b.send.req] = b.send.tx_count

\* The engine's send is the runtime's, and may go out.
Linked(b) ==
    b.pending_send /= None =>
        /\ b.send /= None
        /\ b.send.req = b.pending_send.req
        /\ b.send.contact = b.pending_send.contact
        /\ b.radio_on
        /\ b.send.contact \in b.present \ b.blocked

-----------------------------------------------------------------------------

\* The requests the control in its wait, and the requests to come, are to answer.
Owed == { r \in Reqs : r > reqs \/ (wait /= None /\ wait.req = r) }

Queues ==
    /\ evts \in Seq(Events) /\ Len(evts) <= QueueCap
    /\ onair \subseteq Reqs
    /\ \A i \in 1 .. Len(evts) : evts[i].kind = "ControlDone" =>
          /\ evts[i].id < board.next_cmd
          /\ \A j \in 1 .. Len(board.cmds) : evts[i].id < board.cmds[j].id

Waiting ==
    /\ wait \in Waits \union {None}
    /\ wait /= None => wait.req <= reqs /\ (wait.kind = "SetOff" => board.pending_send = None)

Cancels ==
    /\ \A r \in cancelled : r \in Reqs /\ r <= reqs
    /\ board.send /= None /\ board.send.req \in cancelled => board.pending_send = None

Inv ==
    /\ reqs \in 0 .. MaxReqs /\ rx \in 0 .. MaxRx
    /\ Good(board, Owed)
    /\ Linked(board)
    /\ \A r \in Reqs : r > reqs => board.queued[r] = 0
    /\ Queues
    /\ Waiting
    /\ Cancels

-----------------------------------------------------------------------------
(* What the operators on a board do.                                       *)

\* The fields that the engine's send depends on, and the ones that answer requests.
Same(b, c) ==
    /\ c.pending_send = b.pending_send /\ c.send = b.send /\ c.ping = b.ping
    /\ c.radio_on = b.radio_on /\ c.present = b.present /\ c.blocked = b.blocked

\* Sends only end.
Shrinks(b, c) ==
    /\ c.pending_send /= None => c.pending_send = b.pending_send
    /\ c.send /= None =>
          b.send /= None /\ c.send.req = b.send.req /\ c.send.contact = b.send.contact

Old(b, cmd) == \E j \in 1 .. Len(b.cmds) : b.cmds[j] = cmd

\* c comes from b by steps that queue no frame and begin no send.
Follows(b, c) ==
    /\ c.queued = b.queued
    /\ c.next_cmd >= b.next_cmd
    /\ \A i \in 1 .. Len(c.cmds) :
          Old(b, c.cmds[i]) \/ (c.cmds[i].id >= b.next_cmd /\ c.cmds[i].kind /= "Tx")
    /\ Shrinks(b, c)

\* Steps of this kind compose.
LEMMA FollowsTrans ==
    ASSUME NEW b \in Boards, NEW c \in Boards, NEW d \in Boards, Follows(b, c), Follows(c, d)
    PROVE  Follows(b, d)
  <1>1. d.queued = b.queued /\ d.next_cmd >= b.next_cmd /\ c.next_cmd >= b.next_cmd
    BY DEF Follows, Boards
  <1>2. Shrinks(b, d)
    BY DEF Follows, Shrinks
  <1>3. ASSUME NEW i \in 1 .. Len(d.cmds)
        PROVE  Old(b, d.cmds[i]) \/ (d.cmds[i].id >= b.next_cmd /\ d.cmds[i].kind /= "Tx")
    <2>1. CASE Old(c, d.cmds[i])
      BY <2>1 DEF Follows, Old
    <2>2. CASE d.cmds[i].id >= c.next_cmd /\ d.cmds[i].kind /= "Tx"
      <3>1. d.cmds[i].id \in Nat /\ c.next_cmd \in Nat /\ b.next_cmd \in Nat
        <4>1. d.cmds \in Seq(Cmds) /\ c.next_cmd \in Nat /\ b.next_cmd \in Nat
          BY DEF Boards
        <4>2. d.cmds[i] \in Cmds
          BY <4>1
        <4> QED BY <4>1, <4>2 DEF Cmds
      <3> QED BY <1>1, <2>2, <3>1
    <2> QED BY <2>1, <2>2 DEF Follows
  <1> QED BY <1>1, <1>2, <1>3 DEF Follows

\* A step that leaves the queue, the counts and the sends alone.
LEMMA FollowsSame ==
    ASSUME NEW b \in Boards, NEW c, c.cmds = b.cmds, c.queued = b.queued, c.next_cmd = b.next_cmd,
           Shrinks(b, c)
    PROVE  Follows(b, c)
  <1>1. b.next_cmd \in Nat
    BY DEF Boards
  <1> QED BY <1>1 DEF Follows, Old

\* Fewer debts.
LEMMA GoodLess ==
    ASSUME NEW b, NEW owed, NEW less, Good(b, owed), less \subseteq owed
    PROVE  Good(b, less)
  BY DEF Good, Ledger

\* reply settles a debt.
LEMMA ReplyOk ==
    ASSUME NEW b, NEW owed, Good(b, owed), NEW r \in Reqs, r \in owed, NEW code \in Codes,
           code = "ACKNOWLEDGED" => r \in b.confirmed
    PROVE  /\ Good(Reply(b, r, code), owed \ {r})
           /\ Same(b, Reply(b, r, code)) /\ Follows(b, Reply(b, r, code))
           /\ Reply(b, r, code).answers[r] = <<code>>
  <1> DEFINE c == Reply(b, r, code)
  <1>1. b \in Boards /\ b.answers[r] = <<>> /\ r \notin b.dropped /\ r \notin Held(b)
    BY DEF Good, Ledger, Open
  <1>2. c \in Boards
    <2> DEFINE new == [b.answers EXCEPT ![r] = Append(@, code)]
    <2>1. b.answers \in [Reqs -> Seq(Codes)]
      BY <1>1 DEF Boards
    <2>2. Append(b.answers[r], code) \in Seq(Codes)
      BY <2>1
    <2>3. new \in [Reqs -> Seq(Codes)]
      BY <2>1, <2>2
    <2>4. c = [b EXCEPT !.answers = new]
      BY <1>1 DEF Reply, Boards
    <2> HIDE DEF new
    <2> QED BY <1>1, <2>3, <2>4 DEF Boards
  <1>3. /\ Same(b, c) /\ c.fault = b.fault /\ c.forward = b.forward
        /\ c.last_policy = b.last_policy /\ c.gate = b.gate /\ c.cmds = b.cmds /\ c.next_cmd = b.next_cmd
        /\ c.dropped = b.dropped /\ c.queued = b.queued /\ c.confirmed = b.confirmed
    BY <1>1 DEF Boards, Reply, Same
  <1>4. c.answers = [b.answers EXCEPT ![r] = Append(@, code)]
    BY <1>1 DEF Boards, Reply
  <1>5. b.answers \in [Reqs -> Seq(Codes)]
    BY <1>1 DEF Boards
  <1> HIDE DEF c
  <1>6. c.answers[r] = <<code>> /\ \A s \in Reqs : s /= r => c.answers[s] = b.answers[s]
    BY <1>1, <1>4, <1>5
  <1>7. Held(c) = Held(b)
    BY <1>3 DEF Held, Same
  <1>8. Ledger(c, owed \ {r})
    <2>1. Len(c.answers[r]) <= 1
      BY <1>6
    <2>2. \A s \in Reqs : Len(c.answers[s]) <= 1 /\ (s \in c.dropped => c.answers[s] = <<>>)
      BY <1>1, <1>3, <1>6, <2>1 DEF Good, Ledger
    <2>3. \A s \in Held(c) \union (owed \ {r}) : s /= r /\ Open(b, s)
      BY <1>1, <1>7 DEF Good, Ledger
    <2>4. \A s \in Held(c) \union (owed \ {r}) : Open(c, s)
      BY <1>3, <1>4, <1>5, <2>3 DEF Open
    <2> QED BY <1>3, <1>7, <2>2, <2>4 DEF Good, Ledger, Same
  <1>9. Numbered(c)
    BY <1>3 DEF Good, Numbered
  <1>10. \A s \in Reqs : c.answers[s] = <<"ACKNOWLEDGED">> => s \in c.confirmed
    BY <1>3, <1>6 DEF Good
  <1>11. Good(c, owed \ {r})
    BY <1>2, <1>3, <1>8, <1>9, <1>10 DEF Good, Same
  <1>12. Follows(b, c)
    BY <1>1, <1>3, FollowsSame DEF Same, Shrinks
  <1> QED BY <1>3, <1>6, <1>11, <1>12 DEF c

\* A step on the engine's fields, or that ends the send or the ping: what these held may
\* now be owed.
LEMMA GoodSame ==
    ASSUME NEW b, NEW owed, Good(b, owed), NEW c \in Boards, NEW now_owed,
           c.blocked \subseteq c.present, c.gate = c.last_policy,
           c.cmds = b.cmds, c.next_cmd = b.next_cmd, c.answers = b.answers, c.dropped = b.dropped,
           c.queued = b.queued, b.confirmed \subseteq c.confirmed,
           c.send = b.send \/ c.send = None, c.ping = b.ping \/ c.ping = None,
           now_owed \subseteq owed \union Held(b), now_owed \intersect Held(c) = {}
    PROVE  Good(c, now_owed)
  <1>1. Held(c) \subseteq Held(b)
    BY DEF Held
  <1>2. Ledger(c, now_owed)
    BY <1>1 DEF Good, Ledger, Open
  <1>3. Numbered(c)
    BY DEF Good, Numbered
  <1> QED BY <1>2, <1>3 DEF Good

\* sync_policy brings the gate up to date.
LEMMA SyncOk ==
    ASSUME NEW b, NEW owed, Good(b, owed)
    PROVE  /\ Good(SyncPolicy(b), owed) /\ Same(b, SyncPolicy(b)) /\ Follows(b, SyncPolicy(b))
           /\ SyncPolicy(b).gate = EnginePolicy(SyncPolicy(b))
           /\ SyncPolicy(b).cmds = b.cmds /\ SyncPolicy(b).next_cmd = b.next_cmd
  <1> DEFINE c == SyncPolicy(b)
  <1>1. b \in Boards /\ b.gate = b.last_policy /\ b.blocked \subseteq b.present
    BY DEF Good
  <1>2. EnginePolicy(b) \in Policies
    BY <1>1 DEF Boards, EnginePolicy, Policies
  <1>3. /\ c \in Boards /\ Same(b, c) /\ c.gate = EnginePolicy(b) /\ c.last_policy = EnginePolicy(b)
        /\ c.cmds = b.cmds /\ c.next_cmd = b.next_cmd /\ c.answers = b.answers /\ c.dropped = b.dropped
        /\ c.queued = b.queued /\ c.confirmed = b.confirmed
    <2> HIDE DEF EnginePolicy
    <2>1. CASE b.last_policy = EnginePolicy(b)
      BY <1>1, <2>1 DEF SyncPolicy, Same
    <2>2. CASE b.last_policy /= EnginePolicy(b)
      <3>1. c = [b EXCEPT !.gate = EnginePolicy(b), !.last_policy = EnginePolicy(b)]
        BY <2>2 DEF SyncPolicy
      <3> HIDE DEF c
      <3> QED BY <1>1, <1>2, <3>1 DEF Same, Boards
    <2> QED BY <2>1, <2>2
  <1>4. EnginePolicy(c) = EnginePolicy(b)
    BY <1>3 DEF EnginePolicy, Same
  <1> HIDE DEF c
  <1>5. Held(c) = Held(b) /\ owed \intersect Held(b) = {}
    BY <1>3 DEF Held, Same, Good, Ledger
  <1>6. Good(c, owed)
    BY <1>1, <1>3, <1>5, GoodSame DEF Same
  <1>7. Follows(b, c)
    BY <1>1, <1>3, FollowsSame DEF Same, Shrinks
  <1> QED BY <1>3, <1>4, <1>6, <1>7 DEF c

\* A command for the radio, if there is room: its number is the highest so far.
LEMMA TrySendOk ==
    ASSUME NEW b, NEW owed, Good(b, owed), NEW req \in Nat,
           NEW kind \in {"Tx", "CadProbe", "Barrier", "SetEnabled"}
    PROVE  LET c == TrySend(b, kind, req) IN
           /\ c \in Boards /\ Same(b, c) /\ c.forward = b.forward /\ c.fault = b.fault
           /\ c.last_policy = b.last_policy /\ c.gate = b.gate
           /\ c.answers = b.answers /\ c.dropped = b.dropped /\ c.confirmed = b.confirmed
           /\ c.next_cmd = b.next_cmd + 1
           /\ \A r \in Reqs : c.queued[r] = IF r = req /\ CanQueue(b) THEN b.queued[r] + 1 ELSE b.queued[r]
           /\ Numbered(c) /\ Ledger(c, owed)
           /\ \A i \in 1 .. Len(c.cmds) : \/ Old(b, c.cmds[i])
                                          \/ c.cmds[i].id = b.next_cmd /\ c.cmds[i].kind = kind
  <1> DEFINE c == TrySend(b, kind, req)
             cmd == [kind |-> kind, id |-> b.next_cmd, req |-> req]
             cmds == IF CanQueue(b) THEN Append(b.cmds, cmd) ELSE b.cmds
             queued == [r \in Reqs |-> IF r = req /\ CanQueue(b) THEN b.queued[r] + 1 ELSE b.queued[r]]
  <1>1. b \in Boards /\ b.cmds \in Seq(Cmds) /\ b.next_cmd \in Nat /\ b.queued \in [Reqs -> Nat]
    BY DEF Good, Boards
  <1>2. c = [b EXCEPT !.next_cmd = b.next_cmd + 1, !.cmds = cmds, !.queued = queued]
    BY <1>1 DEF TrySend, Boards
  <1>3. cmd \in Cmds /\ cmd.id = b.next_cmd /\ cmd.kind = kind
    BY <1>1 DEF Cmds
  <1> HIDE DEF cmd
  <1>4. queued \in [Reqs -> Nat]
    BY <1>1
  <1>5. cmds \in Seq(Cmds)
    BY <1>1, <1>3
  <1>6. \A r \in Reqs : queued[r] = IF r = req /\ CanQueue(b) THEN b.queued[r] + 1 ELSE b.queued[r]
    OBVIOUS
  <1>7. /\ Len(cmds) <= QueueCap
        /\ \A i \in 1 .. Len(cmds) : \/ i \in 1 .. Len(b.cmds) /\ cmds[i] = b.cmds[i]
                                     \/ i = Len(b.cmds) + 1 /\ cmds[i] = cmd
    <2>1. Len(b.cmds) \in Nat /\ Len(b.cmds) <= QueueCap
      BY <1>1 DEF Good, Numbered
    <2>2. CASE CanQueue(b)
      <3>1. cmds = Append(b.cmds, cmd) /\ Len(cmds) = Len(b.cmds) + 1
        BY <1>1, <2>2
      <3>2. Len(cmds) <= QueueCap
        BY <2>1, <2>2, <3>1, RuntimeAssumption DEF CanQueue
      <3> QED BY <1>1, <2>1, <3>1, <3>2
    <2>3. CASE ~CanQueue(b)
      BY <2>1, <2>3
    <2> QED BY <2>2, <2>3
  <1> HIDE DEF cmds, queued
  <1>8. /\ c \in Boards /\ Same(b, c) /\ c.forward = b.forward /\ c.fault = b.fault
        /\ c.last_policy = b.last_policy /\ c.gate = b.gate
        /\ c.answers = b.answers /\ c.dropped = b.dropped /\ c.confirmed = b.confirmed
        /\ c.next_cmd = b.next_cmd + 1 /\ c.cmds = cmds /\ c.queued = queued
    <2> HIDE DEF c
    <2>1. b.next_cmd + 1 \in Nat
      BY <1>1
    <2>2. c \in Boards
      BY <1>1, <1>2, <1>4, <1>5, <2>1 DEF Boards
    <2> QED BY <1>1, <1>2, <2>2 DEF Boards, Same
  <1> HIDE DEF c
  <1>9. \A i \in 1 .. Len(cmds) : \/ Old(b, cmds[i])
                                  \/ cmds[i].id = b.next_cmd /\ cmds[i].kind = kind
    BY <1>3, <1>7 DEF Old
  <1>10. Numbered(c)
    <2>1. \A i \in 1 .. Len(b.cmds) : b.cmds[i].id \in Nat
      <3>1. \A i \in 1 .. Len(b.cmds) : b.cmds[i] \in Cmds
        BY <1>1
      <3> QED BY <3>1 DEF Cmds
    <2>2. \A i \in 1 .. Len(cmds) : cmds[i].id < c.next_cmd
      BY <1>1, <1>3, <1>7, <1>8, <2>1 DEF Good, Numbered
    <2>3. \A i, j \in 1 .. Len(cmds) : i < j => cmds[i].id < cmds[j].id
      BY <1>1, <1>3, <1>7, <2>1 DEF Good, Numbered
    <2> QED BY <1>7, <1>8, <2>2, <2>3 DEF Numbered
  <1>11. Ledger(c, owed)
    <2>1. Held(c) = Held(b)
      BY <1>8 DEF Held, Same
    <2> QED BY <1>8, <2>1 DEF Good, Ledger, Open, Same
  <1> QED BY <1>6, <1>8, <1>9, <1>10, <1>11 DEF c

\* A command that is no frame of a request leaves everything else in order.
LEMMA TrySendGood ==
    ASSUME NEW b, NEW owed, Good(b, owed), NEW kind \in {"Tx", "CadProbe", "Barrier", "SetEnabled"}
    PROVE  /\ Good(TrySend(b, kind, 0), owed) /\ Same(b, TrySend(b, kind, 0))
           /\ TrySend(b, kind, 0).queued = b.queued
           /\ kind /= "Tx" => Follows(b, TrySend(b, kind, 0))
  <1> DEFINE c == TrySend(b, kind, 0)
  <1>1. /\ c \in Boards /\ Same(b, c) /\ c.forward = b.forward /\ c.fault = b.fault
        /\ c.last_policy = b.last_policy /\ c.gate = b.gate
        /\ c.answers = b.answers /\ c.dropped = b.dropped /\ c.confirmed = b.confirmed
        /\ c.next_cmd = b.next_cmd + 1
        /\ \A r \in Reqs : c.queued[r] = IF r = 0 /\ CanQueue(b) THEN b.queued[r] + 1 ELSE b.queued[r]
        /\ Numbered(c) /\ Ledger(c, owed)
        /\ \A i \in 1 .. Len(c.cmds) : \/ Old(b, c.cmds[i])
                                       \/ c.cmds[i].id = b.next_cmd /\ c.cmds[i].kind = kind
    BY TrySendOk
  <1>2. b \in Boards /\ b.next_cmd \in Nat /\ b.queued \in [Reqs -> Nat]
    BY DEF Good, Boards
  <1> HIDE DEF c
  <1>3. c.queued = b.queued
    <2>1. c.queued \in [Reqs -> Nat]
      BY <1>1 DEF Boards
    <2>2. \A r \in Reqs : r /= 0
      BY DEF Reqs
    <2> QED BY <1>1, <1>2, <2>1, <2>2
  <1>4. Good(c, owed)
    BY <1>1, <1>3 DEF Good, Same
  <1>5. kind /= "Tx" => Follows(b, c)
    BY <1>1, <1>2, <1>3 DEF Follows, Shrinks, Same
  <1> QED BY <1>1, <1>3, <1>4, <1>5 DEF c

\* So does an error, or the word "ok".
LEMMA ErrOk ==
    ASSUME NEW b, NEW owed, Good(b, owed), NEW r \in Reqs, r \in owed,
           NEW code \in Codes \ {"ACKNOWLEDGED"}
    PROVE  LET c == Reply(b, r, code) IN
           Good(c, owed \ {r}) /\ Same(b, c) /\ Follows(b, c) /\ c.answers[r] = <<code>>
  BY ReplyOk DEF Codes

\* Giving a request up settles a debt as well.
LEMMA DropOk ==
    ASSUME NEW b, NEW owed, Good(b, owed), NEW r \in Reqs, r \in owed
    PROVE  LET c == [b EXCEPT !.dropped = @ \union {r}] IN
           Good(c, owed \ {r}) /\ Same(b, c) /\ Follows(b, c)
  <1> DEFINE c == [b EXCEPT !.dropped = @ \union {r}]
  <1>1. b \in Boards
    BY DEF Good
  <1>2. /\ c \in Boards /\ Same(b, c) /\ c.last_policy = b.last_policy /\ c.gate = b.gate
        /\ c.cmds = b.cmds /\ c.next_cmd = b.next_cmd /\ c.answers = b.answers
        /\ c.dropped = b.dropped \union {r} /\ c.queued = b.queued /\ c.confirmed = b.confirmed
    BY <1>1 DEF Boards, Same
  <1> HIDE DEF c
  <1>3. Held(c) = Held(b)
    BY <1>2 DEF Held, Same
  <1>4. Ledger(c, owed \ {r})
    BY <1>2, <1>3 DEF Good, Ledger, Open, Same
  <1>5. Numbered(c)
    BY <1>2 DEF Good, Numbered
  <1>6. Good(c, owed \ {r})
    BY <1>2, <1>4, <1>5 DEF Good, Same
  <1>7. Follows(b, c)
    BY <1>1, <1>2, FollowsSame DEF Same, Shrinks
  <1> QED BY <1>2, <1>6, <1>7 DEF c

\* A send that is over owes its answer.
LEMMA SendOverOk ==
    ASSUME NEW b, NEW owed, Good(b, owed), b.send /= None
    PROVE  LET c == SendOver(b) IN
           /\ b.send \in Sends /\ b.send.req \in Reqs /\ b.send.req \notin owed
           /\ Good(c, owed \union {b.send.req}) /\ Follows(b, c)
           /\ c.send = None /\ c.pending_send = None /\ c.ping = b.ping
           /\ c.radio_on = b.radio_on /\ c.present = b.present /\ c.blocked = b.blocked
           /\ c.confirmed = b.confirmed
  <1> DEFINE c == SendOver(b)
  <1>1. b \in Boards /\ b.send \in Sends /\ b.send.req \in Reqs
    BY DEF Good, Boards, Sends
  <1>2. /\ c \in Boards /\ c.send = None /\ c.pending_send = None /\ c.ping = b.ping
        /\ c.radio_on = b.radio_on /\ c.present = b.present /\ c.blocked = b.blocked
        /\ c.last_policy = b.last_policy /\ c.gate = b.gate
        /\ c.cmds = b.cmds /\ c.next_cmd = b.next_cmd /\ c.answers = b.answers
        /\ c.dropped = b.dropped /\ c.queued = b.queued /\ c.confirmed = b.confirmed
    BY <1>1 DEF Boards, SendOver
  <1> HIDE DEF c
  <1>3. b.send.req \in Held(b) /\ b.send.req \notin owed
    BY <1>1 DEF Held, Good, Ledger
  <1>4. (owed \union {b.send.req}) \intersect Held(c) = {}
    BY <1>2 DEF Held, Good, Ledger
  <1>5. Good(c, owed \union {b.send.req})
    BY <1>2, <1>3, <1>4, GoodSame DEF Good
  <1>6. Follows(b, c)
    BY <1>1, <1>2, FollowsSame DEF Shrinks
  <1> QED BY <1>1, <1>2, <1>3, <1>5, <1>6 DEF c

\* The send ends with a word to the host.
LEMMA SendAnswered ==
    ASSUME NEW b, NEW owed, Good(b, owed), b.send /= None, NEW code \in Codes,
           code = "ACKNOWLEDGED" => b.send.req \in b.confirmed
    PROVE  LET c == Reply(SendOver(b), b.send.req, code) IN
           /\ Good(c, owed) /\ Follows(b, c)
           /\ c.send = None /\ c.pending_send = None /\ c.ping = b.ping
           /\ c.radio_on = b.radio_on /\ c.present = b.present /\ c.blocked = b.blocked
  <1> DEFINE r == b.send.req
             o == SendOver(b)
             c == Reply(o, r, code)
  <1>1. /\ r \in Reqs /\ r \notin owed /\ Good(o, owed \union {r}) /\ Follows(b, o)
        /\ o.send = None /\ o.pending_send = None /\ o.ping = b.ping
        /\ o.radio_on = b.radio_on /\ o.present = b.present /\ o.blocked = b.blocked
        /\ o.confirmed = b.confirmed
    BY SendOverOk
  <1>2. Good(c, (owed \union {r}) \ {r}) /\ Same(o, c) /\ Follows(o, c)
    <2>1. r \in owed \union {r} /\ (code = "ACKNOWLEDGED" => r \in o.confirmed)
      BY <1>1
    <2> HIDE DEF o, r
    <2> QED BY <1>1, <2>1, ReplyOk
  <1> HIDE DEF o, r
  <1>3. (owed \union {r}) \ {r} = owed
    BY <1>1
  <1> HIDE DEF c
  <1>4. b \in Boards /\ o \in Boards /\ c \in Boards
    BY <1>1, <1>2 DEF Good
  <1>5. Follows(b, c)
    BY <1>1, <1>2, <1>4, FollowsTrans
  <1> QED BY <1>1, <1>2, <1>3, <1>5 DEF Same, c, o, r

\* fail_radio_closed ends the send with an error and gives the ping up.
LEMMA FailRadioClosedOk ==
    ASSUME NEW b, NEW owed, Good(b, owed), b.send = None => b.pending_send = None
    PROVE  LET c == FailRadioClosed(b) IN
           /\ Good(c, owed) /\ Follows(b, c)
           /\ c.send = None /\ c.pending_send = None
  <1> DEFINE policy == [on |-> FALSE, mask |-> b.blocked]
             shut == [b EXCEPT !.gate = policy, !.last_policy = policy]
             told == TrySend(shut, "SetEnabled", 0)
             idle == [told EXCEPT !.send = None, !.ping = None, !.forward = None,
                                  !.pending_send = None]
             done == [told EXCEPT !.send = None, !.ping = None, !.forward = None,
                                  !.dropped = IF b.ping = None THEN @ ELSE @ \union {b.ping.req}]
             freed == owed \union Held(b)
  <1>1. b \in Boards /\ b.blocked \subseteq b.present /\ owed \intersect Held(b) = {}
    BY DEF Good, Ledger
  <1>2. Good(shut, owed) /\ Same(b, shut) /\ Follows(b, shut)
    <2>1. policy \in Policies
      BY <1>1 DEF Boards, Policies
    <2> HIDE DEF policy
    <2>2. /\ shut \in Boards /\ Same(b, shut) /\ shut.gate = policy /\ shut.last_policy = policy
          /\ shut.cmds = b.cmds /\ shut.next_cmd = b.next_cmd /\ shut.answers = b.answers
          /\ shut.dropped = b.dropped /\ shut.queued = b.queued /\ shut.confirmed = b.confirmed
      BY <1>1, <2>1 DEF Boards, Same
    <2> HIDE DEF shut
    <2>3. Held(shut) = Held(b)
      BY <2>2 DEF Held, Same
    <2>4. Good(shut, owed)
      BY <1>1, <2>2, <2>3, GoodSame DEF Same
    <2> QED BY <1>1, <2>2, <2>4, FollowsSame DEF Same, Shrinks
  <1> HIDE DEF shut
  <1>3. Good(told, owed) /\ Same(b, told) /\ Follows(b, told)
    <2>1. Good(told, owed) /\ Same(shut, told) /\ Follows(shut, told)
      BY <1>2, TrySendGood
    <2> HIDE DEF told
    <2> QED BY <1>1, <1>2, <2>1, FollowsTrans DEF Good, Same
  <1> HIDE DEF told
  <1>4. Held(told) = Held(b)
    BY <1>3 DEF Held, Same
  <1>5. Good(idle, freed) /\ Follows(b, idle)
        /\ idle.send = None /\ idle.pending_send = None
    <2>1. /\ idle \in Boards /\ idle.send = None /\ idle.ping = None /\ idle.pending_send = None
          /\ idle.present = told.present /\ idle.blocked = told.blocked
          /\ idle.gate = told.gate /\ idle.last_policy = told.last_policy
          /\ idle.cmds = told.cmds /\ idle.next_cmd = told.next_cmd /\ idle.answers = told.answers
          /\ idle.dropped = told.dropped /\ idle.queued = told.queued /\ idle.confirmed = told.confirmed
      BY <1>3 DEF Good, Boards
    <2> HIDE DEF idle
    <2>2. Held(idle) = {}
      BY <2>1 DEF Held
    <2>3. Good(idle, freed)
      <3>1. told.blocked \subseteq told.present /\ told.gate = told.last_policy
        BY <1>3 DEF Good
      <3>2. freed \subseteq owed \union Held(told) /\ freed \intersect Held(idle) = {}
        BY <1>4, <2>2
      <3> HIDE DEF freed
      <3> QED BY <1>3, <2>1, <3>1, <3>2, GoodSame
    <2>4. Follows(told, idle)
      BY <1>3, <2>1, FollowsSame DEF Good, Shrinks
    <2> QED BY <1>1, <1>3, <2>1, <2>3, <2>4, FollowsTrans DEF Good
  <1>6. told \in Boards /\ told.dropped \subseteq Reqs
    BY <1>3 DEF Good, Boards
  \* The ping is given up.
  <1>7. PICK d \in Boards :
           /\ d = [idle EXCEPT !.dropped = IF b.ping = None THEN @ ELSE @ \union {b.ping.req}]
           /\ Good(d, freed \ { r \in Reqs : b.ping /= None /\ b.ping.req = r }) /\ Follows(b, d)
           /\ d.send = None /\ d.pending_send = None
    <2> HIDE DEF idle
    <2>1. CASE b.ping = None
      <3>1. idle \in Boards /\ idle = [idle EXCEPT !.dropped = @]
        BY <1>5 DEF Good, Boards
      <3>2. freed \ { r \in Reqs : b.ping /= None /\ b.ping.req = r } = freed
        BY <2>1
      <3> QED BY <1>5, <2>1, <3>1, <3>2
    <2>2. CASE b.ping /= None
      <3>1. b.ping.req \in Reqs /\ b.ping.req \in Held(b)
        BY <1>1, <2>2 DEF Boards, Pings, Held
      <3> DEFINE d == [idle EXCEPT !.dropped = @ \union {b.ping.req}]
      <3>2. Good(d, freed \ {b.ping.req}) /\ Same(idle, d) /\ Follows(idle, d)
        BY <1>5, <3>1, DropOk
      <3>3. freed \ { r \in Reqs : b.ping /= None /\ b.ping.req = r } = freed \ {b.ping.req}
        BY <2>2, <3>1
      <3>4. d = [idle EXCEPT !.dropped = IF b.ping = None THEN @ ELSE @ \union {b.ping.req}]
        BY <2>2
      <3> HIDE DEF d
      <3>5. idle \in Boards /\ d \in Boards
        BY <1>5, <3>2 DEF Good
      <3> QED BY <1>1, <1>5, <3>2, <3>3, <3>4, <3>5, FollowsTrans DEF Same
    <2> QED BY <2>1, <2>2
  <1>8. d = [done EXCEPT !.pending_send = None]
    BY <1>6, <1>7 DEF Boards
  <1> HIDE DEF done, idle, policy
  <1>9. CASE b.send = None
    <2>1. told.pending_send = None
      BY <1>3, <1>9 DEF Same
    <2>2. done = d
      <3>1. [done EXCEPT !.pending_send = told.pending_send] = done
        BY <1>6 DEF Boards, done
      <3> QED BY <1>8, <2>1, <3>1
    <2>3. FailRadioClosed(b) = d
      BY <1>9, <2>2 DEF FailRadioClosed, done, told, shut, policy
    <2>4. owed \subseteq freed \ { r \in Reqs : b.ping /= None /\ b.ping.req = r }
      <3>1. { r \in Reqs : b.ping /= None /\ b.ping.req = r } \subseteq Held(b)
        BY DEF Held
      <3> QED BY <1>1, <3>1, Zenon DEF freed
    <2> QED BY <1>7, <2>3, <2>4, GoodLess
  <1>10. CASE b.send /= None
    <2> DEFINE r == b.send.req
               rest == freed \ { s \in Reqs : b.ping /= None /\ b.ping.req = s }
    <2>1. r \in Reqs /\ r \in rest /\ owed \subseteq rest \ {r}
      BY <1>1, <1>10 DEF Boards, Sends, Held, Good, Ledger
    <2> HIDE DEF rest, r
    <2>2. Good(d, rest)
      BY <1>7 DEF rest
    <2>3. Good(Reply(d, r, "STORAGE_FAULT"), rest \ {r}) /\ Same(d, Reply(d, r, "STORAGE_FAULT"))
          /\ Follows(d, Reply(d, r, "STORAGE_FAULT"))
      BY <2>1, <2>2, ErrOk DEF Codes
    <2>4. FailRadioClosed(b) = Reply(d, r, "STORAGE_FAULT")
      BY <1>8, <1>10 DEF FailRadioClosed, EmitErr, done, told, shut, policy, r
    <2>5. Good(FailRadioClosed(b), owed)
      BY <2>1, <2>3, <2>4, GoodLess
    <2> QED BY <1>1, <1>7, <2>3, <2>4, <2>5, FollowsTrans DEF Good, Same
  <1> QED BY <1>9, <1>10

\* A commit that fails closes the radio, whatever was staged.
LEMMA CommitFailedOk ==
    ASSUME NEW b, NEW owed, Good(b, owed)
    PROVE  LET c == CommitFailed(b) IN
           /\ Good(c, owed) /\ Follows(b, c)
           /\ c.send = None /\ c.pending_send = None
  <1> DEFINE d == [b EXCEPT !.pending_send = None, !.fault = TRUE]
  <1>1. b \in Boards
    BY DEF Good
  <1>2. /\ d \in Boards /\ d.pending_send = None /\ d.send = b.send /\ d.ping = b.ping
        /\ d.present = b.present /\ d.blocked = b.blocked
        /\ d.last_policy = b.last_policy /\ d.gate = b.gate
        /\ d.cmds = b.cmds /\ d.next_cmd = b.next_cmd /\ d.answers = b.answers
        /\ d.dropped = b.dropped /\ d.queued = b.queued /\ d.confirmed = b.confirmed
    BY <1>1 DEF Boards
  <1> HIDE DEF d
  <1>3. Held(d) = Held(b) /\ owed \intersect Held(b) = {}
    BY <1>2 DEF Held, Good, Ledger
  <1>4. Good(d, owed)
    BY <1>2, <1>3, GoodSame DEF Good
  <1>5. Follows(b, d)
    BY <1>1, <1>2, FollowsSame DEF Shrinks
  <1>6. /\ Good(FailRadioClosed(d), owed) /\ Follows(d, FailRadioClosed(d))
        /\ FailRadioClosed(d).send = None /\ FailRadioClosed(d).pending_send = None
    BY <1>2, <1>4, FailRadioClosedOk
  <1>7. CommitFailed(b) = FailRadioClosed(d)
    BY DEF CommitFailed, d
  <1> QED BY <1>1, <1>2, <1>5, <1>6, <1>7, FollowsTrans DEF Good

\* A step that gives a request from one owner to another.
LEMMA GoodHeld ==
    ASSUME NEW b, NEW owed, Good(b, owed), NEW c \in Boards, NEW now_owed,
           c.blocked \subseteq c.present, c.gate = c.last_policy, Numbered(c),
           c.answers = b.answers, c.dropped = b.dropped, b.confirmed \subseteq c.confirmed,
           Held(c) \union now_owed \subseteq Held(b) \union owed, now_owed \intersect Held(c) = {},
           c.send /= None /\ c.ping /= None => c.send.req /= c.ping.req,
           c.send /= None => c.queued[c.send.req] = c.send.tx_count
    PROVE  Good(c, now_owed)
  <1>1. Ledger(c, now_owed)
    BY DEF Good, Ledger, Open
  <1> QED BY <1>1 DEF Good

\* The forward is the board's own affair.
LEMMA ForwardOk ==
    ASSUME NEW b, NEW owed, Good(b, owed), NEW f \in Nat \union {None}
    PROVE  LET c == [b EXCEPT !.forward = f] IN
           /\ Good(c, owed) /\ Same(b, c) /\ Follows(b, c)
           /\ c.cmds = b.cmds /\ c.next_cmd = b.next_cmd /\ c.gate = b.gate /\ c.queued = b.queued
  <1> DEFINE c == [b EXCEPT !.forward = f]
  <1>1. b \in Boards /\ b.gate = b.last_policy /\ b.blocked \subseteq b.present
    BY DEF Good
  <1>2. /\ c \in Boards /\ Same(b, c) /\ c.last_policy = b.last_policy /\ c.gate = b.gate
        /\ c.cmds = b.cmds /\ c.next_cmd = b.next_cmd /\ c.answers = b.answers
        /\ c.dropped = b.dropped /\ c.queued = b.queued /\ c.confirmed = b.confirmed
    BY <1>1 DEF Boards, Same
  <1> HIDE DEF c
  <1>3. Held(c) = Held(b) /\ owed \intersect Held(b) = {}
    BY <1>2 DEF Held, Same, Good, Ledger
  <1>4. Good(c, owed)
    BY <1>1, <1>2, <1>3, GoodSame DEF Same
  <1>5. Follows(b, c)
    BY <1>1, <1>2, FollowsSame DEF Same, Shrinks
  <1> QED BY <1>2, <1>4, <1>5 DEF c

\* The deadline of the send is set or passes.
LEMMA DueOk ==
    ASSUME NEW b, NEW owed, Good(b, owed), Linked(b), b.send /= None, NEW due \in BOOLEAN
    PROVE  LET c == [b EXCEPT !.send.due = due] IN
           /\ Good(c, owed) /\ Linked(c) /\ Follows(b, c)
           /\ c.pending_send = b.pending_send
  <1> DEFINE c == [b EXCEPT !.send.due = due]
             s == [b.send EXCEPT !.due = due]
  <1>1. b \in Boards /\ b.gate = b.last_policy /\ b.blocked \subseteq b.present /\ b.send \in Sends
    BY DEF Good, Boards
  <1>2. s \in Sends /\ s.req = b.send.req /\ s.contact = b.send.contact /\ s.tx_count = b.send.tx_count
    BY <1>1 DEF Sends
  <1>3. s /= None
    BY <1>2, RuntimeAssumption
  <1>4. c = [b EXCEPT !.send = s]
    BY <1>1 DEF Boards
  <1> HIDE DEF s, c
  <1>5. /\ c \in Boards /\ c.send = s /\ c.ping = b.ping /\ c.pending_send = b.pending_send
        /\ c.radio_on = b.radio_on /\ c.present = b.present /\ c.blocked = b.blocked
        /\ c.last_policy = b.last_policy /\ c.gate = b.gate
        /\ c.cmds = b.cmds /\ c.next_cmd = b.next_cmd /\ c.answers = b.answers
        /\ c.dropped = b.dropped /\ c.queued = b.queued /\ c.confirmed = b.confirmed
    BY <1>1, <1>2, <1>4 DEF Boards
  <1>6. Held(c) = Held(b) /\ owed \intersect Held(b) = {}
    BY <1>2, <1>3, <1>5 DEF Held, Good, Ledger
  <1>7. Numbered(c)
    BY <1>5 DEF Good, Numbered
  <1>8. /\ c.send /= None /\ c.ping /= None => c.send.req /= c.ping.req
        /\ c.send /= None => c.queued[c.send.req] = c.send.tx_count
    BY <1>2, <1>5 DEF Good, Ledger
  <1>9. Good(c, owed)
    BY <1>1, <1>5, <1>6, <1>7, <1>8, GoodHeld
  <1>10. Linked(c)
    BY <1>2, <1>3, <1>5 DEF Linked
  <1>11. Follows(b, c)
    BY <1>1, <1>2, <1>5, FollowsSame DEF Shrinks
  <1> QED BY <1>5, <1>9, <1>10, <1>11 DEF c

\* The ping takes a request, or goes on with its own.
LEMMA PingSetOk ==
    ASSUME NEW b, NEW owed, Good(b, owed), NEW p \in Pings,
           IF b.ping = None THEN p.req \in owed ELSE p.req = b.ping.req
    PROVE  LET c == [b EXCEPT !.ping = p] IN
           /\ Good(c, owed \ {p.req}) /\ Follows(b, c)
           /\ c.pending_send = b.pending_send /\ c.send = b.send
           /\ c.radio_on = b.radio_on /\ c.present = b.present /\ c.blocked = b.blocked
  <1> DEFINE c == [b EXCEPT !.ping = p]
  <1>1. b \in Boards /\ b.gate = b.last_policy /\ b.blocked \subseteq b.present /\ p.req \in Reqs
    BY DEF Good, Pings
  <1>2. /\ c \in Boards /\ c.ping = p /\ c.pending_send = b.pending_send /\ c.send = b.send
        /\ c.radio_on = b.radio_on /\ c.present = b.present /\ c.blocked = b.blocked
        /\ c.last_policy = b.last_policy /\ c.gate = b.gate
        /\ c.cmds = b.cmds /\ c.next_cmd = b.next_cmd /\ c.answers = b.answers
        /\ c.dropped = b.dropped /\ c.queued = b.queued /\ c.confirmed = b.confirmed
    BY <1>1 DEF Boards
  <1> HIDE DEF c
  <1>3. Held(c) \subseteq Held(b) \union {p.req} /\ p.req \in Held(b) \union owed
    BY <1>1, <1>2 DEF Held
  <1>4. owed \intersect Held(b) = {}
    BY DEF Good, Ledger
  <1>5. c.send /= None /\ c.ping /= None => c.send.req /= c.ping.req
    <2>1. CASE b.ping = None
      BY <1>1, <1>2, <1>4, <2>1 DEF Held
    <2>2. CASE b.ping /= None
      BY <1>2, <2>2 DEF Good, Ledger
    <2> QED BY <2>1, <2>2
  <1>6. c.send /= None => c.queued[c.send.req] = c.send.tx_count
    BY <1>2 DEF Good
  <1>7. Numbered(c)
    BY <1>2 DEF Good, Numbered
  <1>8. Held(c) \union (owed \ {p.req}) \subseteq Held(b) \union owed /\ (owed \ {p.req}) \intersect Held(c) = {}
    BY <1>3, <1>4
  <1>9. Good(c, owed \ {p.req})
    BY <1>1, <1>2, <1>5, <1>6, <1>7, <1>8, GoodHeld
  <1>10. Follows(b, c)
    BY <1>1, <1>2, FollowsSame DEF Shrinks
  <1> QED BY <1>2, <1>9, <1>10 DEF c

\* A ping that is over owes its answer.
LEMMA PingOverOk ==
    ASSUME NEW b, NEW owed, Good(b, owed), b.ping /= None
    PROVE  LET c == [b EXCEPT !.ping = None] IN
           /\ b.ping \in Pings /\ b.ping.req \in Reqs /\ b.ping.req \notin owed
           /\ Good(c, owed \union {b.ping.req}) /\ Follows(b, c)
           /\ c.pending_send = b.pending_send /\ c.send = b.send
           /\ c.radio_on = b.radio_on /\ c.present = b.present /\ c.blocked = b.blocked
           /\ c.next_cmd = b.next_cmd
  <1> DEFINE c == [b EXCEPT !.ping = None]
  <1>1. b \in Boards /\ b.gate = b.last_policy /\ b.blocked \subseteq b.present
        /\ b.ping \in Pings /\ b.ping.req \in Reqs
    BY DEF Good, Boards, Pings
  <1>2. /\ c \in Boards /\ c.ping = None /\ c.pending_send = b.pending_send /\ c.send = b.send
        /\ c.radio_on = b.radio_on /\ c.present = b.present /\ c.blocked = b.blocked
        /\ c.last_policy = b.last_policy /\ c.gate = b.gate
        /\ c.cmds = b.cmds /\ c.next_cmd = b.next_cmd /\ c.answers = b.answers
        /\ c.dropped = b.dropped /\ c.queued = b.queued /\ c.confirmed = b.confirmed
    BY <1>1 DEF Boards
  <1> HIDE DEF c
  <1>3. b.ping.req \in Held(b) /\ b.ping.req \notin owed
    BY <1>1 DEF Held, Good, Ledger
  <1>4. (owed \union {b.ping.req}) \intersect Held(c) = {}
    BY <1>2 DEF Held, Good, Ledger
  <1>5. Good(c, owed \union {b.ping.req})
    BY <1>1, <1>2, <1>3, <1>4, GoodSame
  <1>6. Follows(b, c)
    BY <1>1, <1>2, FollowsSame DEF Shrinks
  <1> QED BY <1>1, <1>2, <1>3, <1>5, <1>6 DEF c

-----------------------------------------------------------------------------
(* Handlers.                                                               *)

\* What a handler does to the queue and to the sends: it numbers on, frames go with the
\* engine's policy in the gate, and sends only end.
Extends(b, c) ==
    /\ c.next_cmd >= b.next_cmd
    /\ \A i \in 1 .. Len(c.cmds) : Old(b, c.cmds[i]) \/ c.cmds[i].id >= b.next_cmd

Minted(b, c) ==
    (\E i \in 1 .. Len(c.cmds) : c.cmds[i].kind = "Tx" /\ c.cmds[i].id >= b.next_cmd)
        => c.gate = EnginePolicy(c)

Handled(b, c) == Extends(b, c) /\ Minted(b, c) /\ c.queued = b.queued /\ Shrinks(b, c)

Done(b, c, owed) == Good(c, owed) /\ Linked(c) /\ Handled(b, c)

\* The commands queued before have smaller numbers.
LEMMA OldIsLess ==
    ASSUME NEW b, NEW owed, Good(b, owed), NEW cmd, Old(b, cmd)
    PROVE  cmd.id \in Nat /\ cmd.id < b.next_cmd /\ b.next_cmd \in Nat
  <1>1. PICK j \in 1 .. Len(b.cmds) : b.cmds[j] = cmd
    BY DEF Old
  <1>2. b.cmds \in Seq(Cmds) /\ b.next_cmd \in Nat
    BY DEF Good, Boards
  <1>3. cmd \in Cmds
    BY <1>1, <1>2
  <1> QED BY <1>1, <1>2, <1>3 DEF Good, Numbered, Cmds

\* A handler that queues no frame.
LEMMA FollowsHandled ==
    ASSUME NEW b, NEW owed, Good(b, owed), NEW c, Follows(b, c)
    PROVE  Handled(b, c)
  <1>1. Extends(b, c) /\ c.queued = b.queued /\ Shrinks(b, c)
    BY DEF Follows, Extends
  <1>2. Minted(b, c)
    <2> SUFFICES ASSUME NEW i \in 1 .. Len(c.cmds), c.cmds[i].kind = "Tx", c.cmds[i].id >= b.next_cmd
                 PROVE  FALSE
      BY DEF Minted
    <2>1. Old(b, c.cmds[i])
      BY DEF Follows
    <2> QED BY <2>1, OldIsLess
  <1> QED BY <1>1, <1>2 DEF Handled

\* A board without a send in the engine is linked; so is one with the fields of a linked one.
LEMMA StillLinked ==
    ASSUME NEW b, NEW c,
           \/ c.pending_send = None
           \/ /\ Linked(b) /\ c.pending_send = b.pending_send /\ c.send = b.send
              /\ c.radio_on = b.radio_on /\ c.present = b.present /\ c.blocked = b.blocked
    PROVE  Linked(c)
  BY DEF Linked

\* A frame that belongs to no request goes out after sync_policy.
LEMMA OtherFrameOk ==
    ASSUME NEW b, NEW owed, Good(b, owed), Linked(b)
    PROVE  LET c == TrySend(SyncPolicy(b), "Tx", 0) IN
           Done(b, c, owed) /\ c.gate = EnginePolicy(c)
  <1> DEFINE s == SyncPolicy(b)
             c == TrySend(s, "Tx", 0)
  <1>1. /\ Good(s, owed) /\ Same(b, s) /\ s.gate = EnginePolicy(s) /\ s.queued = b.queued
        /\ s.cmds = b.cmds /\ s.next_cmd = b.next_cmd
    BY SyncOk DEF Follows
  <1> HIDE DEF s
  <1>2. /\ Good(c, owed) /\ Same(s, c) /\ c.queued = s.queued
    BY <1>1, TrySendGood
  <1>3. /\ c.gate = s.gate /\ c.next_cmd = s.next_cmd + 1
        /\ \A i \in 1 .. Len(c.cmds) : Old(s, c.cmds[i]) \/ c.cmds[i].id = s.next_cmd
    BY <1>1, TrySendOk
  <1> HIDE DEF c
  <1>4. c.gate = EnginePolicy(c)
    BY <1>1, <1>2, <1>3 DEF Same, EnginePolicy
  <1>5. Extends(b, c)
    <2>1. b.next_cmd \in Nat
      BY DEF Good, Boards
    <2> QED BY <1>1, <1>3, <2>1 DEF Extends, Old
  <1>6. Handled(b, c)
    BY <1>1, <1>2, <1>4, <1>5 DEF Handled, Minted, Shrinks, Same
  <1>7. Linked(c)
    BY <1>1, <1>2, StillLinked DEF Same
  <1> QED BY <1>2, <1>4, <1>6, <1>7 DEF Done, c, s

\* The completion of a frame, of the send or of the forward.
LEMMA TxDoneOk ==
    ASSUME NEW b, NEW owed, Good(b, owed), Linked(b), NEW e, e.result \in Outcomes
    PROVE  Done(b, OnTxDone(b, e), owed)
  <1> DEFINE c == OnTxDone(b, e)
  <1> SUFFICES Good(c, owed) /\ Linked(c) /\ Follows(b, c)
    BY FollowsHandled DEF Done
  <1>1. CASE b.send /= None /\ b.send.cmd = e.id
    <2>1. CASE e.result = "Ok"
      <3>1. c = [b EXCEPT !.send.due = FALSE]
        BY <1>1, <2>1 DEF OnTxDone
      <3> HIDE DEF c
      <3> QED BY <1>1, <3>1, DueOk
    <2>2. CASE e.result /= "Ok"
      <3>1. PICK code \in Codes \ {"ACKNOWLEDGED"} : c = Reply(SendOver(b), b.send.req, code)
        BY <1>1, <2>2 DEF OnTxDone, Outcomes, EndSend, EmitErr, Codes
      <3> HIDE DEF c
      <3>2. Good(c, owed) /\ Follows(b, c) /\ c.pending_send = None
        BY <1>1, <3>1, SendAnswered
      <3> QED BY <3>2, StillLinked
    <2> QED BY <2>1, <2>2
  <1>2. CASE ~(b.send /= None /\ b.send.cmd = e.id) /\ b.forward = e.id
    <2>1. c = [b EXCEPT !.forward = None]
      BY <1>2 DEF OnTxDone
    <2> HIDE DEF c
    <2>2. Good(c, owed) /\ Same(b, c) /\ Follows(b, c)
      BY <2>1, ForwardOk
    <2> QED BY <2>2, StillLinked DEF Same
  <1>3. CASE ~(b.send /= None /\ b.send.cmd = e.id) /\ b.forward /= e.id
    <2>1. c = b
      BY <1>3 DEF OnTxDone
    <2>2. Follows(b, b)
      BY FollowsSame DEF Good, Shrinks
    <2> QED BY <2>1, <2>2
  <1> QED BY <1>1, <1>2, <1>3

\* The completion of a probe.
LEMMA CadDoneOk ==
    ASSUME NEW b, NEW owed, Good(b, owed), Linked(b), NEW e, e.result \in Outcomes
    PROVE  Done(b, OnCadDone(b, e), owed)
  <1> DEFINE c == OnCadDone(b, e)
             r == b.ping.req
             over == [b EXCEPT !.ping = None]
  <1> SUFFICES Good(c, owed) /\ Linked(c) /\ Follows(b, c)
    BY FollowsHandled DEF Done
  <1>0. b \in Boards
    BY DEF Good
  <1>1. CASE b.ping = None \/ b.ping.cmd /= e.id
    <2>1. c = b
      BY <1>1 DEF OnCadDone
    <2>2. Follows(b, b)
      BY FollowsSame DEF Good, Shrinks
    <2> QED BY <2>1, <2>2
  <1>2. CASE b.ping /= None /\ b.ping.cmd = e.id
    <2>1. /\ b.ping \in Pings /\ r \in Reqs /\ r \notin owed
          /\ Good(over, owed \union {r}) /\ Follows(b, over)
          /\ over.pending_send = b.pending_send /\ over.send = b.send
          /\ over.radio_on = b.radio_on /\ over.present = b.present /\ over.blocked = b.blocked
      BY <1>2, PingOverOk
    <2>2. (owed \union {r}) \ {r} = owed
      BY <2>1
    <2>3. CASE \E code \in Codes \ {"ACKNOWLEDGED"} : c = Reply(over, r, code)
      <3> HIDE DEF over, r, c
      <3>1. PICK code \in Codes \ {"ACKNOWLEDGED"} : c = Reply(over, r, code)
        BY <2>3
      <3> DEFINE debts == owed \union {r}
      <3>0. Good(over, debts) /\ r \in Reqs /\ r \in debts /\ debts \ {r} = owed
        BY <2>1, <2>2
      <3> HIDE DEF debts
      <3>2. Good(c, owed) /\ Same(over, c) /\ Follows(over, c)
        BY <3>0, <3>1, ErrOk
      <3>3. Follows(b, c)
        BY <1>0, <2>1, <3>2, FollowsTrans DEF Good
      <3> QED BY <2>1, <3>2, <3>3, StillLinked DEF Same
    <2>4. CASE e.result = "Ok" /\ b.ping.remaining /= 1 /\ ~CanQueue(b)
      <3> DEFINE t == TrySend(over, "CadProbe", 0)
      <3>1. c = Reply(t, r, "BUSY")
        BY <1>2, <2>4 DEF OnCadDone, EmitErr
      <3> HIDE DEF over, r
      <3>2. Good(t, owed \union {r}) /\ Same(over, t) /\ Follows(over, t)
        BY <2>1, TrySendGood
      <3> HIDE DEF t, c
      <3>3. Good(c, owed) /\ Same(t, c) /\ Follows(t, c)
        BY <2>1, <2>2, <3>1, <3>2, ErrOk DEF Codes
      <3>4. over \in Boards /\ t \in Boards /\ c \in Boards
        BY <2>1, <3>2, <3>3 DEF Good
      <3>5. Follows(b, c)
        <4>1. Follows(b, t)
          BY <1>0, <2>1, <3>2, <3>4, FollowsTrans
        <4> QED BY <1>0, <3>3, <3>4, <4>1, FollowsTrans
      <3> QED BY <2>1, <3>2, <3>3, <3>5, StillLinked DEF Same
    <2>5. CASE e.result = "Ok" /\ b.ping.remaining /= 1 /\ CanQueue(b)
      <3> DEFINE t == TrySend(b, "CadProbe", 0)
                 p == [b.ping EXCEPT !.remaining = @ - 1, !.cmd = b.next_cmd]
      <3>1. c = [t EXCEPT !.ping.remaining = @ - 1, !.ping.cmd = b.next_cmd]
        BY <1>2, <2>5 DEF OnCadDone
      <3>2. Good(t, owed) /\ Same(b, t) /\ Follows(b, t)
        BY TrySendGood
      <3>3. p \in Pings /\ p.req = r
        <4>1. b.next_cmd \in Nat /\ b.ping.remaining \in 1 .. Probes /\ Probes \in Nat
          BY <1>0, <2>1, RuntimeAssumption DEF Pings, Boards
        <4>2. b.ping.remaining - 1 \in 1 .. Probes
          BY <2>5, <4>1
        <4> QED BY <2>1, <4>1, <4>2 DEF Pings
      <3> HIDE DEF t, c
      <3>4. t \in Boards /\ t.ping = b.ping
        BY <3>2 DEF Good, Same
      <3>5. c = [t EXCEPT !.ping = p]
        BY <3>1, <3>4 DEF Boards
      <3> HIDE DEF p
      <3>6. /\ Good(c, owed \ {r}) /\ Follows(t, c)
            /\ c.pending_send = t.pending_send /\ c.send = t.send
            /\ c.radio_on = t.radio_on /\ c.present = t.present /\ c.blocked = t.blocked
        BY <1>2, <3>2, <3>3, <3>4, <3>5, PingSetOk
      <3>7. owed \ {r} = owed
        BY <2>1
      <3>8. Follows(b, c)
        BY <1>0, <3>2, <3>4, <3>6, FollowsTrans DEF Good
      <3> QED BY <3>2, <3>6, <3>7, <3>8, StillLinked DEF Same
    <2> QED BY <1>2, <2>3, <2>4, <2>5 DEF OnCadDone, Outcomes, Codes, EmitErr, EmitPing
  <1> QED BY <1>1, <1>2

\* A frame to pass on.
LEMMA TransitOk ==
    ASSUME NEW b, NEW owed, Good(b, owed), Linked(b), NEW c \in Transit(b)
    PROVE  Done(b, c, owed)
  <1>1. CASE c = b
    BY <1>1, FollowsHandled, FollowsSame DEF Done, Good, Shrinks
  <1>2. CASE c = [b EXCEPT !.forward = Scheduled]
    <2>1. Good(c, owed) /\ Same(b, c) /\ Follows(b, c)
      BY <1>2, ForwardOk DEF Scheduled
    <2> QED BY <2>1, FollowsHandled, StillLinked DEF Done, Same
  <1> QED BY <1>1, <1>2 DEF Transit

\* A failed commit, as a handler.
LEMMA CommitFailedDone ==
    ASSUME NEW b, NEW owed, Good(b, owed)
    PROVE  Done(b, CommitFailed(b), owed)
  BY CommitFailedOk, FollowsHandled, StillLinked DEF Done

\* An acknowledgement: the engine's send is the runtime's, so the right request is answered.
LEMMA AckOk ==
    ASSUME NEW b, NEW owed, Good(b, owed), Linked(b), NEW r \in Reqs, NEW c \in OnAck(b, r)
    PROVE  Done(b, c, owed)
  <1>1. CASE b.fault
    BY <1>1, TransitOk DEF OnAck
  <1>2. CASE c = CommitFailed(b)
    BY <1>2, CommitFailedDone
  <1>3. CASE c = b
    BY <1>3, FollowsHandled, FollowsSame DEF Done, Good, Shrinks
  <1>4. CASE Matches(b, r) /\ b.send /= None
             /\ c = EmitAcknowledged(SendOver([b EXCEPT !.confirmed = @ \union {r}]), b.send.req)
    <2> DEFINE d == [b EXCEPT !.confirmed = @ \union {r}]
    <2>1. b \in Boards /\ b.gate = b.last_policy /\ b.blocked \subseteq b.present
      BY DEF Good
    <2>2. /\ d \in Boards /\ Same(b, d) /\ d.last_policy = b.last_policy /\ d.gate = b.gate
          /\ d.cmds = b.cmds /\ d.next_cmd = b.next_cmd /\ d.answers = b.answers
          /\ d.dropped = b.dropped /\ d.queued = b.queued /\ d.confirmed = b.confirmed \union {r}
      BY <2>1 DEF Boards, Same
    <2>3. b.send.req = r
      BY <1>4 DEF Matches, Linked
    <2>4. c = Reply(SendOver(d), b.send.req, "ACKNOWLEDGED")
      BY <1>4 DEF EmitAcknowledged
    <2> HIDE DEF d
    <2>5. Held(d) = Held(b) /\ owed \intersect Held(b) = {}
      BY <2>2 DEF Held, Same, Good, Ledger
    <2>6. Good(d, owed)
      BY <2>1, <2>2, <2>5, GoodSame DEF Same
    <2>7. Follows(b, d)
      BY <2>1, <2>2, FollowsSame DEF Same, Shrinks
    <2>8. d.send = b.send /\ d.send /= None /\ d.send.req \in d.confirmed /\ "ACKNOWLEDGED" \in Codes
      BY <1>4, <2>2, <2>3 DEF Same, Codes
    <2>9. c = Reply(SendOver(d), d.send.req, "ACKNOWLEDGED")
      BY <2>4, <2>8
    <2>10. Good(c, owed) /\ Follows(d, c) /\ c.pending_send = None
      BY <2>6, <2>8, <2>9, SendAnswered
    <2>11. Follows(b, c)
      BY <2>1, <2>2, <2>7, <2>10, FollowsTrans DEF Good
    <2> QED BY <2>10, <2>11, FollowsHandled, StillLinked DEF Done
  <1> QED BY <1>1, <1>2, <1>3, <1>4 DEF OnAck

\* Every event leaves what is owed to others alone.
LEMMA EvtOk ==
    ASSUME NEW b, NEW owed, Good(b, owed), Linked(b), NEW e \in Events, NEW c \in OnEvt(b, e)
    PROVE  Done(b, c, owed)
  <1>1. e.kind \in {"TxDone", "CadDone", "ControlDone", "RxData", "RxAck", "RxTransit", "Fault"}
    BY DEF Events
  <1>2. CASE e.kind = "TxDone"
    <2>1. c = OnTxDone(b, e) /\ e.result \in Outcomes
      BY <1>2 DEF OnEvt, Events
    <2> QED BY <2>1, TxDoneOk
  <1>3. CASE e.kind = "CadDone"
    <2>1. c = OnCadDone(b, e) /\ e.result \in Outcomes
      BY <1>3 DEF OnEvt, Events
    <2> QED BY <2>1, CadDoneOk
  <1>4. CASE e.kind = "ControlDone"
    <2>1. c = b
      BY <1>4 DEF OnEvt
    <2> QED BY <2>1, FollowsHandled, FollowsSame DEF Done, Good, Shrinks
  <1>5. CASE e.kind = "RxData"
    <2>1. c \in OnData(b, e.from)
      BY <1>5 DEF OnEvt
    <2>2. c \in Transit(b) \/ c = b \/ c = CommitFailed(b) \/ c = TrySend(SyncPolicy(b), "Tx", 0)
      BY <2>1 DEF OnData, SendAckFrame
    <2> QED BY <2>2, TransitOk, CommitFailedDone, OtherFrameOk DEF Transit
  <1>6. CASE e.kind = "RxAck"
    <2>1. c \in OnAck(b, e.req) /\ e.req \in Reqs
      BY <1>6 DEF OnEvt, Events
    <2> QED BY <2>1, AckOk
  <1>7. CASE e.kind = "RxTransit"
    <2>1. c \in Transit(b)
      BY <1>7 DEF OnEvt
    <2> QED BY <2>1, TransitOk
  <1>8. CASE e.kind = "Fault"
    <2>1. c = FailRadioClosed(b)
      BY <1>8 DEF OnEvt
    <2> QED BY <2>1, FailRadioClosedOk, FollowsHandled, StillLinked DEF Done, Linked
  <1> QED BY <1>1, <1>2, <1>3, <1>4, <1>5, <1>6, <1>7, <1>8

-----------------------------------------------------------------------------
(* Requests: r is owed when its handler begins, and is answered, taken by  *)
(* a send or a ping, or left to a wait when it ends.                       *)

\* A board of the handler that answers with an error.
LEMMA RefusedOk ==
    ASSUME NEW a, a \in Boards, NEW b, NEW owed, Good(b, owed), Linked(b), Follows(a, b),
           NEW r \in Reqs, r \in owed, NEW code \in Codes \ {"ACKNOWLEDGED"}
    PROVE  LET c == Reply(b, r, code) IN Good(c, owed \ {r}) /\ Linked(c) /\ Follows(a, c)
  <1> DEFINE c == Reply(b, r, code)
  <1>1. Good(c, owed \ {r}) /\ Same(b, c) /\ Follows(b, c)
    BY ErrOk
  <1> HIDE DEF c
  <1>2. Linked(c)
    BY <1>1, StillLinked DEF Same
  <1>3. Follows(a, c)
    BY <1>1, FollowsTrans DEF Good
  <1> QED BY <1>1, <1>2, <1>3 DEF c

\* A command whose commit fails is answered after the radio was closed.
LEMMA CommitRefusedOk ==
    ASSUME NEW a, a \in Boards, NEW b, NEW owed, Good(b, owed), Follows(a, b), NEW r \in Reqs, r \in owed
    PROVE  LET c == Reply(CommitFailed(b), r, "STORAGE_FAULT") IN
           Good(c, owed \ {r}) /\ Linked(c) /\ Follows(a, c)
  <1> DEFINE f == CommitFailed(b)
  <1>1. Good(f, owed) /\ Follows(b, f) /\ f.pending_send = None
    BY CommitFailedOk
  <1> HIDE DEF f
  <1>2. Linked(f) /\ Follows(a, f)
    BY <1>1, StillLinked, FollowsTrans DEF Good
  <1> QED BY <1>1, <1>2, RefusedOk DEF Codes, f

\* A send that begins.
Begins(b, d, r) ==
    /\ b.send = None
    /\ Extends(b, d) /\ Minted(b, d)
    /\ d.send /= None /\ d.send.req = r
    /\ d.queued[r] = 1 /\ \A s \in Reqs : s /= r => d.queued[s] = b.queued[s]

\* queue_tx of the first attempt, of a send the engine has just taken.
LEMMA QueueFirstOk ==
    ASSUME NEW b, NEW owed, Good(b, owed), b.send = None, b.pending_send = None,
           NEW r \in Reqs, r \in owed, b.queued[r] = 0,
           NEW k \in Contacts, b.radio_on, k \in b.present \ b.blocked
    PROVE  LET d == QueueFirst([b EXCEPT !.pending_send = [req |-> r, contact |-> k]], r, k) IN
           Good(d, owed \ {r}) /\ Linked(d) /\ (Follows(b, d) \/ Begins(b, d, r))
  <1> DEFINE n == [req |-> r, contact |-> k]
             p == [b EXCEPT !.pending_send = n]
             s == SyncPolicy(p)
             q == TrySend(s, "Tx", r)
             m == [req |-> r, contact |-> k, tx_count |-> 1, cmd |-> s.next_cmd, due |-> FALSE]
             d == QueueFirst(p, r, k)
  <1>1. b \in Boards /\ b.gate = b.last_policy /\ b.blocked \subseteq b.present /\ b.next_cmd \in Nat
    BY DEF Good, Boards
  <1>2. n \in Pendings /\ n /= None /\ n.req = r /\ n.contact = k
    BY RuntimeAssumption DEF Pendings
  <1>3. /\ p \in Boards /\ p.pending_send = n /\ p.send = None /\ p.ping = b.ping
        /\ p.radio_on = b.radio_on /\ p.present = b.present /\ p.blocked = b.blocked
        /\ p.last_policy = b.last_policy /\ p.gate = b.gate
        /\ p.cmds = b.cmds /\ p.next_cmd = b.next_cmd /\ p.answers = b.answers
        /\ p.dropped = b.dropped /\ p.queued = b.queued /\ p.confirmed = b.confirmed
    <2> HIDE DEF n
    <2> QED BY <1>1, <1>2 DEF Boards
  <1> HIDE DEF n, p
  <1>4. Held(p) = Held(b) /\ owed \intersect Held(b) = {}
    BY <1>3 DEF Held, Good, Ledger
  <1>5. Good(p, owed)
    BY <1>1, <1>3, <1>4, GoodSame
  <1>6. /\ Good(s, owed) /\ Same(p, s) /\ s.gate = EnginePolicy(s) /\ s.queued = b.queued
        /\ s.cmds = b.cmds /\ s.next_cmd = b.next_cmd
    BY <1>3, <1>5, SyncOk DEF Follows
  <1> HIDE DEF s
  <1>7. r \in Nat
    BY RuntimeAssumption DEF Reqs
  <1>8. /\ q \in Boards /\ Same(s, q) /\ q.forward = s.forward /\ q.fault = s.fault
        /\ q.last_policy = s.last_policy /\ q.gate = s.gate
        /\ q.answers = s.answers /\ q.dropped = s.dropped /\ q.confirmed = s.confirmed
        /\ q.next_cmd = s.next_cmd + 1
        /\ \A t \in Reqs : q.queued[t] = IF t = r /\ CanQueue(s) THEN s.queued[t] + 1 ELSE s.queued[t]
        /\ Numbered(q) /\ Ledger(q, owed)
        /\ \A i \in 1 .. Len(q.cmds) : \/ Old(s, q.cmds[i])
                                       \/ q.cmds[i].id = s.next_cmd /\ q.cmds[i].kind = "Tx"
    BY <1>6, <1>7, TrySendOk
  <1> HIDE DEF q
  <1>9. /\ q.send = None /\ q.pending_send = n /\ q.ping = b.ping /\ q.radio_on = b.radio_on
        /\ q.present = b.present /\ q.blocked = b.blocked
    BY <1>3, <1>6, <1>8 DEF Same
  <1>10. Good(q, owed) /\ Held(q) = Held(b)
    <2>1. Held(q) = Held(b)
      BY <1>9 DEF Held
    <2>2. q.blocked \subseteq q.present /\ q.gate = q.last_policy
      BY <1>1, <1>6, <1>8, <1>9 DEF Good
    <2>3. \A t \in Reqs : q.answers[t] = <<"ACKNOWLEDGED">> => t \in q.confirmed
      BY <1>6, <1>8 DEF Good
    <2> QED BY <1>8, <1>9, <2>1, <2>2, <2>3 DEF Good
  <1>11. Extends(b, q)
    BY <1>1, <1>6, <1>8 DEF Extends, Old
  <1>12. CASE CanQueue(s)
    <2>1. d = [q EXCEPT !.send = m]
      BY <1>12 DEF QueueFirst, q, s
    <2>2. m \in Sends /\ m /= None /\ m.req = r /\ m.contact = k /\ m.tx_count = 1
      <3>1. s.next_cmd \in Nat /\ 1 \in 1 .. MaxTx
        BY <1>1, <1>6, RuntimeAssumption
      <3>2. m \in Sends
        BY <3>1 DEF Sends
      <3>3. m /= None
        <4> HIDE DEF m
        <4> QED BY <3>2, RuntimeAssumption
      <3> QED BY <3>2, <3>3
    <2> HIDE DEF m, d
    <2>3. /\ d \in Boards /\ d.send = m /\ d.pending_send = n /\ d.ping = b.ping /\ d.radio_on = b.radio_on
          /\ d.present = b.present /\ d.blocked = b.blocked
          /\ d.last_policy = q.last_policy /\ d.gate = q.gate
          /\ d.cmds = q.cmds /\ d.next_cmd = q.next_cmd /\ d.answers = q.answers
          /\ d.dropped = q.dropped /\ d.queued = q.queued /\ d.confirmed = q.confirmed
      BY <1>8, <1>9, <2>1, <2>2 DEF Boards
    <2>4. Held(d) = Held(b) \union {r}
      BY <1>3, <2>2, <2>3 DEF Held
    <2>5. d.queued[r] = 1 /\ \A t \in Reqs : t /= r => d.queued[t] = b.queued[t]
      BY <1>6, <1>8, <1>12, <2>3
    <2>6. d.ping /= None => r /= d.ping.req
      BY <1>4, <2>3 DEF Held
    <2>7. Numbered(d)
      BY <1>8, <2>3 DEF Numbered
    <2>8. Held(d) \union (owed \ {r}) \subseteq Held(q) \union owed /\ (owed \ {r}) \intersect Held(d) = {}
      BY <1>4, <1>10, <2>4
    <2>9. d.gate = d.last_policy /\ d.blocked \subseteq d.present
      BY <1>10, <1>1, <2>3 DEF Good
    <2>10. Good(d, owed \ {r})
      BY <1>10, <2>2, <2>3, <2>5, <2>6, <2>7, <2>8, <2>9, GoodHeld
    <2>11. Linked(d)
      BY <1>2, <2>2, <2>3 DEF Linked
    <2>12. d.gate = EnginePolicy(d)
      BY <1>3, <1>6, <1>8, <2>3 DEF Same, EnginePolicy
    <2>13. Begins(b, d, r)
      BY <1>11, <2>2, <2>3, <2>5, <2>12 DEF Begins, Extends, Minted
    <2> QED BY <2>10, <2>11, <2>13 DEF d, p, n
  <1>13. CASE ~CanQueue(s)
    <2> DEFINE x == [q EXCEPT !.pending_send = None]
    <2>1. d = Reply(x, r, "BUSY")
      BY <1>13 DEF QueueFirst, q, s, EmitErr
    <2>2. /\ x \in Boards /\ x.send = None /\ x.pending_send = None /\ x.ping = b.ping
          /\ x.radio_on = b.radio_on /\ x.present = b.present /\ x.blocked = b.blocked
          /\ x.last_policy = q.last_policy /\ x.gate = q.gate
          /\ x.cmds = q.cmds /\ x.next_cmd = q.next_cmd /\ x.answers = q.answers
          /\ x.dropped = q.dropped /\ x.queued = q.queued /\ x.confirmed = q.confirmed
      BY <1>8, <1>9 DEF Boards
    <2> HIDE DEF x, d
    <2>3. Held(x) = Held(b)
      BY <2>2 DEF Held
    <2>4. x.gate = x.last_policy /\ x.blocked \subseteq x.present
      BY <1>10, <1>1, <2>2 DEF Good
    <2>5. Good(x, owed)
      BY <1>4, <1>9, <1>10, <2>2, <2>3, <2>4, GoodSame
    <2>6. x.queued = b.queued
      <3>1. x.queued \in [Reqs -> Nat] /\ b.queued \in [Reqs -> Nat]
        BY <1>1, <2>2 DEF Boards
      <3> QED BY <1>6, <1>8, <1>13, <2>2, <3>1
    <2>7. q.cmds = s.cmds
      <3>1. s \in Boards
        BY <1>6 DEF Good
      <3> QED BY <1>13, <3>1 DEF q, TrySend, Boards
    <2>8. Follows(b, x)
      BY <1>1, <1>6, <1>8, <2>2, <2>6, <2>7 DEF Follows, Old, Shrinks
    <2>9. Linked(x)
      BY <2>2, StillLinked
    <2>10. Good(d, owed \ {r}) /\ Linked(d) /\ Follows(b, d)
      BY <1>1, <2>1, <2>5, <2>8, <2>9, RefusedOk DEF Codes
    <2> QED BY <2>10 DEF d, p, n
  <1> QED BY <1>12, <1>13

\* Nothing changes.
LEMMA FollowsSelf == ASSUME NEW b \in Boards PROVE Follows(b, b)
  BY FollowsSame DEF Shrinks

\* op_send
LEMMA OpSendOk ==
    ASSUME NEW b, NEW owed, Good(b, owed), Linked(b), NEW r \in Reqs, r \in owed, b.queued[r] = 0,
           NEW k \in Contacts, NEW d \in OpSend(b, r, k)
    PROVE  Good(d, owed \ {r}) /\ Linked(d) /\ (Follows(b, d) \/ Begins(b, d, r))
  <1>1. b \in Boards /\ Follows(b, b)
    BY FollowsSelf DEF Good
  <1>2. CASE \E code \in Codes \ {"ACKNOWLEDGED"} : d = Reply(b, r, code)
    BY <1>1, <1>2, RefusedOk
  <1>3. CASE d = Reply(CommitFailed(b), r, "STORAGE_FAULT")
    BY <1>1, <1>3, CommitRefusedOk
  <1>4. CASE /\ b.send = None /\ b.pending_send = None /\ b.radio_on /\ k \in b.present \ b.blocked
             /\ d = QueueFirst([b EXCEPT !.pending_send = [req |-> r, contact |-> k]], r, k)
    BY <1>4, QueueFirstOk
  <1>5. b.radio_on \in BOOLEAN
    BY <1>1 DEF Boards
  <1> QED BY <1>2, <1>3, <1>4, <1>5 DEF OpSend, DriveSendPrep, EmitErr, Codes

\* op_ping
LEMMA PingResultOk ==
    ASSUME NEW b, NEW owed, Good(b, owed), Linked(b), NEW r \in Reqs, r \in owed
    PROVE  LET d == PingResult(b, r) IN Good(d, owed \ {r}) /\ Linked(d) /\ Follows(b, d)
  <1> DEFINE t == TrySend(b, "CadProbe", 0)
             p == [req |-> r, remaining |-> Probes, cmd |-> b.next_cmd]
             d == PingResult(b, r)
  <1>1. b \in Boards /\ Follows(b, b) /\ b.next_cmd \in Nat
    BY FollowsSelf DEF Good, Boards
  <1>2. Good(t, owed) /\ Same(b, t) /\ Follows(b, t)
    BY TrySendGood
  <1> HIDE DEF t
  <1>3. Linked(t) /\ t.ping = b.ping
    BY <1>2, StillLinked DEF Same
  <1>4. CASE b.ping /= None
    <2>1. d = Reply(b, r, "BUSY")
      BY <1>4 DEF PingResult, EmitErr
    <2> QED BY <1>1, <2>1, RefusedOk DEF Codes
  <1>5. CASE b.ping = None /\ ~CanQueue(b)
    <2>1. d = Reply(t, r, "BUSY")
      BY <1>5 DEF PingResult, EmitErr, t
    <2> QED BY <1>1, <1>2, <1>3, <2>1, RefusedOk DEF Codes
  <1>6. CASE b.ping = None /\ CanQueue(b)
    <2>1. d = [t EXCEPT !.ping = p]
      BY <1>6 DEF PingResult, t
    <2>2. p \in Pings /\ p.req = r
      BY <1>1, RuntimeAssumption DEF Pings
    <2> HIDE DEF p, d
    <2>3. /\ Good(d, owed \ {r}) /\ Follows(t, d)
          /\ d.pending_send = t.pending_send /\ d.send = t.send
          /\ d.radio_on = t.radio_on /\ d.present = t.present /\ d.blocked = t.blocked
      BY <1>2, <1>3, <1>6, <2>1, <2>2, PingSetOk
    <2>4. Follows(b, d)
      BY <1>1, <1>2, <2>3, FollowsTrans DEF Good
    <2> QED BY <1>3, <2>3, <2>4, StillLinked DEF d
  <1> QED BY <1>4, <1>5, <1>6

\* What a request that begins no send leaves behind.
Outcome(owed, r) ==
    /\ Follows(board, board') /\ Linked(board')
    /\ \/ wait' = None /\ Good(board', owed \ {r})
       \/ /\ wait' \in Waits /\ wait'.req = r /\ Good(board', owed)
          /\ wait'.kind = "SetOff" => board'.pending_send = None

\* The tail of a control.
LEMMA FenceOk ==
    ASSUME board \in Boards, NEW b, NEW owed, Good(b, owed), Linked(b), Follows(board, b),
           NEW r \in Reqs, r \in owed, NEW kind \in {"SetOn", "SetOff", "Block", "Delete"},
           kind = "SetOff" => b.pending_send = None, Fence(b, kind, r)
    PROVE  Outcome(owed, r)
  <1> DEFINE t == TrySend(b, "Barrier", 0)
             w == [kind |-> kind, req |-> r, barrier |-> b.next_cmd]
  <1>1. Good(t, owed) /\ Same(b, t) /\ Follows(b, t)
    BY TrySendGood
  <1> HIDE DEF t
  <1>2. Linked(t) /\ Follows(board, t)
    BY <1>1, StillLinked, FollowsTrans DEF Same, Good
  <1>3. CASE CanQueue(b)
    <2>1. board' = t /\ wait' = w
      BY <1>3 DEF Fence, t
    <2>2. b.next_cmd \in Nat
      BY DEF Good, Boards
    <2>3. w \in Waits /\ w.req = r /\ w.kind = kind
      BY <2>2 DEF Waits
    <2> HIDE DEF w
    <2>4. kind = "SetOff" => t.pending_send = None
      BY <1>1 DEF Same
    <2> QED BY <1>1, <1>2, <2>1, <2>3, <2>4 DEF Outcome
  <1>4. CASE ~CanQueue(b)
    <2>1. board' = Reply(t, r, "BUSY") /\ wait' = None
      BY <1>4 DEF Fence, EmitErr, t
    <2>2. Good(board', owed \ {r}) /\ Linked(board') /\ Follows(board, board')
      BY <1>1, <1>2, <2>1, RefusedOk DEF Codes
    <2> QED BY <2>1, <2>2 DEF Outcome
  <1> QED BY <1>3, <1>4

\* A refusal, and a commit that fails, end the request.
LEMMA RefuseOk ==
    ASSUME NEW owed, Good(board, owed), Linked(board), NEW r \in Reqs, r \in owed,
           NEW code \in Codes \ {"ACKNOWLEDGED"}, Refuse(r, code)
    PROVE  Outcome(owed, r)
  <1>1. board \in Boards /\ Follows(board, board)
    BY FollowsSelf DEF Good
  <1>2. board' = Reply(board, r, code) /\ wait' = None
    BY DEF Refuse, EmitErr
  <1>3. Good(board', owed \ {r}) /\ Linked(board') /\ Follows(board, board')
    BY <1>1, <1>2, RefusedOk
  <1> QED BY <1>2, <1>3 DEF Outcome

\* A command whose commit fails ends with STORAGE_FAULT and no wait.
LEMMA CommitRefusedOutcome ==
    ASSUME board \in Boards, NEW b, NEW owed, Good(b, owed), Follows(board, b), NEW r \in Reqs, r \in owed,
           CommitRefused(b, r)
    PROVE  Outcome(owed, r)
  <1>1. board' = Reply(CommitFailed(b), r, "STORAGE_FAULT") /\ wait' = None
    BY DEF CommitRefused, EmitErr
  <1>2. Good(board', owed \ {r}) /\ Linked(board') /\ Follows(board, board')
    BY <1>1, CommitRefusedOk
  <1> QED BY <1>1, <1>2 DEF Outcome

\* A command on the engine's fields that may take the engine's send away.
LEMMA EngineStepOk ==
    ASSUME NEW b, NEW owed, Good(b, owed), NEW c \in Boards, c.blocked \subseteq c.present,
           c.pending_send /= None => c.pending_send = b.pending_send,
           c.send = b.send, c.ping = b.ping, c.gate = b.gate, c.last_policy = b.last_policy,
           c.cmds = b.cmds, c.next_cmd = b.next_cmd, c.answers = b.answers, c.dropped = b.dropped,
           c.queued = b.queued, c.confirmed = b.confirmed
    PROVE  Good(c, owed) /\ Follows(b, c)
  <1>1. Held(c) = Held(b) /\ owed \intersect Held(b) = {} /\ b \in Boards /\ b.gate = b.last_policy
    BY DEF Held, Good, Ledger
  <1>2. Good(c, owed)
    BY <1>1, GoodSame
  <1>3. Follows(b, c)
    BY <1>1, FollowsSame DEF Shrinks
  <1> QED BY <1>2, <1>3

\* op_radio_set
LEMMA SetRadioOk ==
    ASSUME NEW owed, Good(board, owed), Linked(board), NEW r \in Reqs, r \in owed,
           NEW on \in BOOLEAN, SetRadio(r, on)
    PROVE  Outcome(owed, r)
  <1> DEFINE set == [board EXCEPT !.radio_on = on, !.pending_send = IF on THEN @ ELSE None]
             synced == SyncPolicy(set)
             kind == IF on THEN "SetOn" ELSE "SetOff"
             told == TrySend(synced, "SetEnabled", 0)
  <1>1. board \in Boards
    BY DEF Good
  <1>2. /\ set \in Boards /\ set.radio_on = on /\ set.pending_send = (IF on THEN board.pending_send ELSE None)
        /\ set.send = board.send /\ set.ping = board.ping /\ set.present = board.present
        /\ set.blocked = board.blocked
        /\ set.last_policy = board.last_policy /\ set.gate = board.gate
        /\ set.cmds = board.cmds /\ set.next_cmd = board.next_cmd /\ set.answers = board.answers
        /\ set.dropped = board.dropped /\ set.queued = board.queued /\ set.confirmed = board.confirmed
    <2>1. (IF on THEN board.pending_send ELSE None) \in Pendings \union {None}
      BY <1>1 DEF Boards
    <2>2. set \in Boards
      BY <1>1, <2>1 DEF Boards
    <2> QED BY <1>1, <2>2 DEF Boards
  <1>3. \/ CommitRefused(set, r)
        \/ CanQueue(synced) /\ Fence(told, kind, r)
        \/ board' = Reply(told, r, "BUSY") /\ wait' = None
    BY DEF SetRadio, EmitErr
  <1> HIDE DEF set
  <1>4. Good(set, owed) /\ Follows(board, set)
    BY <1>2, EngineStepOk DEF Good
  <1>5. Linked(set) /\ (~on => set.pending_send = None)
    BY <1>2 DEF Linked
  <1>6. Good(synced, owed) /\ Same(set, synced) /\ Follows(set, synced)
    BY <1>4, SyncOk
  <1> HIDE DEF synced
  <1>7. Good(told, owed) /\ Same(synced, told) /\ Follows(synced, told)
    BY <1>6, TrySendGood
  <1> HIDE DEF told
  <1>8. Follows(board, told)
    <2>1. set \in Boards /\ synced \in Boards /\ told \in Boards
      BY <1>4, <1>6, <1>7 DEF Good
    <2>2. Follows(board, synced)
      BY <1>1, <1>4, <1>6, <2>1, FollowsTrans
    <2> QED BY <1>1, <1>7, <2>1, <2>2, FollowsTrans
  <1>9. Linked(told) /\ told.pending_send = set.pending_send
    BY <1>5, <1>6, <1>7, StillLinked DEF Same
  <1>10. kind \in {"SetOn", "SetOff", "Block", "Delete"} /\ (kind = "SetOff" => told.pending_send = None)
    BY <1>5, <1>9
  <1> HIDE DEF kind
  <1>11. CASE CommitRefused(set, r)
    BY <1>1, <1>4, <1>11, CommitRefusedOutcome
  <1>12. CASE Fence(told, kind, r)
    BY <1>1, <1>7, <1>8, <1>9, <1>10, <1>12, FenceOk
  <1>13. CASE board' = Reply(told, r, "BUSY") /\ wait' = None
    <2>1. Good(board', owed \ {r}) /\ Linked(board') /\ Follows(board, board')
      BY <1>1, <1>7, <1>8, <1>9, <1>13, RefusedOk DEF Codes
    <2> QED BY <1>13, <2>1 DEF Outcome
  <1> QED BY <1>3, <1>11, <1>12, <1>13

\* op_block
LEMMA SetBlockedOk ==
    ASSUME NEW owed, Good(board, owed), Linked(board), NEW r \in Reqs, r \in owed,
           NEW k \in Contacts, NEW on \in BOOLEAN, SetBlocked(r, k, on)
    PROVE  Outcome(owed, r)
  <1> DEFINE c == BlockedBoard(board, k, on)
             s == SyncPolicy(c)
             blocked == IF on THEN board.blocked \union {k} ELSE board.blocked \ {k}
             pending == IF on /\ board.pending_send /= None /\ board.pending_send.contact = k
                        THEN None ELSE board.pending_send
  <1>1. board \in Boards /\ board.blocked \subseteq board.present /\ board.present \subseteq Contacts
    BY DEF Good, Boards
  <1>2. CASE k \notin board.present
    BY <1>2, RefuseOk DEF SetBlocked, Codes
  <1>3. CASE k \in board.present
    <2>1. c = [board EXCEPT !.blocked = blocked, !.pending_send = pending]
      BY <1>1 DEF BlockedBoard, Boards
    <2>2. blocked \subseteq board.present /\ blocked \in SUBSET Contacts /\ pending \in Pendings \union {None}
      BY <1>1, <1>3 DEF Boards
    <2>3. CommitRefused(c, r) \/ Fence(s, "Block", r)
      BY <1>3 DEF SetBlocked
    <2>4. pending /= None => /\ pending = board.pending_send
                             /\ board.send.contact \in board.present \ blocked
      BY <1>3 DEF Linked
    <2> HIDE DEF blocked, pending, c
    <2>5. /\ c \in Boards /\ c.blocked = blocked /\ c.pending_send = pending
          /\ c.radio_on = board.radio_on /\ c.send = board.send /\ c.ping = board.ping
          /\ c.present = board.present
          /\ c.last_policy = board.last_policy /\ c.gate = board.gate
          /\ c.cmds = board.cmds /\ c.next_cmd = board.next_cmd /\ c.answers = board.answers
          /\ c.dropped = board.dropped /\ c.queued = board.queued /\ c.confirmed = board.confirmed
      BY <1>1, <2>1, <2>2 DEF Boards
    <2>6. Good(c, owed) /\ Follows(board, c)
      BY <2>2, <2>4, <2>5, EngineStepOk
    <2>7. Linked(c)
      BY <2>4, <2>5 DEF Linked
    <2>8. Good(s, owed) /\ Same(c, s) /\ Follows(c, s)
      BY <2>6, SyncOk
    <2> HIDE DEF s
    <2>9. Linked(s) /\ Follows(board, s)
      BY <1>1, <2>5, <2>6, <2>7, <2>8, StillLinked, FollowsTrans DEF Same, Good
    <2> QED BY <1>1, <2>3, <2>6, <2>8, <2>9, CommitRefusedOutcome, FenceOk
  <1> QED BY <1>2, <1>3

\* op_delete
LEMMA DeleteOk ==
    ASSUME NEW owed, Good(board, owed), Linked(board), NEW r \in Reqs, r \in owed,
           NEW k \in Contacts, Delete(r, k)
    PROVE  Outcome(owed, r)
  <1> DEFINE c == DeletedBoard(board, k)
             s == SyncPolicy(c)
             pending == IF board.pending_send /= None /\ board.pending_send.contact = k
                        THEN None ELSE board.pending_send
             g == IF s.send = None THEN s ELSE EndSend(s, "BUSY")
  <1>1. board \in Boards /\ board.blocked \subseteq board.present /\ board.present \subseteq Contacts
    BY DEF Good, Boards
  <1>2. CASE k \notin board.present
    BY <1>2, RefuseOk DEF Delete, Codes
  <1>3. CASE k \in board.present
    <2>1. c = [board EXCEPT !.present = board.present \ {k}, !.blocked = board.blocked \ {k},
                            !.pending_send = pending]
      BY <1>1 DEF DeletedBoard, Boards
    <2>2. pending \in Pendings \union {None}
      BY <1>1 DEF Boards
    <2>3. CommitRefused(c, r) \/ Fence(g, "Delete", r)
      BY <1>3 DEF Delete
    <2>4. pending /= None => /\ pending = board.pending_send
                             /\ board.send.contact /= k
      BY DEF Linked
    <2> HIDE DEF pending, c
    <2>5. /\ c \in Boards /\ c.blocked = board.blocked \ {k} /\ c.pending_send = pending
          /\ c.radio_on = board.radio_on /\ c.send = board.send /\ c.ping = board.ping
          /\ c.present = board.present \ {k}
          /\ c.last_policy = board.last_policy /\ c.gate = board.gate
          /\ c.cmds = board.cmds /\ c.next_cmd = board.next_cmd /\ c.answers = board.answers
          /\ c.dropped = board.dropped /\ c.queued = board.queued /\ c.confirmed = board.confirmed
      BY <1>1, <2>1, <2>2 DEF Boards
    <2>6. c.blocked \subseteq c.present
      BY <1>1, <2>5
    <2>7. Good(c, owed) /\ Follows(board, c)
      BY <2>4, <2>5, <2>6, EngineStepOk
    <2>8. Linked(c)
      BY <2>4, <2>5 DEF Linked
    <2>9. Good(s, owed) /\ Same(c, s) /\ Follows(c, s)
      BY <2>7, SyncOk
    <2> HIDE DEF s
    <2>10. Linked(s) /\ Follows(board, s) /\ s \in Boards
      BY <1>1, <2>5, <2>7, <2>8, <2>9, StillLinked, FollowsTrans DEF Same, Good
    <2>11. Good(g, owed) /\ Linked(g) /\ Follows(board, g)
      <3>1. CASE s.send = None
        BY <2>9, <2>10, <3>1
      <3>2. CASE s.send /= None
        <4>1. g = Reply(SendOver(s), s.send.req, "BUSY")
          BY <3>2 DEF EndSend, EmitErr
        <4> HIDE DEF g
        <4>2. Good(g, owed) /\ Follows(s, g) /\ g.pending_send = None
          BY <2>9, <3>2, <4>1, SendAnswered DEF Codes
        <4> QED BY <1>1, <2>10, <4>2, StillLinked, FollowsTrans DEF Good
      <3> QED BY <3>1, <3>2
    <2> HIDE DEF g
    <2> QED BY <1>1, <2>3, <2>7, <2>11, CommitRefusedOutcome, FenceOk
  <1> QED BY <1>2, <1>3

-----------------------------------------------------------------------------
(* The runtime's steps.                                                    *)

\* The bodies of the three action properties.
FrameStep ==
    \A r \in Reqs :
        board'.queued[r] /= board.queued[r]
            => ~Answered(r) /\ r \notin cancelled /\ board'.queued[r] <= MaxTx

MintStep ==
    (\E i \in 1 .. Len(board'.cmds) :
        /\ board'.cmds[i].kind = "Tx"
        /\ board'.cmds[i].id >= board.next_cmd)
      => board'.gate = EnginePolicy(board')

FenceStep ==
    \A r \in Reqs :
        wait /= None /\ wait.req = r /\ board'.answers[r] = <<"ok">>
            => \A cmd \in { board.cmds[i] : i \in 1 .. Len(board.cmds) } : cmd.id > wait.barrier

StepOk == Inv' /\ FrameStep /\ MintStep /\ FenceStep

\* The commands of a board.
LEMMA CmdFacts ==
    ASSUME NEW b \in Boards, NEW i \in 1 .. Len(b.cmds)
    PROVE  b.cmds[i] \in Cmds /\ b.cmds[i].id \in Nat /\ b.next_cmd \in Nat
  <1>1. b.cmds \in Seq(Cmds) /\ b.next_cmd \in Nat
    BY DEF Boards
  <1>2. b.cmds[i] \in Cmds
    BY <1>1
  <1> QED BY <1>1, <1>2 DEF Cmds

\* Numbers are ordered.
LEMMA LessThanNext ==
    ASSUME NEW x \in Nat, NEW y \in Nat, NEW z \in Nat, x < y, z >= y
    PROVE  x < z
  OBVIOUS

\* Completions of controls stay behind the commands that are queued.
LEMMA QueuesKept ==
    ASSUME Queues, board \in Boards, board' \in Boards, Extends(board, board'), UNCHANGED onair,
           evts' \in Seq(Events), Len(evts') <= QueueCap,
           \A i \in 1 .. Len(evts') : \E j \in 1 .. Len(evts) : evts'[i] = evts[j]
    PROVE  Queues'
  <1> SUFFICES ASSUME NEW i \in 1 .. Len(evts'), evts'[i].kind = "ControlDone"
               PROVE  /\ evts'[i].id < board'.next_cmd
                      /\ \A j \in 1 .. Len(board'.cmds) : evts'[i].id < board'.cmds[j].id
    BY DEF Queues
  <1>1. PICK n \in 1 .. Len(evts) : evts'[i] = evts[n]
    OBVIOUS
  <1>2. evts[n] \in Events
    BY DEF Queues
  <1>3. /\ evts[n].id \in Nat /\ evts[n].id < board.next_cmd
        /\ \A j \in 1 .. Len(board.cmds) : evts[n].id < board.cmds[j].id
    BY <1>1, <1>2 DEF Queues, Events
  <1>4. board.next_cmd \in Nat /\ board'.next_cmd \in Nat /\ board'.next_cmd >= board.next_cmd
    BY DEF Boards, Extends
  <1>5. ASSUME NEW j \in 1 .. Len(board'.cmds) PROVE evts[n].id < board'.cmds[j].id
    <2>1. board'.cmds[j].id \in Nat
      BY CmdFacts
    <2>2. CASE Old(board, board'.cmds[j])
      BY <1>3, <2>2 DEF Old
    <2>3. CASE board'.cmds[j].id >= board.next_cmd
      BY <1>3, <1>4, <2>1, <2>3, LessThanNext, Zenon
    <2> QED BY <2>2, <2>3, Zenon DEF Extends
  <1> QED BY <1>1, <1>3, <1>4, <1>5

\* The next event is taken.
LEMMA TailEvts ==
    ASSUME evts \in Seq(Events), Len(evts) <= QueueCap, evts /= <<>>, evts' = Tail(evts)
    PROVE  /\ evts' \in Seq(Events) /\ Len(evts') <= QueueCap /\ Head(evts) \in Events
           /\ Head(evts) = evts[1] /\ 1 \in 1 .. Len(evts)
           /\ \A i \in 1 .. Len(evts') : \E j \in 1 .. Len(evts) : evts'[i] = evts[j]
  <1>1. Len(evts) \in Nat /\ Len(evts) >= 1 /\ Len(evts') = Len(evts) - 1
        /\ evts' \in Seq(Events) /\ Head(evts) \in Events /\ Head(evts) = evts[1]
    OBVIOUS
  <1>2. \A i \in 1 .. Len(evts') : evts'[i] = evts[i + 1] /\ i + 1 \in 1 .. Len(evts)
    BY <1>1
  <1> QED BY <1>1, <1>2, RuntimeAssumption

\* What a step outside requests must show for Inv.
LEMMA InvFrom ==
    ASSUME Inv, Good(board', Owed'), Linked(board'), Extends(board, board'), Shrinks(board, board'),
           \A r \in Reqs : r > reqs => board'.queued[r] = board.queued[r],
           UNCHANGED <<reqs, cancelled, onair, rx>>, wait' = wait \/ wait' = None,
           evts' \in Seq(Events), Len(evts') <= QueueCap,
           \A i \in 1 .. Len(evts') : \E j \in 1 .. Len(evts) : evts'[i] = evts[j]
    PROVE  Inv'
  <1>1. board \in Boards /\ board' \in Boards
    BY DEF Inv, Good
  <1>2. Queues'
    BY <1>1, QueuesKept DEF Inv
  <1>3. Waiting'
    BY DEF Inv, Waiting, Shrinks
  <1>4. Cancels'
    BY DEF Inv, Cancels, Shrinks
  <1> QED BY <1>2, <1>3, <1>4 DEF Inv

\* No answer is not the answer "ok".
LEMMA NothingIsNotOk == <<>> /= <<"ok">>
  <1>1. Len(<<>>) = 0 /\ Len(<<"ok">>) = 1
    OBVIOUS
  <1> QED BY <1>1

\* A handler outside requests, with or without an event: what a control waits for is
\* still open after it.
LEMMA KeptStep ==
    ASSUME Inv, Done(board, board', Owed), UNCHANGED <<wait, reqs, cancelled, onair, rx>>,
           UNCHANGED evts \/ (evts /= <<>> /\ evts' = Tail(evts))
    PROVE  StepOk
  <1>1. Good(board', Owed) /\ Linked(board') /\ Handled(board, board')
    BY DEF Done
  <1>2. Owed' = Owed
    BY DEF Owed
  <1>3. evts \in Seq(Events) /\ Len(evts) <= QueueCap
    BY DEF Inv, Queues
  <1>4. /\ evts' \in Seq(Events) /\ Len(evts') <= QueueCap
        /\ \A i \in 1 .. Len(evts') : \E j \in 1 .. Len(evts) : evts'[i] = evts[j]
    <2>1. CASE UNCHANGED evts
      BY <1>3, <2>1
    <2>2. CASE evts /= <<>> /\ evts' = Tail(evts)
      BY <1>3, <2>2, TailEvts
    <2> QED BY <2>1, <2>2
  <1>5. Inv'
    BY <1>1, <1>2, <1>4, InvFrom DEF Handled
  <1>6. FrameStep /\ MintStep
    BY <1>1 DEF FrameStep, MintStep, Handled, Minted
  <1>7. FenceStep
    <2>1. \A r \in Reqs : wait /= None /\ wait.req = r => board'.answers[r] = <<>>
      BY <1>1 DEF Good, Ledger, Open, Owed
    <2>2. \A r \in Reqs : wait /= None /\ wait.req = r => board'.answers[r] /= <<"ok">>
      BY <2>1, NothingIsNotOk
    <2> QED BY <2>2 DEF FenceStep
  <1> QED BY <1>5, <1>6, <1>7 DEF StepOk

\* An event that no control waits for.
LEMMA HandleEvtStep == ASSUME Inv, HandleEvt PROVE StepOk
  <1>1. /\ evts /= <<>> /\ evts' = Tail(evts) /\ board' \in OnEvt(board, Head(evts))
        /\ UNCHANGED <<wait, reqs, cancelled, onair, rx>>
    BY DEF HandleEvt
  <1>2. Head(evts) \in Events
    BY <1>1, TailEvts DEF Inv, Queues
  <1>3. Done(board, board', Owed)
    BY <1>1, <1>2, EvtOk DEF Inv
  <1> QED BY <1>1, <1>3, KeptStep

\* The deadline of an attempt.
LEMMA DeadlineStep == ASSUME Inv, DeadlinePasses PROVE StepOk
  <1>1. /\ board.send /= None /\ board' = [board EXCEPT !.send.due = TRUE]
        /\ UNCHANGED <<evts, wait, reqs, cancelled, onair, rx>>
    BY DEF DeadlinePasses
  <1>2. Good(board', Owed) /\ Linked(board') /\ Follows(board, board')
    BY <1>1, DueOk DEF Inv
  <1>3. Done(board, board', Owed)
    BY <1>2, FollowsHandled DEF Done, Inv
  <1> QED BY <1>1, <1>3, KeptStep

\* The listen delay of a forward is over.
LEMMA PollListenedStep == ASSUME Inv, PollListened PROVE StepOk
  <1> DEFINE q == TrySend(SyncPolicy(board), "Tx", 0)
  <1>1. /\ board' = PollForward(board)
        /\ UNCHANGED <<evts, wait, reqs, cancelled, onair, rx>>
    BY DEF PollListened
  <1>2. Done(board, q, Owed) /\ q.gate = EnginePolicy(q)
    BY OtherFrameOk DEF Inv
  <1>3. SyncPolicy(board).next_cmd \in Nat
    BY SyncOk DEF Inv, Good, Boards
  <1>4. board' = q \/ board' = [q EXCEPT !.forward = SyncPolicy(board).next_cmd]
    BY <1>1 DEF PollForward
  <1> HIDE DEF q
  <1>5. ASSUME board' = [q EXCEPT !.forward = SyncPolicy(board).next_cmd] PROVE Done(board, board', Owed)
    <2>1. /\ Good(board', Owed) /\ Same(q, board') /\ board'.cmds = q.cmds
          /\ board'.next_cmd = q.next_cmd /\ board'.gate = q.gate /\ board'.queued = q.queued
      BY <1>2, <1>3, <1>5, ForwardOk DEF Done
    <2>2. EnginePolicy(board') = EnginePolicy(q)
      BY <2>1 DEF Same, EnginePolicy
    <2>3. Handled(board, board')
      BY <1>2, <2>1, <2>2 DEF Done, Handled, Extends, Minted, Shrinks, Same
    <2> QED BY <1>2, <2>1, <2>3, StillLinked DEF Done, Same
  <1> QED BY <1>1, <1>2, <1>4, <1>5, KeptStep

\* The hour fails.
LEMMA HourFailsStep == ASSUME Inv, HourFails PROVE StepOk
  <1>1. /\ board' = CommitFailed(board) \/ board' = FailRadioClosed(board)
        /\ UNCHANGED <<evts, wait, reqs, cancelled, onair, rx>>
    BY DEF HourFails
  <1>2. CASE board' = CommitFailed(board)
    BY <1>1, <1>2, CommitFailedDone, KeptStep DEF Inv
  <1>3. CASE board' = FailRadioClosed(board)
    <2>1. Good(board', Owed) /\ Follows(board, board') /\ board'.pending_send = None
      BY <1>3, FailRadioClosedOk DEF Inv, Linked
    <2>2. Done(board, board', Owed)
      BY <2>1, FollowsHandled, StillLinked DEF Done, Inv
    <2> QED BY <1>1, <2>2, KeptStep
  <1> QED BY <1>1, <1>2, <1>3

\* What a control does after its wait: its request is answered, and the one thing said
\* to be "ok" is what the barrier confirmed.
LEMMA AfterWaitOk ==
    ASSUME Inv, wait /= None, NEW ok \in BOOLEAN, board' = AfterWait(board, ok), wait' = None,
           UNCHANGED <<reqs, cancelled, onair, rx>>
    PROVE  /\ Good(board', Owed') /\ Linked(board') /\ Follows(board, board')
           /\ ~ok => board'.answers[wait.req] /= <<"ok">>
  <1> DEFINE r == wait.req
             off == [board EXCEPT !.send = None, !.forward = None,
                       !.dropped = IF board.send = None THEN @ ELSE @ \union {board.send.req}]
             left == IF wait.kind = "SetOff" THEN off ELSE board
  <1>1. board \in Boards /\ Good(board, Owed) /\ Linked(board) /\ wait \in Waits
        /\ (wait.kind = "SetOff" => board.pending_send = None) /\ wait.req <= reqs
    BY DEF Inv, Good, Waiting
  <1>2. r \in Reqs /\ r \in Owed /\ Owed' = Owed \ {r} /\ Follows(board, board)
    BY <1>1, FollowsSelf, RuntimeAssumption DEF Waits, Owed, Reqs, Inv
  <1>3. \E code \in {"ok", "BUSY", "STORAGE_FAULT"} :
           board' = Reply(left, r, code) /\ (~ok => code /= "ok")
    BY DEF AfterWait, CommitReply, EmitErr
  <1>4. Good(left, Owed) /\ Linked(left) /\ Follows(board, left)
    <2>1. CASE wait.kind /= "SetOff"
      BY <1>1, <1>2, <2>1
    <2>2. CASE wait.kind = "SetOff" /\ board.send = None
      <3> DEFINE f == [board EXCEPT !.forward = None]
      <3>1. left = f
        BY <1>1, <2>2 DEF Boards
      <3>2. Good(f, Owed) /\ Same(board, f) /\ Follows(board, f)
        BY <1>1, ForwardOk
      <3> HIDE DEF f, left
      <3> QED BY <1>1, <3>1, <3>2, StillLinked DEF Same
    <2>3. CASE wait.kind = "SetOff" /\ board.send /= None
      <3> DEFINE n == board.send.req
                 s == SendOver(board)
                 f == [s EXCEPT !.forward = None]
                 d == [f EXCEPT !.dropped = @ \union {n}]
      <3>1. /\ n \in Reqs /\ n \notin Owed /\ Good(s, Owed \union {n}) /\ Follows(board, s)
            /\ s.pending_send = None
        BY <1>1, <2>3, SendOverOk
      <3>2. left = d
        <4>1. board.pending_send = None
          BY <1>1, <2>3
        <4>2. s = [board EXCEPT !.send = None]
          BY <1>1, <4>1 DEF SendOver, Boards
        <4> HIDE DEF s
        <4> QED BY <1>1, <2>3, <4>2 DEF Boards
      <3> HIDE DEF s, n, left
      <3>3. Good(f, Owed \union {n}) /\ Same(s, f) /\ Follows(s, f)
        BY <3>1, ForwardOk
      <3> HIDE DEF f
      <3>4. Good(d, (Owed \union {n}) \ {n}) /\ Same(f, d) /\ Follows(f, d)
        BY <3>1, <3>3, DropOk
      <3> HIDE DEF d
      <3>5. (Owed \union {n}) \ {n} = Owed
        BY <3>1
      <3>6. s \in Boards /\ f \in Boards /\ d \in Boards
        BY <3>1, <3>3, <3>4 DEF Good
      <3>7. Follows(board, f)
        BY <1>1, <3>1, <3>3, <3>6, FollowsTrans
      <3>8. Follows(board, d)
        BY <1>1, <3>4, <3>6, <3>7, FollowsTrans
      <3> QED BY <3>1, <3>2, <3>3, <3>4, <3>5, <3>8, StillLinked DEF Same
    <2> QED BY <2>1, <2>2, <2>3
  <1> HIDE DEF left, off, r
  <1>5. PICK code \in {"ok", "BUSY", "STORAGE_FAULT"} :
           board' = Reply(left, r, code) /\ (~ok => code /= "ok")
    BY <1>3
  <1>6. code \in Codes \ {"ACKNOWLEDGED"}
    BY DEF Codes
  <1>7. Good(board', Owed \ {r}) /\ Linked(board') /\ Follows(board, board')
    BY <1>1, <1>2, <1>4, <1>5, <1>6, RefusedOk
  <1>8. board'.answers[r] = <<code>>
    BY <1>2, <1>4, <1>5, <1>6, ErrOk
  <1>9. ~ok => board'.answers[r] /= <<"ok">>
    <2>1. \A x, y : <<x>> = <<y>> => x = y
      OBVIOUS
    <2> QED BY <1>5, <1>8, <2>1
  <1> QED BY <1>2, <1>7, <1>9 DEF r

\* The barrier came through: every command queued before it is gone.
LEMMA BarrierStep == ASSUME Inv, BarrierDone PROVE StepOk
  <1>1. /\ evts /= <<>> /\ Awaited(Head(evts)) /\ evts' = Tail(evts)
        /\ board' = AfterWait(board, TRUE) /\ wait' = None /\ wait /= None
        /\ UNCHANGED <<reqs, cancelled, onair, rx>>
    BY DEF BarrierDone, Awaited
  <1>2. Good(board', Owed') /\ Linked(board') /\ Follows(board, board')
    BY <1>1, AfterWaitOk
  <1>3. /\ evts' \in Seq(Events) /\ Len(evts') <= QueueCap
        /\ Head(evts) = evts[1] /\ 1 \in 1 .. Len(evts) /\ Head(evts) \in Events
        /\ \A i \in 1 .. Len(evts') : \E j \in 1 .. Len(evts) : evts'[i] = evts[j]
    BY <1>1, TailEvts DEF Inv, Queues
  <1>4. Handled(board, board')
    BY <1>2, FollowsHandled DEF Inv
  <1>5. Inv'
    BY <1>1, <1>2, <1>3, <1>4, InvFrom DEF Handled
  <1>6. FrameStep /\ MintStep
    BY <1>4 DEF FrameStep, MintStep, Handled, Minted
  <1>7. FenceStep
    <2>1. \A j \in 1 .. Len(board.cmds) : wait.barrier < board.cmds[j].id
      BY <1>1, <1>3 DEF Inv, Queues, Awaited
    <2>2. \A j \in 1 .. Len(board.cmds) : board.cmds[j].id \in Nat
      BY CmdFacts DEF Inv, Good
    <2>3. wait.barrier \in Nat
      BY <1>1 DEF Inv, Waiting, Waits
    <2> QED BY <2>1, <2>2, <2>3 DEF FenceStep
  <1> QED BY <1>5, <1>6, <1>7 DEF StepOk

\* The barrier did not come in time.
LEMMA TimeoutStep == ASSUME Inv, WaitTimeout PROVE StepOk
  <1>1. /\ board' = AfterWait(board, FALSE) /\ wait' = None /\ wait /= None
        /\ UNCHANGED <<evts, reqs, cancelled, onair, rx>>
    BY DEF WaitTimeout
  <1>2. /\ Good(board', Owed') /\ Linked(board') /\ Follows(board, board')
        /\ board'.answers[wait.req] /= <<"ok">>
    BY <1>1, AfterWaitOk
  <1>3. /\ evts' \in Seq(Events) /\ Len(evts') <= QueueCap
        /\ \A i \in 1 .. Len(evts') : \E j \in 1 .. Len(evts) : evts'[i] = evts[j]
    BY <1>1 DEF Inv, Queues
  <1>4. Handled(board, board')
    BY <1>2, FollowsHandled DEF Inv
  <1>5. Inv'
    BY <1>1, <1>2, <1>3, <1>4, InvFrom DEF Handled
  <1>6. FrameStep /\ MintStep
    BY <1>4 DEF FrameStep, MintStep, Handled, Minted
  <1>7. FenceStep
    BY <1>2 DEF FenceStep
  <1> QED BY <1>5, <1>6, <1>7 DEF StepOk

\* poll_timeouts for the send.
LEMMA PollDueStep == ASSUME Inv, PollDue PROVE StepOk
  <1> DEFINE b == board
             r == board.send.req
             s == SyncPolicy(board)
             q == TrySend(s, "Tx", r)
  <1>1. /\ board.send /= None /\ board.send.due /\ board' = PollSend(board) /\ wait = None
        /\ UNCHANGED <<evts, wait, reqs, cancelled, onair, rx>>
    BY DEF PollDue
  <1>2. /\ Good(board, Owed) /\ Linked(board) /\ board \in Boards /\ board.send \in Sends
        /\ r \in Reqs /\ r \in Nat /\ r \in Held(board) /\ board.next_cmd \in Nat
    <2>1. Good(board, Owed) /\ Linked(board) /\ board \in Boards
      BY DEF Inv, Good
    <2>2. board.send \in Sends /\ board.next_cmd \in Nat
      BY <1>1, <2>1 DEF Boards
    <2>3. r \in Reqs
      BY <2>2 DEF Sends
    <2>4. r \in Nat
      BY <2>3, RuntimeAssumption DEF Reqs
    <2>5. r \in Held(board)
      BY <1>1, <2>3 DEF Held
    <2> QED BY <2>1, <2>2, <2>3, <2>4, <2>5
  <1>3. CASE \E code \in Codes \ {"ACKNOWLEDGED"} : board' = Reply(SendOver(board), r, code)
    <2>1. Good(board', Owed) /\ Follows(board, board') /\ board'.pending_send = None
      BY <1>1, <1>2, <1>3, SendAnswered
    <2>2. Done(board, board', Owed)
      BY <1>2, <2>1, FollowsHandled, StillLinked DEF Done
    <2> QED BY <1>1, <2>2, KeptStep
  <1>4. /\ Good(s, Owed) /\ Same(board, s) /\ s.gate = EnginePolicy(s) /\ s.queued = board.queued
        /\ s.cmds = board.cmds /\ s.next_cmd = board.next_cmd /\ s \in Boards
    BY <1>2, SyncOk DEF Follows, Good
  <1>5. /\ q \in Boards /\ Same(s, q) /\ q.forward = s.forward /\ q.fault = s.fault
        /\ q.last_policy = s.last_policy /\ q.gate = s.gate
        /\ q.answers = s.answers /\ q.dropped = s.dropped /\ q.confirmed = s.confirmed
        /\ q.next_cmd = s.next_cmd + 1
        /\ \A t \in Reqs : q.queued[t] = IF t = r /\ CanQueue(s) THEN s.queued[t] + 1 ELSE s.queued[t]
        /\ Numbered(q) /\ Ledger(q, Owed)
        /\ \A i \in 1 .. Len(q.cmds) : \/ Old(s, q.cmds[i])
                                       \/ q.cmds[i].id = s.next_cmd /\ q.cmds[i].kind = "Tx"
    <2> HIDE DEF s, r
    <2> QED BY <1>2, <1>4, TrySendOk
  <1>6. CASE ~CanQueue(s) /\ board' = EndSend(q, "BUSY")
    <2>1. q.cmds = s.cmds
      <3> HIDE DEF s
      <3> QED BY <1>4, <1>6 DEF TrySend, Boards
    <2>2. q.send = board.send
      BY <1>4, <1>5 DEF Same
    <2>3. board' = Reply(SendOver(q), q.send.req, "BUSY")
      BY <1>6 DEF EndSend, EmitErr
    <2> HIDE DEF q, s
    <2>4. q.queued = board.queued
      <3>1. q.queued \in [Reqs -> Nat] /\ board.queued \in [Reqs -> Nat]
        BY <1>2, <1>5 DEF Boards
      <3> QED BY <1>4, <1>5, <1>6, <3>1
    <2>5. Good(q, Owed)
      BY <1>4, <1>5, <2>2, <2>4 DEF Good, Same
    <2>6. Follows(board, q)
      BY <1>2, <1>4, <1>5, <2>1, <2>4 DEF Follows, Old, Shrinks, Same
    <2>7. Good(board', Owed) /\ Follows(q, board') /\ board'.pending_send = None
      BY <1>1, <2>2, <2>3, <2>5, SendAnswered DEF Codes
    <2>8. Follows(board, board')
      BY <1>2, <1>5, <2>6, <2>7, FollowsTrans DEF Good
    <2>9. Done(board, board', Owed)
      BY <1>2, <2>7, <2>8, FollowsHandled, StillLinked DEF Done
    <2> QED BY <1>1, <2>9, KeptStep
  <1>7. CASE /\ CanQueue(s) /\ board.send.tx_count < MaxTx /\ board.pending_send /= None
             /\ board' = [q EXCEPT !.send.tx_count = @ + 1, !.send.due = FALSE, !.send.cmd = s.next_cmd]
    <2> DEFINE m == [board.send EXCEPT !.tx_count = @ + 1, !.due = FALSE, !.cmd = s.next_cmd]
    <2>1. q.send = board.send /\ q.ping = board.ping /\ q.pending_send = board.pending_send
          /\ q.radio_on = board.radio_on /\ q.present = board.present /\ q.blocked = board.blocked
      BY <1>4, <1>5 DEF Same
    <2> HIDE DEF q, s
    <2>2. /\ m \in Sends /\ m.req = r /\ m.contact = board.send.contact
          /\ m.tx_count = board.send.tx_count + 1 /\ m.tx_count <= MaxTx
      <3>1. board.send.tx_count + 1 \in 1 .. MaxTx /\ s.next_cmd \in Nat
        BY <1>2, <1>4, <1>7, RuntimeAssumption DEF Sends
      <3>2. m \in Sends
        BY <1>2, <3>1 DEF Sends
      <3>3. m.req = r /\ m.contact = board.send.contact /\ m.tx_count = board.send.tx_count + 1
        BY <1>2 DEF Sends
      <3>4. board.send.tx_count + 1 <= MaxTx
        BY <3>1, RuntimeAssumption
      <3> HIDE DEF m
      <3> QED BY <3>2, <3>3, <3>4
    <2>3. m /= None
      <3> HIDE DEF m
      <3> QED BY <2>2, RuntimeAssumption
    <2>4. board' = [q EXCEPT !.send = m]
      BY <1>5, <1>7, <2>1 DEF Boards
    <2> HIDE DEF m
    <2>5. /\ board' \in Boards /\ board'.send = m /\ board'.ping = board.ping
          /\ board'.pending_send = board.pending_send /\ board'.radio_on = board.radio_on
          /\ board'.present = board.present /\ board'.blocked = board.blocked
          /\ board'.last_policy = q.last_policy /\ board'.gate = q.gate
          /\ board'.cmds = q.cmds /\ board'.next_cmd = q.next_cmd /\ board'.answers = q.answers
          /\ board'.dropped = q.dropped /\ board'.queued = q.queued /\ board'.confirmed = q.confirmed
      BY <1>5, <2>1, <2>2, <2>4 DEF Boards
    <2>6. Held(board') = Held(board) /\ Held(board) \intersect Owed = {}
      BY <1>1, <1>2, <2>2, <2>3, <2>5 DEF Held, Good, Ledger
    <2>7. /\ board'.queued[r] = board.send.tx_count + 1
          /\ \A t \in Reqs : t /= r => board'.queued[t] = board.queued[t]
      BY <1>1, <1>2, <1>4, <1>5, <1>7, <2>5 DEF Good
    <2>8. board'.ping /= None => r /= board'.ping.req
      BY <1>1, <1>2, <2>5 DEF Good, Ledger
    <2>9. /\ Numbered(board') /\ board'.gate = board'.last_policy /\ board'.blocked \subseteq board'.present
          /\ board'.answers = board.answers /\ board'.dropped = board.dropped
          /\ board'.confirmed = board.confirmed
      <3>1. s.answers = board.answers /\ s.dropped = board.dropped /\ s.confirmed = board.confirmed
        BY <1>2 DEF s, SyncPolicy, Boards
      <3> QED BY <1>2, <1>4, <1>5, <2>5, <3>1 DEF Numbered, Good
    <2>10. Good(board', Owed)
      <3>1. board'.send /= None => board'.queued[board'.send.req] = board'.send.tx_count
        BY <2>2, <2>5, <2>7
      <3>2. board'.send /= None /\ board'.ping /= None => board'.send.req /= board'.ping.req
        BY <2>2, <2>5, <2>8
      <3>3. Held(board') \union Owed \subseteq Held(board) \union Owed /\ Owed \intersect Held(board') = {}
        BY <2>6
      <3> QED BY <1>2, <2>5, <2>9, <3>1, <3>2, <3>3, GoodHeld
    <2>11. Linked(board')
      BY <1>2, <2>2, <2>3, <2>5 DEF Linked
    <2>12. Extends(board, board')
      BY <1>2, <1>4, <1>5, <2>5 DEF Extends, Old
    <2>13. Shrinks(board, board')
      BY <1>1, <2>2, <2>5 DEF Shrinks
    <2>14. board'.gate = EnginePolicy(board')
      BY <1>4, <1>5, <2>1, <2>5 DEF EnginePolicy, Same
    <2>15. r \notin Owed /\ Owed' = Owed
      BY <1>1, <1>2, <2>6 DEF Owed
    <2>16. \A t \in Reqs : t > reqs => board'.queued[t] = board.queued[t]
      BY <2>7, <2>15 DEF Owed
    <2>17. Inv'
      BY <1>1, <2>10, <2>11, <2>12, <2>13, <2>15, <2>16, InvFrom DEF Inv, Queues
    <2>18. FrameStep
      <3>1. board.answers[r] = <<>>
        BY <1>2 DEF Good, Ledger, Open
      <3>2. r \notin cancelled
        BY <1>1, <1>7 DEF Inv, Cancels
      <3>3. board'.queued[r] <= MaxTx
        BY <2>2, <2>7
      <3> QED BY <2>7, <3>1, <3>2, <3>3 DEF FrameStep, Answered
    <2>19. MintStep /\ FenceStep
      BY <1>1, <2>14 DEF MintStep, FenceStep
    <2> QED BY <2>17, <2>18, <2>19 DEF StepOk
  <1>8. \/ board' = Reply(SendOver(board), r, "UNCONFIRMED")
        \/ board' = Reply(SendOver(board), r, "BAD_REQUEST")
        \/ /\ CanQueue(s) /\ ~(board.send.tx_count >= MaxTx) /\ board.pending_send /= None
           /\ board' = [q EXCEPT !.send.tx_count = @ + 1, !.send.due = FALSE, !.send.cmd = s.next_cmd]
        \/ ~CanQueue(s) /\ board' = EndSend(q, "BUSY")
    <2> HIDE DEF s
    <2> QED BY <1>1 DEF PollSend, EmitUnconfirmed, EndSend, EmitErr, s
  <1>9. ~(board.send.tx_count >= MaxTx) => board.send.tx_count < MaxTx
    BY <1>2, RuntimeAssumption DEF Sends
  <1> QED BY <1>3, <1>6, <1>7, <1>8, <1>9 DEF Codes

\* The radio task ends the command at the head of its queue.
LEMMA RadioStepStep == ASSUME Inv, RadioStep PROVE StepOk
  <1> DEFINE cmd == Head(board.cmds)
             rest == Tail(board.cmds)
  <1>1. /\ board.cmds /= <<>> /\ Len(evts) < QueueCap
        /\ board' = [board EXCEPT !.cmds = rest]
        /\ UNCHANGED <<wait, reqs, cancelled, rx>>
    BY DEF RadioStep
  <1>2. PICK result \in Outcomes :
          /\ evts' = Append(evts,
                CASE cmd.kind = "Tx" -> [kind |-> "TxDone", id |-> cmd.id, result |-> result]
                  [] cmd.kind = "CadProbe" -> [kind |-> "CadDone", id |-> cmd.id, result |-> result]
                  [] OTHER -> [kind |-> "ControlDone", id |-> cmd.id])
          /\ onair' = IF cmd.kind = "Tx" /\ cmd.req \in Reqs /\ result \in {"Ok", "Radio"}
                      THEN onair \union {cmd.req} ELSE onair
    BY DEF RadioStep
  <1>3. board \in Boards /\ Good(board, Owed) /\ Linked(board) /\ board.cmds \in Seq(Cmds)
        /\ board.next_cmd \in Nat
    BY DEF Inv, Good, Boards
  <1>4. /\ rest \in Seq(Cmds) /\ Len(board.cmds) \in Nat /\ Len(board.cmds) >= 1
        /\ Len(rest) = Len(board.cmds) - 1 /\ cmd = board.cmds[1] /\ cmd \in Cmds
        /\ \A i \in 1 .. Len(rest) : rest[i] = board.cmds[i + 1]
    BY <1>1, <1>3
  <1>5. \A i \in 1 .. Len(rest) : i + 1 \in 1 .. Len(board.cmds)
    BY <1>4
  <1> DEFINE ev == CASE cmd.kind = "Tx" -> [kind |-> "TxDone", id |-> cmd.id, result |-> result]
                     [] cmd.kind = "CadProbe" -> [kind |-> "CadDone", id |-> cmd.id, result |-> result]
                     [] OTHER -> [kind |-> "ControlDone", id |-> cmd.id]
  <1>6. evts' = Append(evts, ev) /\ onair' \subseteq onair \union Reqs
    BY <1>2
  <1> HIDE DEF cmd, rest
  <1>7. ev \in Events /\ (ev.kind = "ControlDone" => ev.id = cmd.id)
    <2>1. cmd.id \in Nat
      BY <1>4 DEF Cmds
    <2>2. CASE cmd.kind = "Tx"
      BY <2>1, <2>2 DEF Events
    <2>3. CASE cmd.kind = "CadProbe"
      BY <2>1, <2>3 DEF Events
    <2>4. CASE cmd.kind \notin {"Tx", "CadProbe"}
      <3>1. ev = [kind |-> "ControlDone", id |-> cmd.id]
        BY <2>4
      <3> HIDE DEF ev
      <3> QED BY <2>1, <3>1 DEF Events
    <2> QED BY <2>2, <2>3, <2>4
  <1> HIDE DEF ev
  <1>8. /\ board' \in Boards /\ Same(board, board') /\ board'.cmds = rest
        /\ board'.last_policy = board.last_policy /\ board'.gate = board.gate
        /\ board'.next_cmd = board.next_cmd /\ board'.answers = board.answers
        /\ board'.dropped = board.dropped /\ board'.queued = board.queued
        /\ board'.confirmed = board.confirmed
    BY <1>1, <1>3, <1>4 DEF Boards, Same
  <1>9. Numbered(board')
    <2>1. Len(rest) <= QueueCap
      BY <1>3, <1>4, RuntimeAssumption DEF Good, Numbered
    <2>2. \A i \in 1 .. Len(rest) : rest[i].id < board.next_cmd
      BY <1>3, <1>4, <1>5 DEF Good, Numbered
    <2>3. \A i, j \in 1 .. Len(rest) : i < j => rest[i].id < rest[j].id
      <3> SUFFICES ASSUME NEW i \in 1 .. Len(rest), NEW j \in 1 .. Len(rest), i < j
                   PROVE  rest[i].id < rest[j].id
        OBVIOUS
      <3>1. i + 1 \in 1 .. Len(board.cmds) /\ j + 1 \in 1 .. Len(board.cmds) /\ i + 1 < j + 1
        BY <1>5
      <3>2. board.cmds[i + 1].id < board.cmds[j + 1].id
        BY <1>3, <3>1 DEF Good, Numbered
      <3> QED BY <1>4, <3>2
    <2> QED BY <1>8, <2>1, <2>2, <2>3 DEF Numbered
  <1>10. Owed' = Owed /\ Held(board') = Held(board) /\ Owed \intersect Held(board) = {}
    BY <1>1, <1>3, <1>8 DEF Owed, Held, Same, Good, Ledger
  <1>11. Good(board', Owed')
    <2>1. /\ board'.blocked \subseteq board'.present /\ board'.gate = board'.last_policy
          /\ board'.send /= None => board'.queued[board'.send.req] = board'.send.tx_count
          /\ board'.send /= None /\ board'.ping /= None => board'.send.req /= board'.ping.req
      BY <1>3, <1>8 DEF Good, Ledger, Same
    <2> QED BY <1>3, <1>8, <1>9, <1>10, <2>1, GoodHeld
  <1>12. Linked(board')
    BY <1>3, <1>8, StillLinked DEF Same
  <1>13. Queues'
    <2>1. evts \in Seq(Events) /\ Len(evts) \in Nat /\ onair \subseteq Reqs
      BY DEF Inv, Queues
    <2>2. /\ evts' \in Seq(Events) /\ Len(evts') = Len(evts) + 1
          /\ \A i \in 1 .. Len(evts') : \/ i \in 1 .. Len(evts) /\ evts'[i] = evts[i]
                                        \/ evts'[i] = ev
      BY <1>6, <1>7, <2>1
    <2>3. Len(evts') <= QueueCap
      BY <1>1, <2>1, <2>2, RuntimeAssumption
    <2>4. ASSUME NEW i \in 1 .. Len(evts'), evts'[i].kind = "ControlDone"
          PROVE  /\ evts'[i].id < board.next_cmd
                 /\ \A j \in 1 .. Len(rest) : evts'[i].id < rest[j].id
      <3>1. CASE i \in 1 .. Len(evts) /\ evts'[i] = evts[i]
        BY <1>4, <1>5, <2>4, <3>1 DEF Inv, Queues
      <3>2. CASE evts'[i] = ev
        <4>1. cmd.id < board.next_cmd
          BY <1>3, <1>4 DEF Good, Numbered
        <4>2. ASSUME NEW j \in 1 .. Len(rest) PROVE cmd.id < rest[j].id
          <5>1. 1 \in 1 .. Len(board.cmds) /\ j + 1 \in 1 .. Len(board.cmds) /\ 1 < j + 1
            BY <1>4, <1>5
          <5> QED BY <1>3, <1>4, <5>1 DEF Good, Numbered
        <4> QED BY <1>7, <2>4, <3>2, <4>1, <4>2
      <3> QED BY <2>2, <3>1, <3>2
    <2> QED BY <1>6, <1>8, <2>1, <2>2, <2>3, <2>4 DEF Queues
  <1>14. Waiting' /\ Cancels'
    BY <1>1, <1>8 DEF Inv, Waiting, Cancels, Same
  <1>15. Inv'
    BY <1>1, <1>8, <1>11, <1>12, <1>13, <1>14 DEF Inv
  <1>16. FrameStep
    BY <1>8 DEF FrameStep
  <1>17. MintStep
    <2>1. \A i \in 1 .. Len(rest) : rest[i].id < board.next_cmd /\ rest[i].id \in Nat
      <3>1. \A i \in 1 .. Len(rest) : rest[i] \in Cmds
        BY <1>4
      <3> QED BY <1>8, <1>9, <3>1 DEF Numbered, Cmds
    <2> QED BY <1>3, <1>8, <2>1 DEF MintStep
  <1>18. FenceStep
    <2>1. \A r \in Reqs : wait /= None /\ wait.req = r => board'.answers[r] = <<>>
      BY <1>3, <1>8 DEF Good, Ledger, Open, Owed
    <2>2. \A r \in Reqs : wait /= None /\ wait.req = r => board'.answers[r] /= <<"ok">>
      BY <2>1, NothingIsNotOk
    <2> QED BY <2>2 DEF FenceStep
  <1> QED BY <1>15, <1>16, <1>17, <1>18 DEF StepOk

\* The radio reports a frame or a fault.
LEMMA ReportsStep == ASSUME Inv, RadioReports PROVE StepOk
  <1>1. /\ UNCHANGED <<board, wait, reqs, cancelled, onair>> /\ Len(evts) < QueueCap
        /\ rx < MaxRx /\ rx' = rx + 1
    BY DEF RadioReports
  <1>2. PICK ev \in Events : evts' = Append(evts, ev) /\ ev.kind /= "ControlDone"
    <2>1. ASSUME NEW c \in Contacts PROVE [kind |-> "RxData", from |-> c] \in Events
      BY DEF Events
    <2>2. ASSUME NEW r \in Reqs PROVE [kind |-> "RxAck", req |-> r] \in Events
      BY DEF Events
    <2>3. [kind |-> "RxTransit"] \in Events /\ [kind |-> "Fault"] \in Events
      BY DEF Events
    <2>4. CASE \E c \in Contacts : evts' = Append(evts, [kind |-> "RxData", from |-> c])
      <3>1. PICK c \in Contacts : evts' = Append(evts, [kind |-> "RxData", from |-> c])
        BY <2>4
      <3>2. [kind |-> "RxData", from |-> c].kind /= "ControlDone"
        OBVIOUS
      <3> QED BY <2>1, <3>1, <3>2
    <2>5. CASE \E r \in onair : evts' = Append(evts, [kind |-> "RxAck", req |-> r])
      <3>1. PICK r \in onair : evts' = Append(evts, [kind |-> "RxAck", req |-> r])
        BY <2>5
      <3>2. r \in Reqs
        BY <3>1 DEF Inv, Queues
      <3>3. [kind |-> "RxAck", req |-> r].kind /= "ControlDone"
        OBVIOUS
      <3> QED BY <2>2, <3>1, <3>2, <3>3
    <2>6. CASE evts' = Append(evts, [kind |-> "RxTransit"])
      <3>1. [kind |-> "RxTransit"].kind /= "ControlDone"
        OBVIOUS
      <3> QED BY <2>3, <2>6, <3>1
    <2>7. CASE evts' = Append(evts, [kind |-> "Fault"])
      <3>1. [kind |-> "Fault"].kind /= "ControlDone"
        OBVIOUS
      <3> QED BY <2>3, <2>7, <3>1
    <2> QED BY <2>4, <2>5, <2>6, <2>7 DEF RadioReports
  <1>3. Owed' = Owed
    BY <1>1 DEF Owed
  <1>4. Queues'
    <2>1. evts \in Seq(Events) /\ Len(evts) \in Nat
      BY DEF Inv, Queues
    <2>2. /\ evts' \in Seq(Events) /\ Len(evts') = Len(evts) + 1
          /\ \A i \in 1 .. Len(evts') : \/ i \in 1 .. Len(evts) /\ evts'[i] = evts[i]
                                        \/ evts'[i] = ev
      BY <1>2, <2>1
    <2>3. Len(evts') <= QueueCap
      BY <1>1, <2>1, <2>2, RuntimeAssumption
    <2> QED BY <1>1, <1>2, <2>2, <2>3 DEF Inv, Queues
  <1>5. rx' \in 0 .. MaxRx
    BY <1>1, RuntimeAssumption DEF Inv
  <1>6. Inv'
    BY <1>1, <1>3, <1>4, <1>5 DEF Inv, Waiting, Cancels
  <1>7. FrameStep
    BY <1>1 DEF FrameStep
  <1>8. MintStep
    <2>1. \A i \in 1 .. Len(board.cmds) : board.cmds[i].id < board.next_cmd
             /\ board.cmds[i].id \in Nat /\ board.next_cmd \in Nat
      BY CmdFacts DEF Inv, Good, Numbered
    <2> QED BY <1>1, <2>1 DEF MintStep
  <1>9. FenceStep
    <2>1. \A r \in Reqs : wait /= None /\ wait.req = r => board'.answers[r] = <<>>
      BY <1>1 DEF Inv, Good, Ledger, Open, Owed
    <2>2. \A r \in Reqs : wait /= None /\ wait.req = r => board'.answers[r] /= <<"ok">>
      BY <2>1, NothingIsNotOk
    <2> QED BY <2>2 DEF FenceStep
  <1> QED BY <1>6, <1>7, <1>8, <1>9 DEF StepOk

\* A request of the host.
LEMMA RequestStep == ASSUME Inv, NEW r \in Reqs, Request(r) PROVE StepOk
  <1>1. /\ wait = None /\ reqs < MaxReqs /\ r = reqs + 1 /\ reqs' = r
        /\ UNCHANGED <<evts, onair, rx>>
        /\ cancelled' = IF /\ board.send /= None
                           /\ ~board'.radio_on \/ board.send.contact \notin board'.present \ board'.blocked
                        THEN cancelled \union {board.send.req} ELSE cancelled
    BY DEF Request
  <1>2. /\ Good(board, Owed) /\ Linked(board) /\ board \in Boards /\ Follows(board, board)
        /\ reqs \in 0 .. MaxReqs /\ reqs \in Nat /\ MaxReqs \in Nat /\ r > reqs
    BY <1>1, FollowsSelf, RuntimeAssumption DEF Inv, Good
  <1>3. r \in Owed /\ board.queued[r] = 0
    BY <1>2 DEF Owed, Inv
  <1>4. /\ Linked(board')
        /\ \/ Outcome(Owed, r)
           \/ wait' = None /\ Good(board', Owed \ {r}) /\ Begins(board, board', r)
    <2>1. CASE board.fault
      BY <1>2, <1>3, <2>1, RefuseOk DEF Request, Outcome, Codes
    <2>2. CASE \E k \in Contacts : board' \in OpSend(board, r, k) /\ UNCHANGED wait
      BY <1>1, <1>2, <1>3, <2>2, OpSendOk DEF Outcome
    <2>3. CASE board' = PingResult(board, r) /\ UNCHANGED wait
      BY <1>1, <1>2, <1>3, <2>3, PingResultOk DEF Outcome
    <2>4. CASE board' \in OtherCommit(board, r) /\ UNCHANGED wait
      <3>1. \/ board' = Reply(CommitFailed(board), r, "STORAGE_FAULT")
            \/ board' = Reply(board, r, "ok")
            \/ board' = Reply(board, r, "STORAGE_FAULT")
        BY <2>4 DEF OtherCommit, CommitRecord, EmitErr, CommitReply
      <3>2. "ok" \in Codes \ {"ACKNOWLEDGED"} /\ "STORAGE_FAULT" \in Codes \ {"ACKNOWLEDGED"}
        BY DEF Codes
      <3>3. Good(board', Owed \ {r}) /\ Linked(board') /\ Follows(board, board')
        BY <1>2, <1>3, <3>1, <3>2, CommitRefusedOk, RefusedOk
      <3> QED BY <1>1, <2>4, <3>3 DEF Outcome
    <2>5. CASE \E on \in BOOLEAN : SetRadio(r, on)
      BY <1>2, <1>3, <2>5, SetRadioOk DEF Outcome
    <2>6. CASE \E k \in Contacts, on \in BOOLEAN : SetBlocked(r, k, on)
      BY <1>2, <1>3, <2>6, SetBlockedOk DEF Outcome
    <2>7. CASE \E k \in Contacts : Delete(r, k)
      BY <1>2, <1>3, <2>7, DeleteOk DEF Outcome
    <2> QED BY <2>1, <2>2, <2>3, <2>4, <2>5, <2>6, <2>7 DEF Request
  <1>5. /\ board' \in Boards /\ Extends(board, board') /\ Minted(board, board')
        /\ Follows(board, board') => Shrinks(board, board') /\ board'.queued = board.queued
        /\ Follows(board, board') \/ Begins(board, board', r)
    BY <1>2, <1>4, FollowsHandled DEF Outcome, Begins, Good, Handled, Follows
  <1>6. Good(board', Owed')
    <2>1. \A s \in Reqs : s \in Nat
      BY RuntimeAssumption DEF Reqs
    <2>2. CASE wait' = None /\ Good(board', Owed \ {r})
      <3>1. ASSUME NEW s \in Owed' PROVE s \in Owed \ {r}
        <4>1. s \in Reqs /\ s > reqs' /\ s \in Nat
          BY <2>1, <2>2 DEF Owed
        <4>2. s > reqs /\ s /= r
          BY <1>1, <1>2, <4>1
        <4> QED BY <4>1, <4>2 DEF Owed
      <3> QED BY <2>2, <3>1, GoodLess
    <2>3. CASE wait' \in Waits /\ wait'.req = r /\ Good(board', Owed)
      <3>1. ASSUME NEW s \in Owed' PROVE s \in Owed
        <4>1. s \in Reqs /\ s \in Nat /\ (s > reqs' \/ s = r)
          BY <2>1, <2>3 DEF Owed
        <4>2. s > reqs
          BY <1>1, <1>2, <4>1
        <4> QED BY <4>1, <4>2 DEF Owed
      <3> QED BY <2>3, <3>1, GoodLess
    <2> QED BY <1>4, <2>2, <2>3 DEF Outcome
  <1>7. reqs' \in 0 .. MaxReqs /\ rx' \in 0 .. MaxRx
    BY <1>1, <1>2 DEF Inv
  <1>8. \A s \in Reqs : s > reqs' => board'.queued[s] = 0
    <2>1. ASSUME NEW s \in Reqs, s > reqs' PROVE s > reqs /\ s /= r
      BY <1>1, <1>2, <2>1, RuntimeAssumption DEF Reqs
    <2> QED BY <1>5, <2>1 DEF Inv, Begins
  <1>9. Queues'
    BY <1>1, <1>2, <1>5, QueuesKept DEF Inv, Queues
  <1>10. Waiting'
    <2>1. wait' = None \/ (wait' \in Waits /\ wait'.req = r
                            /\ (wait'.kind = "SetOff" => board'.pending_send = None))
      BY <1>4 DEF Outcome
    <2> QED BY <1>1, <1>2, <2>1 DEF Waiting
  <1>11. Cancels'
    <2>1. \A s \in cancelled : s \in Reqs /\ s <= reqs /\ s \in Nat
      BY RuntimeAssumption DEF Inv, Cancels, Reqs
    <2>2. board.send /= None => board.send.req \in Reqs /\ board.send.req <= reqs
      <3>1. board.send /= None => board.send.req \in Reqs /\ board.send.req \notin Owed
        BY <1>2 DEF Boards, Sends, Good, Ledger, Held
      <3> QED BY <1>2, <3>1, RuntimeAssumption DEF Owed, Reqs
    <2>3. \A s \in cancelled' : s \in Reqs /\ s <= reqs'
      BY <1>1, <1>2, <2>1, <2>2, RuntimeAssumption DEF Reqs
    <2>4. ASSUME board'.send /= None, board'.send.req \in cancelled' PROVE board'.pending_send = None
      <3>1. CASE Begins(board, board', r)
        <4>1. cancelled' = cancelled /\ board'.send.req = r
          BY <1>1, <3>1 DEF Begins
        <4> QED BY <1>2, <2>1, <2>4, <4>1
      <3>2. CASE Follows(board, board')
        <4>1. /\ board.send /= None /\ board'.send.req = board.send.req
              /\ board'.send.contact = board.send.contact
              /\ board'.pending_send /= None => board'.pending_send = board.pending_send
          BY <1>5, <2>4, <3>2 DEF Shrinks
        <4>2. CASE board.send.req \in cancelled
          BY <4>1, <4>2 DEF Inv, Cancels
        <4>3. CASE board.send.req \notin cancelled
          <5>1. ~board'.radio_on \/ board.send.contact \notin board'.present \ board'.blocked
            BY <1>1, <2>4, <4>1, <4>3
          <5> QED BY <1>4, <4>1, <5>1 DEF Linked
        <4> QED BY <4>2, <4>3
      <3> QED BY <1>5, <3>1, <3>2
    <2> QED BY <2>3, <2>4 DEF Cancels
  <1>12. Inv'
    BY <1>4, <1>6, <1>7, <1>8, <1>9, <1>10, <1>11 DEF Inv
  <1>13. FrameStep
    <2>1. \A s \in Reqs : board'.queued[s] /= board.queued[s] => s = r /\ board'.queued[r] = 1
      BY <1>5 DEF Begins
    <2>2. board.answers[r] = <<>>
      BY <1>2, <1>3 DEF Good, Ledger, Open
    <2>3. r \notin cancelled
      <3>1. \A s \in cancelled : s <= reqs
        BY DEF Inv, Cancels
      <3>2. ~(r <= reqs)
        BY <1>1, <1>2
      <3> QED BY <3>1, <3>2
    <2>4. 1 <= MaxTx
      BY RuntimeAssumption
    <2> QED BY <2>1, <2>2, <2>3, <2>4 DEF FrameStep, Answered
  <1>14. MintStep /\ FenceStep
    BY <1>1, <1>5 DEF MintStep, Minted, FenceStep
  <1> QED BY <1>12, <1>13, <1>14 DEF StepOk

\* Every step, and every stuttering one.
LEMMA StepAlways == Inv /\ [Next]_vars => Inv' /\ [FrameStep /\ MintStep /\ FenceStep]_vars
  <1> SUFFICES ASSUME Inv, [Next]_vars
               PROVE  Inv' /\ [FrameStep /\ MintStep /\ FenceStep]_vars
    OBVIOUS
  <1>1. CASE Next
    <2> SUFFICES StepOk
      BY DEF StepOk
    <2>1. ASSUME NEW r \in Reqs, Request(r) PROVE StepOk
      BY <2>1, RequestStep
    <2>2. CASE EvtStep
      BY <2>2, HandleEvtStep, BarrierStep DEF EvtStep
    <2>3. CASE WaitTimeout
      BY <2>3, TimeoutStep
    <2>4. CASE DeadlinePasses
      BY <2>4, DeadlineStep
    <2>5. CASE Poll
      BY <2>5, PollDueStep, PollListenedStep DEF Poll
    <2>6. CASE HourFails
      BY <2>6, HourFailsStep
    <2>7. CASE RadioStep
      BY <2>7, RadioStepStep
    <2>8. CASE RadioReports
      BY <2>8, ReportsStep
    <2> QED BY <1>1, <2>1, <2>2, <2>3, <2>4, <2>5, <2>6, <2>7, <2>8 DEF Next
  <1>2. CASE UNCHANGED vars
    <2>1. Owed' = Owed
      BY <1>2 DEF Owed, vars
    <2>2. Inv'
      BY <1>2, <2>1 DEF vars, Inv, Queues, Waiting, Cancels
    <2> QED BY <1>2, <2>2
  <1> QED BY <1>1, <1>2

\* No request was made and nothing is queued.
LEMMA InitInv == Init => Inv
  <1> SUFFICES ASSUME Init PROVE Inv
    OBVIOUS
  <1>1. /\ board.radio_on = FALSE /\ board.present = Contacts /\ board.blocked = {}
        /\ board.pending_send = None /\ board.send = None /\ board.ping = None
        /\ board.gate = board.last_policy /\ board.cmds = <<>>
        /\ board.answers = [r \in Reqs |-> <<>>] /\ board.dropped = {}
        /\ board.queued = [r \in Reqs |-> 0]
        /\ evts = <<>> /\ wait = None /\ reqs = 0 /\ cancelled = {} /\ onair = {} /\ rx = 0
    BY DEF Init
  <1>2. board \in Boards
    <2>1. [on |-> FALSE, mask |-> {}] \in Policies
      BY DEF Policies
    <2>2. <<>> \in Seq(Cmds) /\ <<>> \in Seq(Codes)
      OBVIOUS
    <2>3. [r \in Reqs |-> <<>>] \in [Reqs -> Seq(Codes)] /\ [r \in Reqs |-> 0] \in [Reqs -> Nat]
      BY <2>2
    <2> QED BY <2>1, <2>2, <2>3 DEF Init, Boards
  <1>3. Held(board) = {}
    BY <1>1 DEF Held
  <1>4. /\ Len(board.cmds) = 0 /\ Len(evts) = 0
        /\ \A r \in Reqs : board.answers[r] = <<>> /\ Len(board.answers[r]) = 0
    BY <1>1
  <1>5. <<>> /= <<"ACKNOWLEDGED">>
    <2>1. Len(<<>>) = 0 /\ Len(<<"ACKNOWLEDGED">>) = 1
      OBVIOUS
    <2> QED BY <2>1
  <1>6. Ledger(board, Owed)
    BY <1>1, <1>3, <1>4 DEF Ledger, Open, Owed
  <1>7. Numbered(board)
    BY <1>4, RuntimeAssumption DEF Numbered
  <1>8. Good(board, Owed)
    BY <1>1, <1>2, <1>4, <1>5, <1>6, <1>7 DEF Good
  <1>9. Linked(board) /\ Waiting /\ Cancels
    BY <1>1 DEF Linked, Waiting, Cancels
  <1>10. Queues
    BY <1>1, <1>4, RuntimeAssumption DEF Queues
  <1> QED BY <1>1, <1>8, <1>9, <1>10, RuntimeAssumption DEF Inv

\* The inductive invariant.
LEMMA InvAlways == Spec => []Inv
  BY InitInv, StepAlways, PTL DEF Spec

-----------------------------------------------------------------------------

\* At most one send and one ping are in flight, and the queues keep to their capacity:
\* the runtime never queues more than the static channels hold.
THEOREM TypeCorrect == Spec => []TypeOK
  <1>1. Inv => TypeOK
    BY DEF Inv, Good, Boards, Numbered, Queues, TypeOK
  <1> QED BY <1>1, InvAlways, PTL

\* No request is answered twice, and none that was given up is answered after all,
\* however the handlers of runtime.rs interleave with the events of the radio.
THEOREM OneFinalReplyAlways == Spec => []OneFinalReply
  <1>1. Inv => OneFinalReply
    BY DEF Inv, Good, Ledger, OneFinalReply, Answered
  <1> QED BY <1>1, InvAlways, PTL

\* The engine's send is the runtime's, and ACKNOWLEDGED is said only of a request whose
\* own frame was acknowledged: on_rx reports the send of the runtime, not the engine's.
THEOREM AcknowledgedIsOwnAlways == Spec => []AcknowledgedIsOwn
  <1>1. Inv => AcknowledgedIsOwn
    BY DEF Inv, Good, Linked, AcknowledgedIsOwn
  <1> QED BY <1>1, InvAlways, PTL

\* poll_timeouts queues no frame for a send that was answered or cancelled, and no more
\* than MAX_TX for any.
THEOREM NoFrameAfterTheEndAlways == Spec => NoFrameAfterTheEnd
  <1>1. Inv /\ [Next]_vars
          => [\A r \in Reqs :
                 board'.queued[r] /= board.queued[r]
                     => ~Answered(r) /\ r \notin cancelled /\ board'.queued[r] <= MaxTx]_vars
    BY StepAlways DEF FrameStep
  <1> QED BY <1>1, InvAlways, PTL DEF Spec, NoFrameAfterTheEnd

\* Whenever a frame is queued, sync_policy has put the engine's policy into the gate.
THEOREM MintedInSyncAlways == Spec => MintedInSync
  <1>1. Inv /\ [Next]_vars
          => [(\E i \in 1 .. Len(board'.cmds) :
                  /\ board'.cmds[i].kind = "Tx"
                  /\ board'.cmds[i].id >= board.next_cmd)
                => board'.gate = EnginePolicy(board')]_vars
    BY StepAlways DEF MintStep
  <1> QED BY <1>1, InvAlways, PTL DEF Spec, MintedInSync

\* A control that is answered "ok" leaves no command in front of its barrier: wait_control
\* compares the id, and ids grow along both queues.
THEOREM OkMeansFencedAlways == Spec => OkMeansFenced
  <1>1. Inv /\ [Next]_vars
          => [\A r \in Reqs :
                 wait /= None /\ wait.req = r /\ board'.answers[r] = <<"ok">>
                     => \A cmd \in { board.cmds[i] : i \in 1 .. Len(board.cmds) } :
                           cmd.id > wait.barrier]_vars
    BY StepAlways DEF FenceStep
  <1> QED BY <1>1, InvAlways, PTL DEF Spec, OkMeansFenced
=============================================================================
