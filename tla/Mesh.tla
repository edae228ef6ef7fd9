-------------------------------- MODULE Mesh --------------------------------
(***************************************************************************)
(* Three boards in one experiment: A sends to C, R relays what it cannot   *)
(* read.  The sender's attempts and deadline (runtime.rs), the receiver's  *)
(* replay window and fresh acknowledgements (engine.rs), the relay's cache *)
(* and its single forward slot (relay.rs, transit, schedule_forward) over  *)
(* air that loses, delays and reorders.                                    *)
(*                                                                         *)
(* Abstractions.                                                           *)
(*  - Queue, gate and channel of a transmission are one step, and which of *)
(*    its copies arrive is settled in it: a transmission that fails is one *)
(*    of which none does.  Storage is Engine's matter: commits succeed,    *)
(*    the hour does not change and the windows do not slide.               *)
(*  - A frame is its message and, for an acknowledgement, its own number,  *)
(*    since every acknowledgement is sealed anew; the cache key leaves out *)
(*    the hops, and so does a frame here.                                  *)
(*  - A unit of time is four seconds: lifetime 2 and retry 3 for 8 s and   *)
(*    12 s.  What an attempt sets off takes at most MaxDelay units.        *)
(*  - A board that hears its own frame, or one it already consumed, does   *)
(*    nothing with it that matters here; such copies are left out.         *)
(***************************************************************************)
EXTENDS RelayCacheOps, FiniteSets

CONSTANTS
    Msgs,       \* the messages A's host sends, in order: 1 .. n
    MaxTx,      \* MAX_TX, 3 in the code
    AckWait,    \* ACK_WAIT in units
    MaxDelay,   \* bound on the delay of what one attempt sets off, in units
    Setups,     \* the experiments: who hears whom, and how many messages A sends
    Noise,      \* frames of other networks
    MaxMischief,\* bound: foreign frames R hears, and its restarts
    NoForward   \* Runtime.forward = None

Frames == [kind : {"DATA", "ACK", "FOREIGN"}, msg : Msgs \union Noise, seq : Nat]

\* A and C are in reach of R, and perhaps of each other; NoForward is no forward.
ASSUME MeshAssumption ==
    /\ MaxTx \in Nat \ {0}
    /\ AckWait \in Nat /\ MaxDelay \in Nat /\ TTL + MaxDelay <= AckWait
    /\ MaxMischief \in Nat
    /\ \A s \in Setups :
          /\ {{"A", "R"}, {"R", "C"}} \subseteq s.links
          /\ s.links \subseteq {{"A", "R"}, {"R", "C"}, {"A", "C"}}
    /\ NoForward \notin [frame : Frames, try : Nat]

VARIABLES
    setup,      \* the experiment of this behaviour
    now,        \* time since R's boot, in units
    late,       \* units that passed while the last attempt's frames are about
    status,     \* A: what the host was told of each message
    tries,      \* A: tx_count of the message in flight
    deadline,   \* A: when the present attempt is given up
    acks,       \* A: the ACK window
    accepted,   \* C: the DATA window
    delivered,  \* C: how often the host got each message
    tx_next,    \* C: number of the next acknowledgement
    entries,    \* R: relay_cache
    forward,    \* R: the forward waiting for its listen delay, or NoForward
    air,        \* copies on their way
    heard,      \* history: the attempts R remembers, and heard a copy of
    suppressed, \* history: R took an attempt it had not heard for a duplicate
    harmed,     \* history: attempts of the send in flight that lost a copy or a forward
    mischief    \* counts foreign frames and restarts

sender == <<status, tries, deadline, acks>>
receiver == <<accepted, delivered, tx_next>>
relay == <<entries, forward, heard, suppressed>>
vars == <<setup, now, late, sender, receiver, relay, air, harmed, mischief>>

-----------------------------------------------------------------------------
(* Frames and air.                                                         *)

Data(m) == [kind |-> "DATA", msg |-> m, seq |-> 0]
Ack(m, s) == [kind |-> "ACK", msg |-> m, seq |-> s]
Foreign(k) == [kind |-> "FOREIGN", msg |-> k, seq |-> 0]

\* The copies of a transmission: one for each board in reach that would act on it.
\* try is history: the attempt of A that set this frame off.
Copies(from, frame, hops, try) ==
    { [frame |-> frame, hops |-> hops, try |-> try, to |-> b] :
        b \in { x \in {"A", "C", "R"} :
                  /\ {from, x} \in setup.links
                  /\ x = "A" => frame.kind = "ACK"
                  /\ x = "C" => frame.kind = "DATA" } }

Pending == { m \in Msgs : status[m] = "pending" }

\* The attempts a lost copy or forward harms.
Lost(frame, try) ==
    IF frame.kind /= "FOREIGN" /\ frame.msg \in Pending THEN {<<frame.msg, try>>} ELSE {}

\* A transmission: any of its copies may be lost.
Emit(rest, copies, lost) ==
    \E got \in SUBSET copies :
        /\ air' = rest \union got
        /\ harmed' = IF got = copies THEN harmed ELSE harmed \union lost

Quiet == air = {} /\ forward = NoForward

-----------------------------------------------------------------------------
(* The sender.                                                             *)

\* A queues an attempt and the radio reports on it.  A report other than success ends
\* the send with an error, although the frame may be out.
Transmit(m, try) ==
    /\ late' = 0
    /\ tries' = try
    /\ \/ /\ status' = [status EXCEPT ![m] = "pending"]
          /\ deadline' = now + AckWait
          /\ Emit(air, Copies("A", Data(m), 1, try), {<<m, try>>})
       \/ /\ status' = [status EXCEPT ![m] = "FAILED"]
          /\ deadline' = 0
          /\ \E got \in SUBSET Copies("A", Data(m), 1, try) : air' = air \union got
          /\ harmed' = {}

\* drive_send_prep and queue_tx
Send(m) ==
    /\ m <= setup.sends
    /\ status[m] = "unsent"
    /\ Pending = {}
    /\ \A o \in Msgs : o < m => status[o] /= "unsent"
    /\ Transmit(m, 1)
    /\ UNCHANGED <<setup, now, acks, receiver, relay, mischief>>

\* Mutant of Retry: one attempt too many.
RetryOnceMore(m) ==
    /\ status[m] = "pending"
    /\ now >= deadline
    /\ tries <= MaxTx
    /\ Transmit(m, tries + 1)
    /\ UNCHANGED <<setup, now, acks, receiver, relay, mischief>>

\* poll_timeouts with attempts left: the same bytes again.
Retry(m) ==
    /\ status[m] = "pending"
    /\ now >= deadline
    /\ tries < MaxTx
    /\ Transmit(m, tries + 1)
    /\ UNCHANGED <<setup, now, acks, receiver, relay, mischief>>

\* Mutant of Unconfirmed: the count of attempts must exceed the maximum.
UnconfirmedTooLate(m) ==
    /\ status[m] = "pending"
    /\ now >= deadline
    /\ tries > MaxTx
    /\ status' = [status EXCEPT ![m] = "UNCONFIRMED"]
    /\ tries' = 0 /\ deadline' = 0
    /\ harmed' = {}
    /\ UNCHANGED <<setup, now, late, acks, receiver, relay, air, mischief>>

\* poll_timeouts after the last attempt.
Unconfirmed(m) ==
    /\ status[m] = "pending"
    /\ now >= deadline
    /\ tries >= MaxTx
    /\ status' = [status EXCEPT ![m] = "UNCONFIRMED"]
    /\ tries' = 0 /\ deadline' = 0
    /\ harmed' = {}
    /\ UNCHANGED <<setup, now, late, acks, receiver, relay, air, mischief>>

\* Mutant of AckMatches: any acknowledgement of the peer ends the send in flight.
AckMatchesAny(m, frame) == status[m] = "pending"

\* on_frame: the referenced epoch, number and packet are those of pending_send.
AckMatches(m, frame) == status[m] = "pending" /\ frame.msg = m

\* on_rx of an ACK: the window first, then the send it may end.
HearAck(copy) ==
    /\ copy \in air /\ copy.to = "A"
    /\ air' = air \ {copy}
    /\ acks' = acks \union {copy.frame.seq}
    /\ IF copy.frame.seq \in acks \/ ~\E m \in Msgs : AckMatches(m, copy.frame)
       THEN UNCHANGED <<status, tries, deadline, harmed>>
       ELSE /\ status' = [m \in Msgs |-> IF AckMatches(m, copy.frame)
                                         THEN "ACKNOWLEDGED" ELSE status[m]]
            /\ tries' = 0 /\ deadline' = 0
            /\ harmed' = {}
    /\ UNCHANGED <<setup, now, late, receiver, relay, mischief>>

-----------------------------------------------------------------------------
(* The receiver.                                                           *)

\* Mutant of AckNumber: a repeated message is answered with the first answer.
AckNumberReused(m) == IF m \in accepted THEN m - 1 ELSE tx_next

\* build_ack takes the next number, for a re-acknowledgement too.
AckNumber(m) == tx_next

\* Mutant of Fresh: every copy that authenticates is reported.
FreshAlways(m) == TRUE

\* ReplayWindow::accept on the DATA window
Fresh(m) == m \notin accepted

\* on_rx of DATA: delivered if new, acknowledged in any case.
HearData(copy) ==
    LET m == copy.frame.msg IN
    /\ copy \in air /\ copy.to = "C"
    /\ accepted' = accepted \union {m}
    /\ delivered' = IF Fresh(m) THEN [delivered EXCEPT ![m] = @ + 1] ELSE delivered
    /\ tx_next' = tx_next + 1
    /\ Emit(air \ {copy}, Copies("C", Ack(m, AckNumber(m)), 1, copy.try), Lost(copy.frame, copy.try))
    /\ UNCHANGED <<setup, now, late, sender, relay, mischief>>

-----------------------------------------------------------------------------
(* The relay.                                                              *)

\* should_forward: an opaque frame is neither our own nor consumed here.
ShouldForward(hops) == hops = 1

\* transit and schedule_forward: a new frame with a hop left takes the one slot, and
\* a forward still waiting there is gone.
Transit(frame, hops, try) ==
    /\ entries' = Observe(entries, frame, now)
    /\ IF ~IsDuplicate(entries, frame, now) /\ ShouldForward(hops)
       THEN /\ forward' = [frame |-> frame, try |-> try]
            /\ harmed' = IF forward = NoForward THEN harmed
                         ELSE harmed \union Lost(forward.frame, forward.try)
       ELSE UNCHANGED <<forward, harmed>>

Remembered(attempts, cache) ==
    { h \in attempts : \E i \in Slots : cache[i].occupied /\ cache[i].key = h[1] }

HearTransit(copy) ==
    LET f == copy.frame IN
    /\ copy \in air /\ copy.to = "R"
    /\ air' = air \ {copy}
    /\ Transit(f, copy.hops, copy.try)
    /\ heard' = Remembered(heard \union {<<f, copy.try>>}, entries')
    /\ suppressed' = (suppressed \/ (IsDuplicate(entries, f, now) /\ <<f, copy.try>> \notin heard))
    /\ UNCHANGED <<setup, now, late, sender, receiver, mischief>>

HearForeign(k, hops) ==
    /\ mischief < MaxMischief
    /\ mischief' = mischief + 1
    /\ Transit(Foreign(k), hops, 0)
    /\ heard' = Remembered(heard, entries')
    /\ UNCHANGED <<setup, now, late, sender, receiver, suppressed, air>>

\* poll_timeouts: the listen delay is over.
ForwardOut ==
    /\ forward /= NoForward
    /\ forward' = NoForward
    /\ Emit(air, Copies("R", forward.frame, 0, forward.try), Lost(forward.frame, forward.try))
    /\ UNCHANGED <<setup, now, late, sender, receiver, entries, heard, suppressed, mischief>>

\* R restarts with an empty cache.
RelayReboot ==
    /\ mischief < MaxMischief
    /\ mischief' = mischief + 1
    /\ entries' = NewCache
    /\ forward' = NoForward
    /\ heard' = {}
    /\ harmed' = IF forward = NoForward THEN harmed
                 ELSE harmed \union Lost(forward.frame, forward.try)
    /\ UNCHANGED <<setup, now, late, sender, receiver, suppressed, air>>

-----------------------------------------------------------------------------
(* Time.                                                                   *)

\* Time passes while something waits for it; an idle mesh is the same later, since a
\* new message shares no frame with an old one.  Deadlines are polled every 50 ms, so
\* none is passed unnoticed.
Tick ==
    /\ \A m \in Pending : now < deadline
    /\ Pending /= {} \/ ~Quiet
    /\ ~Quiet => late < MaxDelay
    /\ late' = IF Quiet THEN 0 ELSE late + 1
    /\ now' = now + 1
    /\ UNCHANGED <<setup, sender, receiver, relay, air, harmed, mischief>>

-----------------------------------------------------------------------------

Init ==
    /\ setup \in Setups
    /\ now = 0 /\ late = 0
    /\ status = [m \in Msgs |-> "unsent"]
    /\ tries = 0 /\ deadline = 0 /\ acks = {}
    /\ accepted = {} /\ tx_next = 0
    /\ delivered = [m \in Msgs |-> 0]
    /\ entries = NewCache /\ forward = NoForward
    /\ heard = {} /\ suppressed = FALSE /\ harmed = {}
    /\ air = {}
    /\ mischief = 0

AirStep == \E copy \in air : HearAck(copy) \/ HearData(copy) \/ HearTransit(copy)
PollStep == \E m \in Msgs : Retry(m) \/ Unconfirmed(m)

Next ==
    \/ \E m \in Msgs : Send(m)
    \/ PollStep \/ AirStep \/ ForwardOut
    \/ \E k \in Noise, hops \in {0, 1} : HearForeign(k, hops)
    \/ RelayReboot
    \/ Tick

Spec == Init /\ [][Next]_vars

\* Every board polls (50 ms tick), what is on the air ends, and time passes.
FairSpec ==
    Spec /\ WF_vars(PollStep) /\ WF_vars(AirStep) /\ WF_vars(ForwardOut) /\ WF_vars(Tick)

-----------------------------------------------------------------------------

TypeOK ==
    /\ now \in Nat /\ late \in 0 .. MaxDelay
    /\ status \in [Msgs -> {"unsent", "pending", "ACKNOWLEDGED", "UNCONFIRMED", "FAILED"}]
    /\ tries \in 0 .. MaxTx /\ deadline \in Nat
    /\ Cardinality(Pending) <= 1
    /\ accepted \subseteq Msgs /\ delivered \in [Msgs -> Nat] /\ tx_next \in Nat
    /\ \A c \in air : c.hops \in {0, 1} /\ c.try \in 1 .. MaxTx
    /\ forward = NoForward \/ forward.try \in 0 .. MaxTx

\* The mesh as a whole delivers at most once and acknowledges only what was delivered,
\* also when a late acknowledgement of one message meets the next.
Service == INSTANCE MessageService
ServiceSpec == Service!Spec

\* relay.rs: "The 12 s endpoint retry interval intentionally outlives the cache so a
\* retry can still traverse a relay": an attempt R has not heard is never taken for a
\* duplicate of an earlier one.
RetryTraverses == ~suppressed

\* Three attempts are worth three chances: a message ends UNCONFIRMED only if each of
\* its attempts lost a copy or a forward on the way there or back.
UnconfirmedNeedsLosses ==
    [][\A m \in Msgs :
          status[m] = "pending" /\ status'[m] = "UNCONFIRMED"
              => \A try \in 1 .. MaxTx : <<m, try>> \in harmed]_vars

\* Every send ends with a final word, however much is lost.
EverySendEnds == []<>(Pending = {})
=============================================================================
