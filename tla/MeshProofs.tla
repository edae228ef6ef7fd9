------------------------------ MODULE MeshProofs ------------------------------
(* What the mesh guarantees, for every number of messages, attempts and    *)
(* foreign frames, and every cache size, lifetime and delay.               *)
EXTENDS Mesh, FiniteSetTheorems, TLAPS

States == {"unsent", "pending", "ACKNOWLEDGED", "UNCONFIRMED", "FAILED"}

\* A copy on its way: data to C or R, acknowledgements to A or R, the latter with a hop left.
AirCopies ==
    { c \in [frame : Frames, hops : {0, 1}, try : 1 .. MaxTx, to : {"A", "C", "R"}] :
        /\ c.frame.kind /= "FOREIGN"
        /\ c.to = "A" => c.frame.kind = "ACK"
        /\ c.to = "C" => c.frame.kind = "DATA"
        /\ c.to = "R" => c.hops = 1 }

Forwards == [frame : Frames, try : 0 .. MaxTx]

\* Types, and at most one send in flight.
Shape ==
    /\ setup \in Setups
    /\ now \in Nat /\ late \in 0 .. MaxDelay
    /\ status \in [Msgs -> States]
    /\ tries \in 0 .. MaxTx /\ deadline \in Nat
    /\ \A m, n \in Pending : m = n
    /\ accepted \subseteq Msgs /\ delivered \in [Msgs -> Nat] /\ tx_next \in Nat
    /\ entries \in [Slots -> [occupied : BOOLEAN, key : Frames \union {NoKey}, expires : Nat]]
    /\ forward \in {NoForward} \union { f \in Forwards : f.frame.kind /= "FOREIGN" => f.try >= 1 }
    /\ air \subseteq AirCopies

\* C reports a message when it first accepts it; only messages sent arrive.
Delivery ==
    /\ \A m \in Msgs : delivered[m] = IF m \in accepted THEN 1 ELSE 0
    /\ \A m \in accepted : status[m] /= "unsent"
    /\ \A s \in acks : s \in Nat /\ s < tx_next

\* The frames on their way or waiting to be forwarded.
About == { c.frame : c \in air } \union (IF forward = NoForward THEN {} ELSE {forward.frame})

\* Data is of a message sent; an acknowledgement is of a message accepted, under a number
\* given out, and news to A while its message is pending.
FrameOk(f) ==
    /\ f.kind = "DATA" => /\ f.msg \in Msgs /\ f = Data(f.msg)
                          /\ status[f.msg] /= "unsent"
    /\ f.kind = "ACK" => /\ f.msg \in accepted
                         /\ f.seq < tx_next
                         /\ status[f.msg] = "pending" => f.seq \notin acks

\* An acknowledgement's number is its own.
Traffic ==
    /\ \A f \in About : FrameOk(f)
    /\ \A f, g \in About : f.kind = "ACK" /\ g.kind = "ACK" /\ f.seq = g.seq => f.msg = g.msg

\* What R remembers is out; an attempt's entry expires before the next attempt.
EntryOk(e) ==
    e.occupied =>
        /\ e.key \in Frames
        /\ e.key.kind = "DATA" => /\ e.key.msg \in Msgs /\ e.key = Data(e.key.msg)
                                  /\ status[e.key.msg] /= "unsent"
                                  /\ status[e.key.msg] = "pending" => e.expires <= deadline
        /\ e.key.kind = "ACK" => e.key.seq < tx_next

\* No frame that R is still to hear is remembered, and it hears each only once.
Cache ==
    /\ \A i \in Slots : EntryOk(entries[i])
    /\ \A c \in air : c.to = "R" => ~IsDuplicate(entries, c.frame, now)
    /\ \A c, d \in air : c.to = "R" /\ d.to = "R" /\ c.frame = d.frame => c = d
    /\ ~suppressed

Real(f) == f.kind /= "FOREIGN"

\* What an attempt set off is about no longer than late says.
Timing ==
    Pending /= {} /\ (\E f \in About : Real(f)) => now + AckWait <= deadline + late

\* Something of an attempt is about.
Token(m, try) ==
    \/ \E c \in air : c.frame.msg = m /\ c.try = try
    \/ forward /= NoForward /\ Real(forward.frame) /\ forward.frame.msg = m /\ forward.try = try

\* An attempt at the message in flight is about or was harmed.
Tokens == \A m \in Pending : \A try \in 1 .. tries : <<m, try>> \in harmed \/ Token(m, try)

Inv == Shape /\ Delivery /\ Traffic /\ Cache /\ Timing /\ Tokens

-----------------------------------------------------------------------------
(* Facts about transmissions and about the cache.                          *)

\* The copies of a transmission are of its frame, and none goes back to its sender.
LEMMA CopiesAre ==
    ASSUME setup \in Setups, NEW from \in {"A", "C", "R"}, NEW frame, NEW hops, NEW try,
           NEW c \in Copies(from, frame, hops, try)
    PROVE  /\ c = [frame |-> frame, hops |-> hops, try |-> try, to |-> c.to]
           /\ c.frame = frame /\ c.hops = hops /\ c.try = try
           /\ c.to \in {"A", "C", "R"} /\ c.to /= from
           /\ c.to = "A" => frame.kind = "ACK"
           /\ c.to = "C" => frame.kind = "DATA"
  <1>1. PICK b \in {"A", "C", "R"} :
           /\ c = [frame |-> frame, hops |-> hops, try |-> try, to |-> b]
           /\ {from, b} \in setup.links
           /\ b = "A" => frame.kind = "ACK"
           /\ b = "C" => frame.kind = "DATA"
    BY DEF Copies
  <1>2. {from, b} \in {{"A", "R"}, {"R", "C"}, {"A", "C"}}
    BY <1>1, MeshAssumption
  <1>3. b /= from
    BY <1>2
  <1> QED BY <1>1, <1>3

\* They have the type of copies, if the relay does not forward more than once.
LEMMA CopiesTyped ==
    ASSUME setup \in Setups, NEW from \in {"A", "C", "R"}, NEW frame \in Frames,
           Real(frame), NEW hops \in {0, 1}, NEW try \in 1 .. MaxTx, from = "R" \/ hops = 1
    PROVE  Copies(from, frame, hops, try) \subseteq AirCopies
  <1> SUFFICES ASSUME NEW c \in Copies(from, frame, hops, try) PROVE c \in AirCopies
    OBVIOUS
  <1>1. /\ c = [frame |-> frame, hops |-> hops, try |-> try, to |-> c.to]
        /\ c.frame = frame /\ c.hops = hops /\ c.try = try
        /\ c.to \in {"A", "C", "R"} /\ c.to /= from
        /\ c.to = "A" => frame.kind = "ACK"
        /\ c.to = "C" => frame.kind = "DATA"
    BY CopiesAre
  <1> QED BY <1>1 DEF AirCopies, Real

\* Every transmission of data or acknowledgement is in someone's reach.
LEMMA CopiesReach ==
    ASSUME setup \in Setups, NEW frame, NEW hops, NEW try
    PROVE  /\ [frame |-> frame, hops |-> hops, try |-> try, to |-> "R"] \in Copies("A", frame, hops, try)
           /\ [frame |-> frame, hops |-> hops, try |-> try, to |-> "R"] \in Copies("C", frame, hops, try)
           /\ frame.kind = "DATA" =>
                [frame |-> frame, hops |-> hops, try |-> try, to |-> "C"] \in Copies("R", frame, hops, try)
           /\ frame.kind = "ACK" =>
                [frame |-> frame, hops |-> hops, try |-> try, to |-> "A"] \in Copies("R", frame, hops, try)
  <1>1. /\ {"A", "R"} \in setup.links /\ {"R", "C"} \in setup.links
        /\ {"C", "R"} = {"R", "C"} /\ {"R", "A"} = {"A", "R"}
    BY MeshAssumption
  <1> QED BY <1>1 DEF Copies

\* A foreign frame is in nobody's reach once R forwards it.
LEMMA ForeignReach ==
    ASSUME setup \in Setups, NEW frame, ~Real(frame), NEW hops, NEW try
    PROVE  Copies("R", frame, hops, try) = {}
  <1> SUFFICES ASSUME NEW c \in Copies("R", frame, hops, try) PROVE FALSE
    OBVIOUS
  <1> QED BY CopiesAre DEF Real

CacheType == [Slots -> [occupied : BOOLEAN, key : Frames \union {NoKey}, expires : Nat]]

\* observe adds at most one entry, for the frame it is given, and only if that is new.
LEMMA ObserveEffect ==
    ASSUME NEW cache \in CacheType, NEW k \in Frames, NEW t \in Nat
    PROVE  /\ Observe(cache, k, t) \in CacheType
           /\ \A i \in Slots :
                 LET e == Observe(cache, k, t)[i] IN
                 e.occupied =>
                    \/ cache[i].occupied /\ e.key = cache[i].key /\ e.expires = cache[i].expires
                    \/ ~IsDuplicate(cache, k, t) /\ e.key = k /\ e.expires = t + TTL
  <1>1. ASSUME NEW upto
        PROVE  /\ Reclaim(cache, upto, t) \in CacheType
               /\ \A i \in Slots : Reclaim(cache, upto, t)[i].occupied =>
                     Reclaim(cache, upto, t)[i] = cache[i]
    BY DEF CacheType, Reclaim
  <1>2. CASE IsDuplicate(cache, k, t)
    <2>1. Observe(cache, k, t) = Reclaim(cache, First(Hits(cache, k, t)), t)
      BY <1>2 DEF Observe, ObserveDuplicate
    <2> QED BY <1>1, <2>1
  <1>3. CASE ~IsDuplicate(cache, k, t)
    <2> DEFINE scanned == Reclaim(cache, Size + 1, t)
               e == [occupied |-> TRUE, key |-> k, expires |-> t + TTL]
    <2>1. Observe(cache, k, t) = [scanned EXCEPT ![Victim(scanned)] = e]
      BY <1>3 DEF Observe, ObserveNew
    <2>2. scanned \in CacheType /\ \A i \in Slots : scanned[i].occupied => scanned[i] = cache[i]
      BY <1>1
    <2>3. e \in [occupied : BOOLEAN, key : Frames \union {NoKey}, expires : Nat]
      BY CacheAssumption
    <2>4. e.key = k /\ e.expires = t + TTL
      OBVIOUS
    <2> HIDE DEF scanned, e
    <2>5. \A i \in Slots : Observe(cache, k, t)[i] = IF i = Victim(scanned) THEN e ELSE scanned[i]
      BY <2>1, <2>2 DEF CacheType
    <2>6. Observe(cache, k, t) \in CacheType
      BY <2>1, <2>2, <2>3 DEF CacheType
    <2> QED BY <1>3, <2>2, <2>4, <2>5, <2>6
  <1> QED BY <1>2, <1>3

\* A frame is remembered exactly if an entry of it has time left.
LEMMA DuplicateMeans ==
    ASSUME NEW cache \in CacheType, NEW k, NEW t \in Nat
    PROVE  IsDuplicate(cache, k, t) <=>
              \E i \in Slots : cache[i].occupied /\ cache[i].key = k /\ t < cache[i].expires
  BY DEF CacheType, IsDuplicate, Hits, Expired

\* What an entry of the cache observe leaves is.
LEMMA ObserveNoNewHits ==
    ASSUME NEW cache \in CacheType, NEW k \in Frames, NEW j, NEW t \in Nat, j /= k,
           ~IsDuplicate(cache, j, t)
    PROVE  ~IsDuplicate(Observe(cache, k, t), j, t)
  BY ObserveEffect, DuplicateMeans

\* When the deadline has come, nothing of the message in flight is about any more.
LEMMA DeadlineQuiet ==
    ASSUME Inv, Pending /= {}, now >= deadline
    PROVE  air = {} /\ \A f \in About : ~Real(f)
  <1>1. TTL \in Nat /\ TTL > 0 /\ AckWait \in Nat /\ MaxDelay \in Nat /\ TTL + MaxDelay <= AckWait
    BY CacheAssumption, MeshAssumption
  <1>2. now \in Nat /\ deadline \in Nat /\ late \in Nat /\ late <= MaxDelay
    BY <1>1 DEF Inv, Shape
  <1>3. ~(now + AckWait <= deadline + late)
    BY <1>1, <1>2
  <1>4. \A f \in About : ~Real(f)
    BY <1>3 DEF Inv, Timing
  <1>5. \A c \in air : Real(c.frame) /\ c.frame \in About
    BY DEF Inv, Shape, AirCopies, Real, About
  <1> QED BY <1>4, <1>5

\* Nothing is out and nothing is remembered at first.
LEMMA InitInv == Init => Inv
  <1> SUFFICES ASSUME Init PROVE Inv
    OBVIOUS
  <1> USE CacheAssumption, MeshAssumption
  <1>1. Pending = {} /\ About = {}
    BY DEF Init, Pending, About
  <1>2. Shape
    BY <1>1 DEF Init, Shape, States, NewCache
  <1>3. Delivery /\ Traffic /\ Timing /\ Tokens
    BY <1>1 DEF Init, Delivery, Traffic, Timing, Tokens
  <1>4. Cache
    BY DEF Init, Cache, EntryOk, NewCache
  <1> QED BY <1>2, <1>3, <1>4 DEF Inv

-----------------------------------------------------------------------------
(* Inv is inductive: one lemma for each action.                            *)

\* Time passes: entries only expire, and frames about count as late.
LEMMA TickInv == ASSUME Inv, Tick PROVE Inv'
  <1> USE CacheAssumption, MeshAssumption
  <1>1. /\ UNCHANGED <<setup, status, tries, deadline, acks, accepted, delivered, tx_next,
                      entries, forward, heard, suppressed, air, harmed>>
        /\ now \in Nat /\ now' = now + 1 /\ late \in Nat /\ deadline \in Nat
        /\ late' = IF Quiet THEN 0 ELSE late + 1
        /\ ~Quiet => late < MaxDelay
    BY DEF Tick, sender, receiver, relay, Inv, Shape
  <1>2. Pending' = Pending /\ About' = About
    BY <1>1 DEF Pending, About
  <1>3. Shape'
    BY <1>1, <1>2 DEF Inv, Shape
  <1>4. Delivery' /\ Traffic' /\ Tokens'
    BY <1>1, <1>2 DEF Inv, Delivery, Traffic, FrameOk, Tokens, Token
  <1>5. Cache'
    <2>1. \A c \in air : c.to = "R" => ~IsDuplicate(entries, c.frame, now + 1)
      <3> SUFFICES ASSUME NEW c \in air, c.to = "R" PROVE ~IsDuplicate(entries, c.frame, now + 1)
        OBVIOUS
      <3>1. entries \in CacheType /\ now + 1 \in Nat
        BY <1>1 DEF Inv, Shape, CacheType
      <3>2. ~IsDuplicate(entries, c.frame, now)
        BY DEF Inv, Cache
      <3>3. \A i \in Slots : entries[i].expires \in Nat
        BY <3>1 DEF CacheType
      <3> QED BY <1>1, <3>1, <3>2, <3>3, DuplicateMeans
    <2> QED BY <1>1, <2>1 DEF Inv, Cache, EntryOk
  <1>6. Timing'
    <2>1. (\E f \in About : Real(f)) => ~Quiet
      BY DEF About, Quiet
    <2> QED BY <1>1, <1>2, <2>1 DEF Inv, Timing
  <1> QED BY <1>3, <1>4, <1>5, <1>6 DEF Inv

\* The last attempt is given up.
LEMMA UnconfirmedInv == ASSUME Inv, NEW m \in Msgs, Unconfirmed(m) PROVE Inv'
  <1>1. /\ UNCHANGED <<setup, now, late, acks, accepted, delivered, tx_next,
                      entries, forward, heard, suppressed, air>>
        /\ status' = [status EXCEPT ![m] = "UNCONFIRMED"] /\ status[m] = "pending"
        /\ tries' = 0 /\ deadline' = 0
    BY DEF Unconfirmed, receiver, relay
  <1>2. status \in [Msgs -> States] /\ \A n \in Pending : n = m
    BY <1>1 DEF Inv, Shape, Pending
  <1>3. Pending' = {} /\ About' = About
    BY <1>1, <1>2 DEF Pending, About
  <1>4. \A n \in Msgs : status'[n] /= "pending" /\ (status[n] /= "unsent" => status'[n] /= "unsent")
    BY <1>1, <1>2, <1>3 DEF Pending
  <1>5. Shape'
    BY <1>1, <1>2, <1>3, MeshAssumption DEF Inv, Shape, States
  <1>6. Delivery'
    BY <1>1, <1>4 DEF Inv, Delivery, Shape
  <1>7. Traffic'
    <2>1. accepted \subseteq Msgs
      BY DEF Inv, Shape
    <2> QED BY <1>1, <1>3, <1>4, <2>1 DEF Inv, Traffic, FrameOk
  <1>8. Cache'
    BY <1>1, <1>4 DEF Inv, Cache, EntryOk
  <1>9. Timing' /\ Tokens'
    BY <1>3 DEF Timing, Tokens
  <1> QED BY <1>5, <1>6, <1>7, <1>8, <1>9 DEF Inv

\* An attempt goes out: the earlier ones are harmed and forgotten.
LEMMA TransmitInv ==
    ASSUME Inv, NEW m \in Msgs, NEW try \in 1 .. MaxTx, Transmit(m, try),
           UNCHANGED <<setup, now, acks, receiver, relay, mischief>>,
           \A n \in Pending : n = m,
           \A f \in About : Real(f) => f.msg /= m,
           ~IsDuplicate(entries, Data(m), now),
           \A k \in 1 .. try : k = try \/ <<m, k>> \in harmed
    PROVE  Inv'
  <1> USE CacheAssumption, MeshAssumption
  <1> DEFINE new == Copies("A", Data(m), 1, try)
  <1>1. /\ UNCHANGED <<accepted, delivered, tx_next, entries, forward, heard, suppressed>>
        /\ late' = 0 /\ tries' = try
    BY DEF Transmit, receiver, relay
  <1>2. Data(m) \in Frames /\ Real(Data(m)) /\ Data(m).kind = "DATA" /\ Data(m).msg = m
    BY DEF Data, Frames, Real
  <1>3. new \subseteq AirCopies
    BY <1>2, CopiesTyped DEF Inv, Shape
  <1>4. \A c \in new : c = [frame |-> Data(m), hops |-> 1, try |-> try, to |-> c.to]
                       /\ c.frame = Data(m) /\ c.try = try
    BY CopiesAre DEF Inv, Shape
  <1>5. PICK got \in SUBSET new : air' = air \union got /\
           \/ /\ status' = [status EXCEPT ![m] = "pending"] /\ deadline' = now + AckWait
              /\ harmed \subseteq harmed' /\ (got = new \/ <<m, try>> \in harmed')
           \/ status' = [status EXCEPT ![m] = "FAILED"] /\ deadline' = 0
    BY DEF Transmit, Emit
  <1> HIDE DEF new
  <1>6. status \in [Msgs -> States] /\ now \in Nat /\ deadline \in Nat
    BY DEF Inv, Shape
  <1>7. /\ \A n \in Msgs : n /= m => status'[n] = status[n] /\ status[n] /= "pending"
        /\ status'[m] \in {"pending", "FAILED"} /\ Pending' \subseteq {m}
        /\ status'[m] = "pending" => deadline' = now + AckWait
        /\ deadline' \in Nat /\ status' \in [Msgs -> States]
    BY <1>5, <1>6 DEF Pending, States
  <1>8. /\ \A c \in air' : c \in air \/ c \in new
        /\ \A f \in About' : f \in About \/ f = Data(m)
    BY <1>1, <1>4, <1>5 DEF About
  <1>9. Shape'
    BY <1>1, <1>3, <1>7, <1>8 DEF Inv, Shape
  <1>10. Delivery'
    BY <1>1, <1>7 DEF Inv, Delivery, Shape
  <1>11. Traffic'
    <2>1. ASSUME NEW f \in About' PROVE FrameOk(f)'
      <3>1. CASE f = Data(m)
        BY <1>2, <1>7, <3>1 DEF FrameOk
      <3>2. CASE f \in About
        <4>1. FrameOk(f) /\ (Real(f) => f.msg /= m)
          BY <3>2 DEF Inv, Traffic
        <4>2. accepted \subseteq Msgs
          BY DEF Inv, Shape
        <4> QED BY <1>1, <1>7, <4>1, <4>2 DEF FrameOk, Real
      <3> QED BY <1>8, <3>1, <3>2
    <2>2. \A f, g \in About' : f.kind = "ACK" /\ g.kind = "ACK" /\ f.seq = g.seq => f.msg = g.msg
      BY <1>2, <1>8 DEF Inv, Traffic
    <2> QED BY <2>1, <2>2 DEF Traffic
  <1>12. Cache'
    <2>1. ASSUME NEW i \in Slots PROVE EntryOk(entries[i])'
      <3>1. EntryOk(entries[i]) /\ entries \in CacheType
        BY DEF Inv, Cache, Shape, CacheType
      <3>2. entries[i].occupied /\ entries[i].key = Data(m) => entries[i].expires <= now + AckWait
        BY <1>6, <3>1, DuplicateMeans DEF CacheType
      <3> QED BY <1>1, <1>2, <1>7, <3>1, <3>2 DEF EntryOk
    <2>2. \A c \in air' : c.to = "R" => ~IsDuplicate(entries, c.frame, now)
      BY <1>4, <1>8 DEF Inv, Cache
    <2>3. \A c \in air : c.frame \in About /\ Real(c.frame)
      BY DEF Inv, Shape, AirCopies, About, Real
    <2>4. \A c, d \in air' : c.to = "R" /\ d.to = "R" /\ c.frame = d.frame => c = d
      BY <1>2, <1>4, <1>8, <2>3 DEF Inv, Cache
    <2> QED BY <1>1, <2>1, <2>2, <2>4 DEF Inv, Cache
  <1>13. Timing'
    <2>1. Pending' /= {} => deadline' = now + AckWait
      BY <1>7 DEF Pending
    <2>2. now' = now /\ late' = 0 /\ now + AckWait <= (now + AckWait) + 0
      BY <1>1, <1>6
    <2> QED BY <2>1, <2>2 DEF Timing
  <1>14. Tokens'
    <2> SUFFICES ASSUME NEW n \in Pending', NEW k \in 1 .. tries'
                 PROVE  <<n, k>> \in harmed' \/ Token(n, k)'
      BY DEF Tokens
    <2>1. n = m /\ status'[m] = "pending"
      BY <1>7 DEF Pending
    <2>2. harmed \subseteq harmed' /\ (got = new \/ <<m, try>> \in harmed')
      BY <1>5, <1>6, <2>1
    <2>3. CASE k /= try
      BY <1>1, <2>1, <2>2, <2>3
    <2>4. CASE k = try /\ got = new
      <3> DEFINE c == [frame |-> Data(m), hops |-> 1, try |-> try, to |-> "R"]
      <3>1. c \in new /\ c.frame = Data(m) /\ c.try = try
        BY CopiesReach DEF Inv, Shape, new
      <3> HIDE DEF c
      <3>2. c \in air'
        BY <1>5, <2>4, <3>1
      <3> QED BY <1>2, <2>1, <2>4, <3>1, <3>2 DEF Token
    <2> QED BY <2>1, <2>2, <2>3, <2>4
  <1> QED BY <1>9, <1>10, <1>11, <1>12, <1>13, <1>14 DEF Inv

\* The first attempt: nothing of the message is about or remembered.
LEMMA SendInv == ASSUME Inv, NEW m \in Msgs, Send(m) PROVE Inv'
  <1>1. status[m] = "unsent" /\ Pending = {} /\ Transmit(m, 1)
        /\ UNCHANGED <<setup, now, acks, receiver, relay, mischief>>
    BY DEF Send
  <1>2. \A f \in About : Real(f) => f.msg /= m
    <2> SUFFICES ASSUME NEW f \in About, Real(f) PROVE f.msg /= m
      OBVIOUS
    <2>1. f.kind \in {"DATA", "ACK"}
      BY DEF Inv, Shape, About, AirCopies, Forwards, Frames, Real
    <2>2. FrameOk(f)
      BY DEF Inv, Traffic
    <2> QED BY <1>1, <2>1, <2>2 DEF FrameOk, Inv, Delivery
  <1>3. ~IsDuplicate(entries, Data(m), now)
    <2>1. entries \in CacheType /\ now \in Nat
      BY DEF Inv, Shape, CacheType
    <2>2. \A i \in Slots : ~(entries[i].occupied /\ entries[i].key = Data(m))
      BY <1>1 DEF Inv, Cache, EntryOk, Data
    <2> QED BY <2>1, <2>2, DuplicateMeans
  <1>4. 1 \in 1 .. MaxTx /\ \A k \in 1 .. 1 : k = 1
    BY MeshAssumption
  <1> QED BY <1>1, <1>2, <1>3, <1>4, TransmitInv

\* A further attempt: its deadline has outlived the frames and the entry of the last one.
LEMMA RetryInv == ASSUME Inv, NEW m \in Msgs, Retry(m) PROVE Inv'
  <1> USE CacheAssumption, MeshAssumption
  <1>1. /\ status[m] = "pending" /\ now >= deadline /\ tries < MaxTx /\ Transmit(m, tries + 1)
        /\ UNCHANGED <<setup, now, acks, receiver, relay, mischief>>
    BY DEF Retry
  <1>2. \A n \in Pending : n = m
    BY <1>1 DEF Inv, Shape, Pending
  <1>3. m \in Pending /\ tries \in 0 .. MaxTx /\ now \in Nat /\ deadline \in Nat
    BY <1>1 DEF Pending, Inv, Shape
  <1>4. air = {} /\ \A f \in About : ~Real(f)
    BY <1>1, <1>3, DeadlineQuiet
  <1>5. ~IsDuplicate(entries, Data(m), now)
    <2>1. entries \in CacheType
      BY DEF Inv, Shape, CacheType
    <2>2. \A i \in Slots : entries[i].occupied /\ entries[i].key = Data(m) => entries[i].expires <= deadline
      BY <1>1 DEF Inv, Cache, EntryOk, Data
    <2>3. \A i \in Slots : entries[i].expires \in Nat
      BY <2>1 DEF CacheType
    <2> QED BY <1>1, <1>3, <2>1, <2>2, <2>3, DuplicateMeans
  <1>6. \A k \in 1 .. tries : ~Token(m, k)
    BY <1>4 DEF Token, About
  <1>7. \A k \in 1 .. tries : <<m, k>> \in harmed
    BY <1>3, <1>6 DEF Inv, Tokens
  <1>8. tries + 1 \in 1 .. MaxTx /\ \A k \in 1 .. tries + 1 : k = tries + 1 \/ k \in 1 .. tries
    BY <1>1, <1>3
  <1> QED BY <1>1, <1>2, <1>4, <1>5, <1>7, <1>8, TransmitInv

\* A copy on the air, and what it says.
LEMMA CopyFacts ==
    ASSUME Inv, NEW c \in air
    PROVE  /\ c \in AirCopies /\ c.frame \in Frames /\ c.try \in 1 .. MaxTx /\ c.frame.seq \in Nat
           /\ Real(c.frame) /\ c.frame.kind \in {"DATA", "ACK"}
           /\ c.frame \in About /\ FrameOk(c.frame) /\ c.frame.msg \in Msgs
  <1>1. /\ c \in AirCopies /\ c.frame \in Frames /\ c.try \in 1 .. MaxTx /\ c.frame.seq \in Nat
        /\ Real(c.frame) /\ c.frame.kind \in {"DATA", "ACK"}
    BY DEF Inv, Shape, AirCopies, Frames, Real
  <1>2. c.frame \in About
    BY DEF About
  <1>3. FrameOk(c.frame)
    BY <1>2 DEF Inv, Traffic
  <1>4. accepted \subseteq Msgs
    BY DEF Inv, Shape
  <1> QED BY <1>1, <1>2, <1>3, <1>4 DEF FrameOk

\* An acknowledgement: if its message is pending it is news and ends the send; if not,
\* its number is marked and nothing pending is affected.
LEMMA HearAckInv == ASSUME Inv, NEW copy \in air, HearAck(copy) PROVE Inv'
  <1> DEFINE f == copy.frame
  <1>1. /\ UNCHANGED <<setup, now, late, accepted, delivered, tx_next,
                      entries, forward, suppressed>>
        /\ air' = air \ {copy} /\ acks' = acks \union {f.seq} /\ copy.to = "A"
    BY DEF HearAck, receiver, relay
  <1>2. /\ f \in Frames /\ f.kind = "ACK" /\ f.seq \in Nat /\ f \in About /\ FrameOk(f) /\ f.msg \in Msgs
    BY <1>1, CopyFacts DEF AirCopies
  <1>3. f.seq < tx_next /\ (status[f.msg] = "pending" => f.seq \notin acks)
    BY <1>2 DEF FrameOk
  <1>4. About' \subseteq About
    BY <1>1 DEF About
  <1>5. status \in [Msgs -> States] /\ accepted \subseteq Msgs
    BY DEF Inv, Shape
  <1>6. \/ status[f.msg] /= "pending" /\ UNCHANGED <<status, tries, deadline, harmed>>
        \/ /\ status[f.msg] = "pending" /\ status' = [status EXCEPT ![f.msg] = "ACKNOWLEDGED"]
           /\ tries' = 0 /\ deadline' = 0
    <2>1. CASE status[f.msg] = "pending"
      <3>1. AckMatches(f.msg, f) /\ f.seq \notin acks
        BY <1>3, <2>1 DEF AckMatches
      <3>2. /\ status' = [m \in Msgs |-> IF AckMatches(m, f) THEN "ACKNOWLEDGED" ELSE status[m]]
            /\ tries' = 0 /\ deadline' = 0
        BY <1>2, <3>1 DEF HearAck
      <3>3. status' = [status EXCEPT ![f.msg] = "ACKNOWLEDGED"]
        BY <1>2, <1>5, <2>1, <3>2 DEF AckMatches
      <3> QED BY <2>1, <3>2, <3>3
    <2>2. CASE status[f.msg] /= "pending"
      BY <2>2 DEF HearAck, AckMatches
    <2> QED BY <2>1, <2>2
  <1>7. \A n \in Pending : n /= f.msg => n \in Pending' /\ status'[n] = status[n]
    BY <1>5, <1>6 DEF Pending
  <1>8. /\ status' \in [Msgs -> States] /\ Pending' \subseteq Pending /\ f.msg \notin Pending'
        /\ \A n \in Msgs : status[n] /= "unsent" => status'[n] /= "unsent"
        /\ \A n \in Msgs : status'[n] = "pending" => status[n] = "pending" /\ n /= f.msg
    BY <1>2, <1>5, <1>6 DEF Pending, States
  <1>9. tries' \in 0 .. MaxTx /\ deadline' \in Nat
    BY <1>6, MeshAssumption DEF Inv, Shape
  <1>10. Pending' /= {} => UNCHANGED <<status, tries, deadline, harmed>>
    <2>1. ASSUME status[f.msg] = "pending" PROVE Pending' = {}
      BY <1>2, <1>8, <2>1 DEF Inv, Shape, Pending
    <2> QED BY <1>6, <2>1
  <1> HIDE DEF f
  <1>11. Shape'
    BY <1>1, <1>8, <1>9 DEF Inv, Shape
  <1>12. Delivery'
    BY <1>1, <1>2, <1>3, <1>5, <1>8 DEF Inv, Delivery
  <1>13. Traffic'
    <2>1. ASSUME NEW g \in About' PROVE FrameOk(g)'
      <3>1. FrameOk(g) /\ g \in About
        BY <1>4 DEF Inv, Traffic
      <3>2. g.kind = "ACK" /\ g.seq = f.seq => g.msg = f.msg
        BY <1>2, <3>1 DEF Inv, Traffic
      <3> QED BY <1>1, <1>5, <1>8, <3>1, <3>2 DEF FrameOk
    <2> QED BY <1>4, <2>1 DEF Inv, Traffic
  <1>14. Cache'
    <2>1. ASSUME NEW i \in Slots PROVE EntryOk(entries[i])'
      <3>1. EntryOk(entries[i])
        BY DEF Inv, Cache
      <3>2. \A n \in Msgs : status'[n] = "pending" => deadline' = deadline
        BY <1>10 DEF Pending
      <3> QED BY <1>1, <1>8, <3>1, <3>2 DEF EntryOk
    <2> QED BY <1>1, <2>1 DEF Inv, Cache
  <1>15. Timing'
    BY <1>1, <1>4, <1>8, <1>10 DEF Inv, Timing
  <1>16. Tokens'
    <2> SUFFICES ASSUME NEW n \in Pending', NEW k \in 1 .. tries'
                 PROVE  <<n, k>> \in harmed' \/ Token(n, k)'
      BY DEF Tokens
    <2>1. n \in Pending /\ n /= f.msg /\ UNCHANGED <<tries, harmed>>
      BY <1>8, <1>10
    <2>2. <<n, k>> \in harmed \/ Token(n, k)
      BY <2>1 DEF Inv, Tokens
    <2> QED BY <1>1, <2>1, <2>2 DEF Token, f
  <1> QED BY <1>11, <1>12, <1>13, <1>14, <1>15, <1>16 DEF Inv

\* Data: the acknowledgement carries a number nobody has seen, so neither R nor A can
\* take it for an earlier one.
LEMMA HearDataInv == ASSUME Inv, NEW copy \in air, HearData(copy) PROVE Inv'
  <1> USE MeshAssumption
  <1> DEFINE m == copy.frame.msg
             a == Ack(m, tx_next)
             new == Copies("C", a, 1, copy.try)
             lost == Lost(copy.frame, copy.try)
  <1>1. /\ UNCHANGED <<setup, now, late, status, tries, deadline, acks,
                      entries, forward, suppressed>>
        /\ copy.to = "C" /\ accepted' = accepted \union {m} /\ tx_next' = tx_next + 1
        /\ delivered' = IF m \notin accepted THEN [delivered EXCEPT ![m] = @ + 1] ELSE delivered
    BY DEF HearData, sender, relay, Fresh
  <1>2. PICK got \in SUBSET new :
           /\ air' = (air \ {copy}) \union got
           /\ harmed' = IF got = new THEN harmed ELSE harmed \union lost
    BY DEF HearData, Emit, AckNumber
  <1>3. /\ copy.frame.kind = "DATA" /\ m \in Msgs /\ status[m] /= "unsent" /\ copy.try \in 1 .. MaxTx
        /\ copy.frame \in About /\ Real(copy.frame)
    BY <1>1, CopyFacts DEF AirCopies, FrameOk
  <1>4. setup \in Setups /\ tx_next \in Nat /\ accepted \subseteq Msgs /\ delivered \in [Msgs -> Nat]
        /\ entries \in CacheType /\ now \in Nat
    BY DEF Inv, Shape, CacheType
  <1>5. a \in Frames /\ a.kind = "ACK" /\ a.msg = m /\ a.seq = tx_next /\ Real(a)
    BY <1>3, <1>4 DEF Ack, Frames, Real
  <1>6. new \subseteq AirCopies
    BY <1>3, <1>4, <1>5, CopiesTyped
  <1>7. \A c \in new : c = [frame |-> a, hops |-> 1, try |-> copy.try, to |-> c.to] /\ c.frame = a
    BY <1>4, CopiesAre
  <1>8. [frame |-> a, hops |-> 1, try |-> copy.try, to |-> "R"] \in new
    BY <1>4, CopiesReach
  <1>9. m \in Pending => lost = {<<m, copy.try>>}
    BY <1>3 DEF Lost, Real
  <1> HIDE DEF a, new, lost
  <1>10. Pending' = Pending /\ \A f \in About' : f \in About \/ f = a
    BY <1>1, <1>2, <1>7 DEF Pending, About
  <1>11. \A f \in About : f \in Frames /\ FrameOk(f) /\ (f.kind = "ACK" => f.seq < tx_next)
    BY DEF Inv, Shape, About, AirCopies, Forwards, Traffic, FrameOk
  <1>12. a \notin About
    BY <1>4, <1>5, <1>11
  <1> HIDE DEF m
  <1>13. Shape'
    <2>1. air' \subseteq AirCopies
      BY <1>2, <1>6 DEF Inv, Shape
    <2>2. delivered' \in [Msgs -> Nat]
      BY <1>1, <1>3, <1>4
    <2> QED BY <1>1, <1>3, <1>10, <2>1, <2>2 DEF Inv, Shape
  <1>14. Delivery'
    <2>1. \A n \in Msgs : delivered'[n] = IF n \in accepted' THEN 1 ELSE 0
      BY <1>1, <1>3, <1>4 DEF Inv, Delivery
    <2> QED BY <1>1, <1>3, <1>4, <2>1 DEF Inv, Delivery
  <1>15. Traffic'
    <2>1. ASSUME NEW f \in About' PROVE FrameOk(f)'
      <3>1. CASE f = a
        BY <1>1, <1>4, <1>5, <3>1 DEF FrameOk, Inv, Delivery
      <3>2. CASE f \in About
        <4>1. FrameOk(f) /\ f.seq \in Nat
          BY <1>11, <3>2 DEF Frames
        <4> QED BY <1>1, <1>4, <4>1 DEF FrameOk
      <3> QED BY <1>10, <3>1, <3>2
    <2>2. \A f, g \in About' : f.kind = "ACK" /\ g.kind = "ACK" /\ f.seq = g.seq => f.msg = g.msg
      BY <1>4, <1>5, <1>10, <1>11 DEF Inv, Traffic
    <2> QED BY <2>1, <2>2 DEF Traffic
  <1>16. Cache'
    <2>1. ASSUME NEW i \in Slots PROVE EntryOk(entries[i])' /\ ~(entries[i].occupied /\ entries[i].key = a)
      <3>1. EntryOk(entries[i])
        BY DEF Inv, Cache
      <3>2. entries[i].occupied => entries[i].key.seq \in Nat
        BY <3>1 DEF EntryOk, Frames
      <3> QED BY <1>1, <1>4, <1>5, <3>1, <3>2 DEF EntryOk
    <2>2. ~IsDuplicate(entries, a, now)
      BY <1>4, <2>1, DuplicateMeans
    <2>3. \A c \in air : c.frame \in About
      BY DEF About
    <2>4. \A c \in air' : c.to = "R" => ~IsDuplicate(entries, c.frame, now)
      BY <1>2, <1>7, <2>2 DEF Inv, Cache
    <2>5. \A c, d \in air' : c.to = "R" /\ d.to = "R" /\ c.frame = d.frame => c = d
      BY <1>2, <1>7, <1>12, <2>3 DEF Inv, Cache
    <2> QED BY <1>1, <2>1, <2>4, <2>5 DEF Inv, Cache
  <1>17. Timing'
    BY <1>1, <1>3, <1>10 DEF Inv, Timing
  <1>18. Tokens'
    <2> SUFFICES ASSUME NEW n \in Pending', NEW k \in 1 .. tries'
                 PROVE  <<n, k>> \in harmed' \/ Token(n, k)'
      BY DEF Tokens
    <2>1. n \in Pending /\ (<<n, k>> \in harmed \/ Token(n, k)) /\ harmed \subseteq harmed'
      BY <1>1, <1>2, <1>10 DEF Inv, Tokens
    <2>2. CASE n = m /\ k = copy.try
      <3>1. CASE got = new
        <4> DEFINE c == [frame |-> a, hops |-> 1, try |-> copy.try, to |-> "R"]
        <4>1. c \in air' /\ c.frame = a /\ c.try = copy.try
          BY <1>2, <1>8, <3>1
        <4> HIDE DEF c
        <4> QED BY <1>5, <2>2, <4>1 DEF Token
      <3>2. CASE got /= new
        BY <1>2, <1>9, <2>1, <2>2, <3>2
      <3> QED BY <3>1, <3>2
    <2>3. CASE ~(n = m /\ k = copy.try)
      BY <1>1, <1>2, <2>1, <2>3 DEF Token, m
    <2> QED BY <2>2, <2>3
  <1> QED BY <1>13, <1>14, <1>15, <1>16, <1>17, <1>18 DEF Inv

\* R observes a frame: if it is of the send in flight, its entry expires by the deadline;
\* a forward it replaces is harmed.
LEMMA TransitInv ==
    ASSUME Inv, NEW frame \in Frames, NEW try \in 0 .. MaxTx, NEW hops, Transit(frame, hops, try),
           UNCHANGED <<setup, now, late, sender, receiver>>,
           Real(frame) => frame \in About /\ try >= 1,
           air' \subseteq air, ~suppressed',
           \A c \in air' : c.to = "R" => c.frame /= frame,
           \A c \in air \ air' : /\ c.frame = frame /\ c.try = try
                                 /\ ~IsDuplicate(entries, frame, now) /\ ShouldForward(hops)
    PROVE  Inv'
  <1> USE MeshAssumption, CacheAssumption
  <1> DEFINE taken == ~IsDuplicate(entries, frame, now) /\ ShouldForward(hops)
             fwd == [frame |-> frame, try |-> try]
  <1>1. /\ UNCHANGED <<setup, now, late, status, tries, deadline, acks, accepted, delivered, tx_next>>
        /\ entries' = Observe(entries, frame, now)
        /\ ~taken => UNCHANGED <<forward, harmed>>
        /\ taken => /\ forward' = fwd
                    /\ harmed' = IF forward = NoForward THEN harmed
                                 ELSE harmed \union Lost(forward.frame, forward.try)
    BY DEF Transit, sender, receiver
  <1>2. fwd \in Forwards /\ fwd.frame = frame /\ fwd.try = try /\ fwd /= NoForward
    BY DEF Forwards
  <1> HIDE DEF fwd
  <1>3. entries \in CacheType /\ now \in Nat
    BY DEF Inv, Shape, CacheType
  <1>4. Pending' = Pending /\ harmed \subseteq harmed'
    BY <1>1 DEF Pending
  <1>5. \A f \in About' : f \in About \/ (f = frame /\ ~Real(frame))
    BY <1>1, <1>2 DEF About
  <1>6. FrameOk(frame)
    BY DEF Inv, Traffic, Real, FrameOk
  <1>7. Shape'
    <2>1. entries' \in CacheType
      BY <1>1, <1>3, ObserveEffect
    <2>2. forward' \in {NoForward} \union { f \in Forwards : f.frame.kind /= "FOREIGN" => f.try >= 1 }
      BY <1>1, <1>2 DEF Inv, Shape, Real
    <2> QED BY <1>1, <1>4, <2>1, <2>2 DEF Inv, Shape, CacheType
  <1>8. Delivery'
    BY <1>1 DEF Inv, Delivery
  <1>9. Traffic'
    <2>1. ASSUME NEW f \in About' PROVE FrameOk(f)'
      <3>1. FrameOk(f)
        BY <1>5, <1>6 DEF Inv, Traffic
      <3> QED BY <1>1, <3>1 DEF FrameOk
    <2>2. \A f, g \in About' : f.kind = "ACK" /\ g.kind = "ACK" /\ f.seq = g.seq => f.msg = g.msg
      BY <1>5 DEF Inv, Traffic, Real
    <2> QED BY <2>1, <2>2 DEF Traffic
  <1>10. Cache'
    <2>1. ASSUME NEW i \in Slots PROVE EntryOk(entries[i])'
      <3> DEFINE e == entries'[i]
      <3>1. e.occupied => \/ entries[i].occupied /\ e.key = entries[i].key /\ e.expires = entries[i].expires
                          \/ e.key = frame /\ e.expires = now + TTL
        BY <1>1, <1>3, ObserveEffect
      <3> HIDE DEF e
      <3>2. CASE entries[i].occupied /\ e.key = entries[i].key /\ e.expires = entries[i].expires
        <4>1. EntryOk(entries[i])
          BY DEF Inv, Cache
        <4>2. EntryOk(e)
          BY <3>2, <4>1 DEF EntryOk
        <4> QED BY <1>1, <4>2 DEF EntryOk, e
      <3>3. CASE e.key = frame /\ e.expires = now + TTL
        <4>1. frame.kind = "DATA" /\ status[frame.msg] = "pending" => now + TTL <= deadline
          <5> SUFFICES ASSUME frame.kind = "DATA", status[frame.msg] = "pending" PROVE now + TTL <= deadline
            OBVIOUS
          <5>1. frame.msg \in Pending /\ Real(frame) /\ frame \in About
            BY <1>6 DEF FrameOk, Pending, Real
          <5>2. now + AckWait <= deadline + late
            BY <5>1 DEF Inv, Timing
          <5> QED BY <1>3, <5>2 DEF Inv, Shape
        <4>2. EntryOk(e)
          BY <1>6, <3>3, <4>1 DEF EntryOk, FrameOk
        <4> QED BY <1>1, <4>2 DEF EntryOk, e
      <3>4. CASE ~e.occupied
        BY <3>4 DEF EntryOk, e
      <3> QED BY <3>1, <3>2, <3>3, <3>4
    <2>2. \A c \in air' : c.to = "R" => ~IsDuplicate(entries', c.frame, now)
      BY <1>1, <1>3, ObserveNoNewHits DEF Inv, Cache
    <2> QED BY <1>1, <2>1, <2>2 DEF Inv, Cache
  <1>11. Timing'
    BY <1>1, <1>4, <1>5 DEF Inv, Timing
  <1>12. Tokens'
    <2> SUFFICES ASSUME NEW n \in Pending', NEW k \in 1 .. tries'
                 PROVE  <<n, k>> \in harmed' \/ Token(n, k)'
      BY DEF Tokens
    <2>1. n \in Pending /\ (<<n, k>> \in harmed \/ Token(n, k))
      BY <1>1, <1>4 DEF Inv, Tokens
    <2>2. ASSUME NEW c \in air, c.frame.msg = n, c.try = k PROVE Token(n, k)'
      <3>1. CASE c \in air'
        BY <2>2, <3>1 DEF Token
      <3>2. CASE c \notin air'
        <4>1. forward' = fwd /\ c.frame = frame /\ k = try /\ Real(c.frame)
          BY <1>1, <2>2, <3>2, CopyFacts
        <4> QED BY <1>1, <1>2, <2>2, <4>1 DEF Token, Real
      <3> QED BY <3>1, <3>2
    <2>3. ASSUME forward /= NoForward, Real(forward.frame), forward.frame.msg = n, forward.try = k
          PROVE  <<n, k>> \in harmed' \/ Token(n, k)'
      <3>1. CASE taken
        BY <1>1, <2>1, <2>3, <3>1 DEF Lost, Real
      <3>2. CASE ~taken
        BY <1>1, <2>3, <3>2 DEF Token, Real
      <3> QED BY <3>1, <3>2
    <2> QED BY <1>4, <2>1, <2>2, <2>3 DEF Token
  <1> QED BY <1>7, <1>8, <1>9, <1>10, <1>11, <1>12 DEF Inv

\* R hears a copy of data or an acknowledgement: it is news, with a hop left.
LEMMA HearTransitInv == ASSUME Inv, NEW copy \in air, HearTransit(copy) PROVE Inv'
  <1> DEFINE f == copy.frame
  <1>1. /\ copy.to = "R" /\ air' = air \ {copy} /\ Transit(f, copy.hops, copy.try)
        /\ suppressed' = (suppressed \/ (IsDuplicate(entries, f, now) /\ <<f, copy.try>> \notin heard))
        /\ UNCHANGED <<setup, now, late, sender, receiver>>
    BY DEF HearTransit
  <1>2. f \in Frames /\ copy.try \in 0 .. MaxTx /\ copy.try >= 1 /\ f \in About
    BY CopyFacts, MeshAssumption
  <1>3. copy.hops = 1 /\ ShouldForward(copy.hops)
    BY <1>1, CopyFacts DEF AirCopies, ShouldForward
  <1>4. ~IsDuplicate(entries, f, now) /\ ~suppressed
    BY <1>1 DEF Inv, Cache
  <1>5. \A c \in air' : c.to = "R" => c.frame /= f
    BY <1>1 DEF Inv, Cache
  <1>6. air' \subseteq air /\ ~suppressed' /\ \A c \in air \ air' : c = copy
    BY <1>1, <1>4
  <1> HIDE DEF f
  <1>7. \A c \in air \ air' : c.frame = f /\ c.try = copy.try
    BY <1>6 DEF f
  <1> QED BY <1>1, <1>2, <1>3, <1>4, <1>5, <1>6, <1>7, TransitInv

\* R hears a frame of another network.
LEMMA HearForeignInv ==
    ASSUME Inv, NEW k \in Noise, NEW hops \in {0, 1}, HearForeign(k, hops) PROVE Inv'
  <1>1. /\ Transit(Foreign(k), hops, 0) /\ UNCHANGED <<setup, now, late, sender, receiver, suppressed, air>>
    BY DEF HearForeign
  <1>2. Foreign(k) \in Frames /\ ~Real(Foreign(k)) /\ 0 \in 0 .. MaxTx
    BY MeshAssumption DEF Foreign, Frames, Real
  <1>3. \A c \in air : c.frame /= Foreign(k)
    BY <1>2, CopyFacts
  <1>4. air' \subseteq air /\ ~suppressed' /\ air \ air' = {}
    BY <1>1 DEF Inv, Cache
  <1> QED BY <1>1, <1>2, <1>3, <1>4, TransitInv

\* The forward goes out, with no hop left: R does not hear it again.
LEMMA ForwardOutInv == ASSUME Inv, ForwardOut PROVE Inv'
  <1> USE MeshAssumption
  <1> DEFINE f == forward.frame
             try == forward.try
             new == Copies("R", f, 0, try)
             lost == Lost(f, try)
  <1>1. /\ UNCHANGED <<setup, now, late, status, tries, deadline, acks, accepted, delivered, tx_next,
                      entries, suppressed>>
        /\ forward /= NoForward /\ forward' = NoForward
    BY DEF ForwardOut, sender, receiver
  <1>2. PICK got \in SUBSET new :
           air' = air \union got /\ harmed' = IF got = new THEN harmed ELSE harmed \union lost
    BY DEF ForwardOut, Emit
  <1>3. setup \in Setups /\ f \in Frames /\ f.kind \in {"DATA", "ACK", "FOREIGN"} /\ f \in About
    BY <1>1 DEF Inv, Shape, Forwards, Frames, About
  <1>4. new \subseteq AirCopies
    <2>1. CASE Real(f)
      <3>1. try \in 1 .. MaxTx
        BY <1>1, <2>1 DEF Inv, Shape, Forwards, Real
      <3> QED BY <1>3, <2>1, <3>1, CopiesTyped
    <2>2. CASE ~Real(f)
      BY <1>3, <2>2, ForeignReach
    <2> QED BY <2>1, <2>2
  <1>5. \A c \in new : c.frame = f /\ c.to /= "R"
    BY <1>3, CopiesAre
  <1>6. Real(f) => \E c \in new : c.frame = f /\ c.try = try
    <2>1. CASE f.kind = "DATA"
      <3> DEFINE c == [frame |-> f, hops |-> 0, try |-> try, to |-> "C"]
      <3>1. c \in new /\ c.frame = f /\ c.try = try
        BY <1>3, <2>1, CopiesReach
      <3> QED BY <3>1
    <2>2. CASE f.kind = "ACK"
      <3> DEFINE c == [frame |-> f, hops |-> 0, try |-> try, to |-> "A"]
      <3>1. c \in new /\ c.frame = f /\ c.try = try
        BY <1>3, <2>2, CopiesReach
      <3> QED BY <3>1
    <2> QED BY <1>3, <2>1, <2>2 DEF Real
  <1>7. f.msg \in Pending /\ Real(f) => lost = {<<f.msg, try>>}
    BY DEF Lost, Real
  <1>8. \A c \in air' : c \in air \/ (c \in got /\ c \in new)
    BY <1>2
  <1> HIDE DEF new, lost
  <1>9. Pending' = Pending /\ About' \subseteq About
    BY <1>1, <1>3, <1>5, <1>8 DEF Pending, About
  <1> HIDE DEF f, try
  <1>10. Shape'
    BY <1>1, <1>4, <1>8, <1>9 DEF Inv, Shape
  <1>11. Delivery' /\ Timing'
    BY <1>1, <1>9 DEF Inv, Delivery, Timing
  <1>12. Traffic'
    BY <1>1, <1>9 DEF Inv, Traffic, FrameOk
  <1>13. Cache'
    BY <1>1, <1>5, <1>8 DEF Inv, Cache, EntryOk
  <1>14. Tokens'
    <2> SUFFICES ASSUME NEW n \in Pending', NEW k \in 1 .. tries'
                 PROVE  <<n, k>> \in harmed' \/ Token(n, k)'
      BY DEF Tokens
    <2>1. n \in Pending /\ (<<n, k>> \in harmed \/ Token(n, k)) /\ harmed \subseteq harmed'
      BY <1>1, <1>2, <1>9 DEF Inv, Tokens
    <2>2. ASSUME NEW c \in air, c.frame.msg = n, c.try = k PROVE Token(n, k)'
      BY <1>2, <2>2 DEF Token
    <2>3. ASSUME Real(f), f.msg = n, try = k PROVE <<n, k>> \in harmed' \/ Token(n, k)'
      <3>1. CASE got = new
        BY <1>2, <1>6, <2>3, <3>1 DEF Token
      <3>2. CASE got /= new
        BY <1>2, <1>7, <2>1, <2>3, <3>2
      <3> QED BY <3>1, <3>2
    <2> QED BY <2>1, <2>2, <2>3 DEF Token, f, try
  <1> QED BY <1>10, <1>11, <1>12, <1>13, <1>14 DEF Inv

\* R restarts: it forgets what it heard, and a waiting forward is harmed.
LEMMA RelayRebootInv == ASSUME Inv, RelayReboot PROVE Inv'
  <1>1. /\ UNCHANGED <<setup, now, late, status, tries, deadline, acks, accepted, delivered, tx_next,
                      suppressed, air>>
        /\ entries' = NewCache /\ forward' = NoForward
        /\ harmed' = IF forward = NoForward THEN harmed ELSE harmed \union Lost(forward.frame, forward.try)
    BY DEF RelayReboot, sender, receiver
  <1>2. Pending' = Pending /\ About' \subseteq About /\ harmed \subseteq harmed'
    BY <1>1 DEF Pending, About
  <1>3. NewCache \in CacheType /\ \A i \in Slots : ~NewCache[i].occupied
    BY DEF NewCache, CacheType
  <1>4. Shape'
    BY <1>1, <1>2, <1>3 DEF Inv, Shape, CacheType
  <1>5. Delivery' /\ Timing'
    BY <1>1, <1>2 DEF Inv, Delivery, Timing
  <1>6. Traffic'
    BY <1>1, <1>2 DEF Inv, Traffic, FrameOk
  <1>7. Cache'
    <2>1. now \in Nat
      BY DEF Inv, Shape
    <2>2. \A k : ~IsDuplicate(NewCache, k, now)
      BY <1>3, <2>1, DuplicateMeans
    <2> QED BY <1>1, <1>3, <2>2 DEF Inv, Cache, EntryOk
  <1>8. Tokens'
    <2> SUFFICES ASSUME NEW n \in Pending', NEW k \in 1 .. tries'
                 PROVE  <<n, k>> \in harmed' \/ Token(n, k)'
      BY DEF Tokens
    <2>1. n \in Pending /\ (<<n, k>> \in harmed \/ Token(n, k))
      BY <1>1, <1>2 DEF Inv, Tokens
    <2> QED BY <1>1, <1>2, <2>1 DEF Token, Lost, Real
  <1> QED BY <1>4, <1>5, <1>6, <1>7, <1>8 DEF Inv

\* Inv depends on the variables only.
LEMMA StutterInv == ASSUME Inv, UNCHANGED vars PROVE Inv'
  <1>1. UNCHANGED <<setup, now, late, status, tries, deadline, acks, accepted, delivered, tx_next,
                    entries, forward, suppressed, air, harmed>>
    BY DEF vars, sender, receiver, relay
  <1>2. UNCHANGED <<Pending, About>>
    BY <1>1 DEF Pending, About
  <1> QED BY <1>1, <1>2 DEF Inv, Shape, Delivery, Traffic, FrameOk, Cache, EntryOk, Timing, Tokens, Token

\* Every step keeps Inv.
LEMMA StepInv == Inv /\ [Next]_vars => Inv'
  BY StutterInv, SendInv, RetryInv, UnconfirmedInv, HearAckInv, HearDataInv, HearTransitInv,
     HearForeignInv, ForwardOutInv, RelayRebootInv, TickInv DEF Next, PollStep, AirStep

\* Inv holds throughout.
LEMMA InvAlways == Spec => []Inv
  BY InitInv, StepInv, PTL DEF Spec

-----------------------------------------------------------------------------

\* Every state is well typed, and A has at most one send in flight.
THEOREM TypeCorrect == Spec => []TypeOK
  <1>1. Inv => TypeOK
    <2> SUFFICES ASSUME Inv PROVE TypeOK
      OBVIOUS
    <2>1. Cardinality(Pending) <= 1
      <3>1. CASE Pending = {}
        BY <3>1, FS_EmptySet
      <3>2. ASSUME NEW m \in Pending PROVE Cardinality(Pending) <= 1
        <4>1. Pending = {m}
          BY <3>2 DEF Inv, Shape
        <4>2. Cardinality({m}) = 1
          BY FS_Singleton
        <4>3. 1 <= 1
          OBVIOUS
        <4> QED BY <4>1, <4>2, <4>3, Zenon
      <3> QED BY <3>1, <3>2
    <2>2. \A c \in air : c.hops \in {0, 1} /\ c.try \in 1 .. MaxTx
      BY DEF Inv, Shape, AirCopies
    <2>3. forward = NoForward \/ forward.try \in 0 .. MaxTx
      BY DEF Inv, Shape, Forwards
    <2> QED BY <2>1, <2>2, <2>3 DEF Inv, Shape, States, TypeOK
  <1> QED BY InvAlways, <1>1, PTL

\* relay.rs's claim: no attempt that R has not heard is taken for a duplicate, whatever
\* the cache size, the number of attempts and the foreign traffic.
THEOREM RetryTraversesAlways == Spec => []RetryTraverses
  <1>1. Inv => RetryTraverses
    BY DEF Inv, Cache, RetryTraverses
  <1> QED BY InvAlways, <1>1, PTL

\* A send is given up only if each of its attempts lost a copy or a forward.
THEOREM LossesExplain == Spec => UnconfirmedNeedsLosses
  <1> DEFINE A == \A m \in Msgs : status[m] = "pending" /\ status'[m] = "UNCONFIRMED"
                      => \A try \in 1 .. MaxTx : <<m, try>> \in harmed
  <1>1. ASSUME Inv, Next PROVE A
    <2> SUFFICES ASSUME NEW m \in Msgs, status[m] = "pending", status'[m] = "UNCONFIRMED"
                 PROVE  \A try \in 1 .. MaxTx : <<m, try>> \in harmed
      OBVIOUS
    <2>1. status \in [Msgs -> States]
      BY <1>1 DEF Inv, Shape
    <2>2. ASSUME NEW n \in Msgs, NEW try, Transmit(n, try) PROVE FALSE
      <3>1. status' = [status EXCEPT ![n] = "pending"] \/ status' = [status EXCEPT ![n] = "FAILED"]
        BY <2>2 DEF Transmit
      <3> QED BY <2>1, <3>1
    <2>3. ASSUME NEW copy, HearAck(copy) PROVE FALSE
      BY <2>1, <2>3 DEF HearAck, AckMatches
    <2>4. status' /= status
      OBVIOUS
    <2>5. PICK n \in Msgs : Unconfirmed(n)
      BY <1>1, <2>2, <2>3, <2>4 DEF Next, Send, PollStep, Retry, AirStep, HearData, HearTransit, ForwardOut,
         HearForeign, RelayReboot, Tick, sender
    <2>6. n = m
      BY <2>1, <2>5 DEF Unconfirmed
    <2>7. now >= deadline /\ tries >= MaxTx /\ m \in Pending
      BY <2>5, <2>6 DEF Unconfirmed, Pending
    <2>8. air = {} /\ \A f \in About : ~Real(f)
      BY <1>1, <2>7, DeadlineQuiet
    <2>9. \A k : ~Token(m, k)
      BY <2>8 DEF Token, About
    <2>10. tries = MaxTx
      BY <1>1, <2>7, MeshAssumption DEF Inv, Shape
    <2> QED BY <1>1, <2>7, <2>9, <2>10 DEF Inv, Tokens
  <1>2. ASSUME Inv, [Next]_vars PROVE [A]_vars
    BY <1>1, <1>2
  <1> QED BY InvAlways, <1>2, PTL DEF Spec, UnconfirmedNeedsLosses

\* The mesh implements the message service: every step is a step of it or leaves both
\* hosts' views alone.
THEOREM Refinement == Spec => ServiceSpec
  <1>1. Init => Service!Init
    BY DEF Init, Service!Init
  <1>2. ASSUME Inv, [Next]_vars PROVE [Service!Next]_(Service!vars)
    <2>1. status \in [Msgs -> States] /\ delivered \in [Msgs -> Nat]
          /\ \A m \in Msgs : delivered[m] = IF m \in accepted THEN 1 ELSE 0
      BY <1>2 DEF Inv, Shape, Delivery
    <2>2. ASSUME NEW m \in Msgs, Send(m) PROVE Service!Submit(m)
      <3>1. \E s \in {"pending", "FAILED"} : status' = [status EXCEPT ![m] = s]
        BY <2>2 DEF Send, Transmit
      <3> QED BY <2>2, <3>1 DEF Send, Pending, receiver, Service!Submit
    <2>3. ASSUME NEW m \in Msgs, Retry(m) PROVE Service!GiveUp(m) \/ UNCHANGED Service!vars
      <3>1. /\ UNCHANGED delivered /\ status[m] = "pending"
            /\ \/ status' = [status EXCEPT ![m] = "pending"]
               \/ status' = [status EXCEPT ![m] = "FAILED"]
        BY <2>3 DEF Retry, Transmit, receiver
      <3> QED BY <2>1, <3>1 DEF Service!GiveUp, Service!vars
    <2>4. ASSUME NEW m \in Msgs, Unconfirmed(m) PROVE Service!GiveUp(m)
      BY <2>4 DEF Unconfirmed, receiver, Service!GiveUp
    <2>5. ASSUME NEW copy \in air, HearAck(copy)
          PROVE  (\E m \in Msgs : Service!Acknowledge(m)) \/ UNCHANGED Service!vars
      <3> DEFINE m == copy.frame.msg
      <3>1. UNCHANGED delivered /\ copy.to = "A"
        BY <2>5 DEF HearAck, receiver
      <3>2. m \in Msgs /\ m \in accepted
        BY <1>2, <3>1, CopyFacts DEF AirCopies, FrameOk
      <3>3. CASE UNCHANGED status
        BY <3>1, <3>3 DEF Service!vars
      <3>4. CASE status' /= status
        <4>1. \E n \in Msgs : AckMatches(n, copy.frame)
          BY <2>5, <3>4 DEF HearAck
        <4>2. status[m] = "pending" /\
              status' = [n \in Msgs |-> IF AckMatches(n, copy.frame) THEN "ACKNOWLEDGED" ELSE status[n]]
          BY <2>5, <3>4, <4>1 DEF HearAck, AckMatches
        <4>3. status' = [status EXCEPT ![m] = "ACKNOWLEDGED"]
          BY <2>1, <3>2, <4>2 DEF AckMatches
        <4> QED BY <2>1, <3>1, <3>2, <4>2, <4>3 DEF Service!Acknowledge
      <3> QED BY <3>3, <3>4
    <2>6. ASSUME NEW copy \in air, HearData(copy)
          PROVE  (\E m \in Msgs : Service!Deliver(m)) \/ UNCHANGED Service!vars
      <3> DEFINE m == copy.frame.msg
      <3>1. /\ UNCHANGED status /\ copy.to = "C"
            /\ delivered' = IF m \notin accepted THEN [delivered EXCEPT ![m] = @ + 1] ELSE delivered
        BY <2>6 DEF HearData, sender, Fresh
      <3>2. m \in Msgs /\ status[m] /= "unsent"
        BY <1>2, <3>1, CopyFacts DEF AirCopies, FrameOk
      <3>3. CASE m \in accepted
        BY <3>1, <3>3 DEF Service!vars
      <3>4. CASE m \notin accepted
        <4> HIDE DEF m
        <4>1. delivered[m] = 0
          BY <2>1, <3>2, <3>4
        <4>2. delivered' = [delivered EXCEPT ![m] = 1]
          BY <3>1, <3>4, <4>1
        <4> QED BY <3>1, <3>2, <4>1, <4>2 DEF Service!Deliver
      <3> QED BY <3>3, <3>4
    <2>7. ASSUME \/ \E copy \in air : HearTransit(copy)
                 \/ ForwardOut
                 \/ \E k \in Noise, hops \in {0, 1} : HearForeign(k, hops)
                 \/ RelayReboot \/ Tick \/ UNCHANGED vars
          PROVE  UNCHANGED Service!vars
      BY <2>7 DEF HearTransit, ForwardOut, HearForeign, RelayReboot, Tick, vars, sender, receiver, Service!vars
    <2> QED BY <1>2, <2>2, <2>3, <2>4, <2>5, <2>6, <2>7 DEF Next, PollStep, AirStep, Service!Next
  <1> QED BY InvAlways, <1>1, <1>2, PTL DEF Spec, ServiceSpec, Service!Spec
=============================================================================
