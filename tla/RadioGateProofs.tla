-------------------------- MODULE RadioGateProofs --------------------------
(***************************************************************************)
(* The policy gate of RadioGate holds for every set of contacts, every     *)
(* queue capacity and every number of CAD attempts, as long as fewer than  *)
(* GenMod policy changes happen.                                           *)
(***************************************************************************)
EXTENDS RadioGate, TLAPS

EventsOK == evts \in Seq(Events) /\ Len(evts) <= QueueCap

TaskOK ==
    /\ rf \in BOOLEAN /\ dio0 \in BOOLEAN
    /\ pc \in {"top", "park", "rx", "cad", "backoff", "prepare", "air", "report"}
    /\ hand \in Commands \union {NoCmd}
    /\ attempt \in Nat
    /\ result \in [outcome : Outcomes, attempted : BOOLEAN]

\* try_send of a lossy event leaves a queue of events within its capacity.
LEMMA TryEvtOK ==
    ASSUME EventsOK, NEW kind \in {"RxFrame", "RxCrcError", "Fault"}, TryEvt(kind)
    PROVE  EventsOK'
  <1> USE RadioAssumption
  <1>1. [kind |-> kind, id |-> 0] \in Events
    BY DEF Events
  <1> QED BY <1>1 DEF EventsOK, TryEvt

\* A command that is over has one of the outcomes, and the task goes to report it.
LEMMA FinishOK ==
    ASSUME NEW outcome \in Outcomes, NEW attempted \in BOOLEAN, Finish(outcome, attempted)
    PROVE  pc' = "report" /\ result' \in [outcome : Outcomes, attempted : BOOLEAN]
  BY DEF Finish

\* The head of the loop only decides where to wait.
LEMMA LoopTopStep == ASSUME IndInv, LoopTop PROVE IndInv'
  <1> USE RadioAssumption DEF policy, outside, history
  <1>1. TypeOK'
    <2>1. EventsOK'
      BY TryEvtOK DEF IndInv, TypeOK, EventsOK, LoopTop, EnterRx
    <2>2. TaskOK'
      BY DEF IndInv, TypeOK, TaskOK, Outcomes, LoopTop, EnterRx
    <2>3. aired' \subseteq Commands /\ done' \subseteq Nat /\ fence' \in Nat
      BY DEF IndInv, TypeOK, LoopTop, EnterRx
    <2> QED BY <2>1, <2>2, <2>3 DEF IndInv, TypeOK, EventsOK, TaskOK, LoopTop, EnterRx
  <1>2. GenInv'
    BY DEF IndInv, LoopTop, EnterRx, TryEvt, GenInv
  <1>3. HandInv'
    BY DEF IndInv, LoopTop, EnterRx, TryEvt, HandInv, Working, TypeOK, Commands
  <1>4. OrderInv'
    BY DEF IndInv, LoopTop, EnterRx, TryEvt, HandInv, OrderInv, Young, Working, TypeOK, Commands
  <1>5. TokenInv'
    BY DEF IndInv, LoopTop, EnterRx, TryEvt, HandInv, Working, TokenInv, Minted, Dead, Permits
  <1>6. PassedInv'
    BY DEF IndInv, LoopTop, EnterRx, TryEvt, HandInv, OrderInv, Working, TokenInv, Minted, Dead, Permits, PassedInv, TypeOK, Commands
  <1>7. AirInv'
    BY DEF IndInv, LoopTop, EnterRx, TryEvt, HandInv, OrderInv, Young, Working, PassedInv, AirInv, AttemptedTruthful, ForbiddenNeverAired, TypeOK, Commands
  <1> QED BY <1>1, <1>2, <1>3, <1>4, <1>5, <1>6, <1>7 DEF IndInv

\* A line that rises changes nothing else.
LEMMA IrqRisesStep == ASSUME IndInv, IrqRises PROVE IndInv'
  <1> USE RadioAssumption DEF policy, outside, history
  <1>1. TypeOK'
    <2>1. EventsOK'
      BY DEF IndInv, TypeOK, EventsOK, IrqRises
    <2>2. TaskOK'
      BY DEF IndInv, TypeOK, TaskOK, Outcomes, IrqRises
    <2>3. aired' \subseteq Commands /\ done' \subseteq Nat /\ fence' \in Nat
      BY DEF IndInv, TypeOK, IrqRises
    <2> QED BY <2>1, <2>2, <2>3 DEF IndInv, TypeOK, EventsOK, TaskOK, IrqRises
  <1>2. GenInv'
    BY DEF IndInv, IrqRises, GenInv
  <1>3. HandInv'
    BY DEF IndInv, IrqRises, HandInv, Working, TypeOK, Commands
  <1>4. OrderInv'
    BY DEF IndInv, IrqRises, HandInv, OrderInv, Young, Working, TypeOK, Commands
  <1>5. TokenInv'
    BY DEF IndInv, IrqRises, HandInv, Working, TokenInv, Minted, Dead, Permits
  <1>6. PassedInv'
    BY DEF IndInv, IrqRises, HandInv, OrderInv, Working, TokenInv, Minted, Dead, Permits, PassedInv, TypeOK, Commands
  <1>7. AirInv'
    BY DEF IndInv, IrqRises, HandInv, OrderInv, Young, Working, PassedInv, AirInv, AttemptedTruthful, ForbiddenNeverAired, TypeOK, Commands
  <1> QED BY <1>1, <1>2, <1>3, <1>4, <1>5, <1>6, <1>7 DEF IndInv

\* A receive interrupt only adds an event.
LEMMA RxIrqStep == ASSUME IndInv, RxIrq PROVE IndInv'
  <1> USE RadioAssumption DEF policy, outside, history
  <1>1. TypeOK'
    <2>1. EventsOK'
      BY TryEvtOK DEF IndInv, TypeOK, EventsOK, RxIrq, FinishRx
    <2>2. TaskOK'
      BY DEF IndInv, TypeOK, TaskOK, Outcomes, RxIrq, FinishRx
    <2>3. aired' \subseteq Commands /\ done' \subseteq Nat /\ fence' \in Nat
      BY DEF IndInv, TypeOK, RxIrq, FinishRx
    <2> QED BY <2>1, <2>2, <2>3 DEF IndInv, TypeOK, EventsOK, TaskOK, RxIrq, FinishRx
  <1>2. GenInv'
    BY DEF IndInv, RxIrq, FinishRx, TryEvt, GenInv
  <1>3. HandInv'
    BY DEF IndInv, RxIrq, FinishRx, TryEvt, HandInv, Working, TypeOK, Commands
  <1>4. OrderInv'
    BY DEF IndInv, RxIrq, FinishRx, TryEvt, HandInv, OrderInv, Young, Working, TypeOK, Commands
  <1>5. TokenInv'
    BY DEF IndInv, RxIrq, FinishRx, TryEvt, HandInv, Working, TokenInv, Minted, Dead, Permits
  <1>6. PassedInv'
    BY DEF IndInv, RxIrq, FinishRx, TryEvt, HandInv, OrderInv, Working, TokenInv, Minted, Dead, Permits, PassedInv, TypeOK, Commands
  <1>7. AirInv'
    BY DEF IndInv, RxIrq, FinishRx, TryEvt, HandInv, OrderInv, Young, Working, PassedInv, AirInv, AttemptedTruthful, ForbiddenNeverAired, TypeOK, Commands
  <1> QED BY <1>1, <1>2, <1>3, <1>4, <1>5, <1>6, <1>7 DEF IndInv

\* A failed CAD ends the command untransmitted.
LEMMA CadFailsStep == ASSUME IndInv, CadFails PROVE IndInv'
  <1> USE RadioAssumption DEF policy, outside, history
  <1>1. TypeOK'
    <2>1. EventsOK'
      BY DEF IndInv, TypeOK, EventsOK, CadFails, Finish
    <2>2. TaskOK'
      BY FinishOK DEF IndInv, TypeOK, TaskOK, Outcomes, CadFails, LineLeft
    <2>3. aired' \subseteq Commands /\ done' \subseteq Nat /\ fence' \in Nat
      BY DEF IndInv, TypeOK, CadFails, Finish
    <2> QED BY <2>1, <2>2, <2>3 DEF IndInv, TypeOK, EventsOK, TaskOK, CadFails, Finish
  <1>2. GenInv'
    BY DEF IndInv, CadFails, Finish, GenInv
  <1>3. HandInv'
    BY DEF IndInv, CadFails, Finish, HandInv, Working, TypeOK, Commands
  <1>4. OrderInv'
    BY DEF IndInv, CadFails, Finish, HandInv, OrderInv, Young, Working, TypeOK, Commands
  <1>5. TokenInv'
    BY DEF IndInv, CadFails, Finish, HandInv, Working, TokenInv, Minted, Dead, Permits
  <1>6. PassedInv'
    BY DEF IndInv, CadFails, Finish, HandInv, OrderInv, Working, TokenInv, Minted, Dead, Permits, PassedInv, TypeOK, Commands
  <1>7. AirInv'
    BY DEF IndInv, CadFails, Finish, HandInv, OrderInv, Young, Working, PassedInv, AirInv, AttemptedTruthful, ForbiddenNeverAired, TypeOK, Commands
  <1> QED BY <1>1, <1>2, <1>3, <1>4, <1>5, <1>6, <1>7 DEF IndInv

\* A busy channel ends the command or backs off.
LEMMA CadBusyStep == ASSUME IndInv, CadBusy PROVE IndInv'
  <1> USE RadioAssumption DEF policy, outside, history
  <1>1. TypeOK'
    <2>1. EventsOK'
      BY DEF IndInv, TypeOK, EventsOK, CadBusy, Finish
    <2>2. TaskOK'
      <3>1. CASE attempt + 1 >= CadMax
        <4>1. /\ Finish(IF hand.kind = "Tx" THEN "ChannelBusy" ELSE "Ok", FALSE)
              /\ UNCHANGED <<rf, hand, attempt>> /\ dio0' = FALSE
          BY <3>1 DEF CadBusy
        <4> QED BY <4>1, FinishOK DEF IndInv, TypeOK, TaskOK, Outcomes
      <3>2. CASE ~(attempt + 1 >= CadMax)
        <4>1. pc' = "backoff" /\ attempt' = attempt + 1 /\ UNCHANGED <<rf, hand, result>>
          BY <3>2 DEF CadBusy
        <4>2. attempt' \in Nat
          BY <4>1 DEF IndInv, TypeOK
        <4>3. dio0' \in BOOLEAN
          BY DEF CadBusy
        <4> QED BY <4>1, <4>2, <4>3 DEF IndInv, TypeOK, TaskOK
      <3> QED BY <3>1, <3>2
    <2>3. aired' \subseteq Commands /\ done' \subseteq Nat /\ fence' \in Nat
      BY DEF IndInv, TypeOK, CadBusy, Finish
    <2> QED BY <2>1, <2>2, <2>3 DEF IndInv, TypeOK, EventsOK, TaskOK, CadBusy, Finish
  <1>2. GenInv'
    BY DEF IndInv, CadBusy, Finish, GenInv
  <1>3. HandInv'
    BY DEF IndInv, CadBusy, Finish, HandInv, Working, TypeOK, Commands
  <1>4. OrderInv'
    BY DEF IndInv, CadBusy, Finish, HandInv, OrderInv, Young, Working, TypeOK, Commands
  <1>5. TokenInv'
    BY DEF IndInv, CadBusy, Finish, HandInv, Working, TokenInv, Minted, Dead, Permits
  <1>6. PassedInv'
    BY DEF IndInv, CadBusy, Finish, HandInv, OrderInv, Working, TokenInv, Minted, Dead, Permits, PassedInv, TypeOK, Commands
  <1>7. AirInv'
    BY DEF IndInv, CadBusy, Finish, HandInv, OrderInv, Young, Working, PassedInv, AirInv, AttemptedTruthful, ForbiddenNeverAired, TypeOK, Commands
  <1> QED BY <1>1, <1>2, <1>3, <1>4, <1>5, <1>6, <1>7 DEF IndInv

\* After the back-off the gate is asked again.
LEMMA BackoffOverStep == ASSUME IndInv, BackoffOver PROVE IndInv'
  <1> USE RadioAssumption DEF policy, outside, history
  <1>1. TypeOK'
    <2>1. EventsOK'
      BY DEF IndInv, TypeOK, EventsOK, BackoffOver, Finish
    <2>2. TaskOK'
      BY FinishOK DEF IndInv, TypeOK, TaskOK, Outcomes, BackoffOver
    <2>3. aired' \subseteq Commands /\ done' \subseteq Nat /\ fence' \in Nat
      BY DEF IndInv, TypeOK, BackoffOver, Finish
    <2> QED BY <2>1, <2>2, <2>3 DEF IndInv, TypeOK, EventsOK, TaskOK, BackoffOver, Finish
  <1>2. GenInv'
    BY DEF IndInv, BackoffOver, Finish, GenInv
  <1>3. HandInv'
    BY DEF IndInv, BackoffOver, Finish, HandInv, Working, TypeOK, Commands
  <1>4. OrderInv'
    BY DEF IndInv, BackoffOver, Finish, HandInv, OrderInv, Young, Working, TypeOK, Commands
  <1>5. TokenInv'
    BY DEF IndInv, BackoffOver, Finish, HandInv, Working, TokenInv, Minted, Dead, Permits
  <1>6. PassedInv'
    BY DEF IndInv, BackoffOver, Finish, HandInv, OrderInv, Working, TokenInv, Minted, Dead, Permits, PassedInv, TypeOK, Commands
  <1>7. AirInv'
    BY DEF IndInv, BackoffOver, Finish, HandInv, OrderInv, Young, Working, PassedInv, AirInv, AttemptedTruthful, ForbiddenNeverAired, TypeOK, Commands
  <1> QED BY <1>1, <1>2, <1>3, <1>4, <1>5, <1>6, <1>7 DEF IndInv

\* A frame passes its final gate only if it was never forbidden.
LEMMA CadClearStep == ASSUME IndInv, CadClear PROVE IndInv'
  <1> USE RadioAssumption DEF policy, outside, history
  <1>1. TypeOK'
    <2>1. EventsOK'
      BY DEF IndInv, TypeOK, EventsOK, CadClear, Finish, FinalGate, GateOpen, TokenValid
    <2>2. TaskOK'
      BY FinishOK DEF IndInv, TypeOK, TaskOK, Outcomes, CadClear, FinalGate, GateOpen, TokenValid
    <2>3. aired' \subseteq Commands /\ done' \subseteq Nat /\ fence' \in Nat
      BY DEF IndInv, TypeOK, CadClear, Finish, FinalGate, GateOpen, TokenValid
    <2> QED BY <2>1, <2>2, <2>3 DEF IndInv, TypeOK, EventsOK, TaskOK, CadClear, Finish, FinalGate, GateOpen, TokenValid
  <1>2. GenInv'
    BY DEF IndInv, CadClear, Finish, FinalGate, GateOpen, TokenValid, GenInv
  <1>3. HandInv'
    BY DEF IndInv, CadClear, Finish, FinalGate, GateOpen, TokenValid, HandInv, Working, TypeOK, Commands
  <1>4. OrderInv'
    BY DEF IndInv, CadClear, Finish, FinalGate, GateOpen, TokenValid, HandInv, OrderInv, Young, Working, TypeOK, Commands
  <1>5. TokenInv'
    BY DEF IndInv, CadClear, Finish, FinalGate, GateOpen, TokenValid, HandInv, Working, TokenInv, Minted, Dead, Permits
  <1>6. PassedInv'
    BY DEF IndInv, CadClear, Finish, FinalGate, GateOpen, TokenValid, HandInv, OrderInv, Working, TokenInv, Minted, Dead, Permits, PassedInv, TypeOK, Commands
  <1>7. AirInv'
    BY DEF IndInv, CadClear, Finish, FinalGate, GateOpen, TokenValid, HandInv, OrderInv, Young, Working, PassedInv, AirInv, AttemptedTruthful, ForbiddenNeverAired, TypeOK, Commands
  <1> QED BY <1>1, <1>2, <1>3, <1>4, <1>5, <1>6, <1>7 DEF IndInv

\* A failed preparation ends the command untransmitted.
LEMMA PrepareFailsStep == ASSUME IndInv, PrepareFails PROVE IndInv'
  <1> USE RadioAssumption DEF policy, outside, history
  <1>1. TypeOK'
    <2>1. EventsOK'
      BY DEF IndInv, TypeOK, EventsOK, PrepareFails, Finish
    <2>2. TaskOK'
      BY FinishOK DEF IndInv, TypeOK, TaskOK, Outcomes, PrepareFails
    <2>3. aired' \subseteq Commands /\ done' \subseteq Nat /\ fence' \in Nat
      BY DEF IndInv, TypeOK, PrepareFails, Finish
    <2> QED BY <2>1, <2>2, <2>3 DEF IndInv, TypeOK, EventsOK, TaskOK, PrepareFails, Finish
  <1>2. GenInv'
    BY DEF IndInv, PrepareFails, Finish, GenInv
  <1>3. HandInv'
    BY DEF IndInv, PrepareFails, Finish, HandInv, Working, TypeOK, Commands
  <1>4. OrderInv'
    BY DEF IndInv, PrepareFails, Finish, HandInv, OrderInv, Young, Working, TypeOK, Commands
  <1>5. TokenInv'
    BY DEF IndInv, PrepareFails, Finish, HandInv, Working, TokenInv, Minted, Dead, Permits
  <1>6. PassedInv'
    BY DEF IndInv, PrepareFails, Finish, HandInv, OrderInv, Working, TokenInv, Minted, Dead, Permits, PassedInv, TypeOK, Commands
  <1>7. AirInv'
    BY DEF IndInv, PrepareFails, Finish, HandInv, OrderInv, Young, Working, PassedInv, AirInv, AttemptedTruthful, ForbiddenNeverAired, TypeOK, Commands
  <1> QED BY <1>1, <1>2, <1>3, <1>4, <1>5, <1>6, <1>7 DEF IndInv

\* The frame that is triggered is younger than every other one aired.
LEMMA TriggerStep == ASSUME IndInv, Trigger PROVE IndInv'
  <1> USE RadioAssumption DEF policy, outside, history
  <1>1. TypeOK'
    <2>1. EventsOK'
      BY DEF IndInv, TypeOK, EventsOK, Trigger
    <2>2. TaskOK'
      BY DEF IndInv, TypeOK, TaskOK, Outcomes, Trigger
    <2>3. aired' \subseteq Commands /\ done' \subseteq Nat /\ fence' \in Nat
      BY DEF IndInv, TypeOK, Trigger, HandInv, Working, Commands
    <2> QED BY <2>1, <2>2, <2>3 DEF IndInv, TypeOK, EventsOK, TaskOK, Trigger
  <1>2. GenInv'
    BY DEF IndInv, Trigger, GenInv
  <1>3. HandInv'
    BY DEF IndInv, Trigger, HandInv, Working, TypeOK, Commands
  <1>4. OrderInv'
    BY DEF IndInv, Trigger, HandInv, OrderInv, Young, Working, TypeOK, Commands
  <1>5. TokenInv'
    BY DEF IndInv, Trigger, HandInv, Working, TokenInv, Minted, Dead, Permits
  <1>6. PassedInv'
    BY DEF IndInv, Trigger, HandInv, OrderInv, Working, TokenInv, Minted, Dead, Permits, PassedInv, TypeOK, Commands
  <1>7. AirInv'
    BY DEF IndInv, Trigger, HandInv, OrderInv, Young, Working, PassedInv, AirInv, AttemptedTruthful, ForbiddenNeverAired, TypeOK, Commands
  <1> QED BY <1>1, <1>2, <1>3, <1>4, <1>5, <1>6, <1>7 DEF IndInv

\* A transmission that ends reports an attempt.
LEMMA AirDoneStep == ASSUME IndInv, AirDone PROVE IndInv'
  <1> USE RadioAssumption DEF policy, outside, history
  <1>1. TypeOK'
    <2>1. EventsOK'
      BY DEF IndInv, TypeOK, EventsOK, AirDone, Finish
    <2>2. TaskOK'
      BY FinishOK DEF IndInv, TypeOK, TaskOK, Outcomes, AirDone, LineLeft
    <2>3. aired' \subseteq Commands /\ done' \subseteq Nat /\ fence' \in Nat
      BY DEF IndInv, TypeOK, AirDone, Finish
    <2> QED BY <2>1, <2>2, <2>3 DEF IndInv, TypeOK, EventsOK, TaskOK, AirDone, Finish
  <1>2. GenInv'
    BY DEF IndInv, AirDone, Finish, GenInv
  <1>3. HandInv'
    BY DEF IndInv, AirDone, Finish, HandInv, Working, TypeOK, Commands
  <1>4. OrderInv'
    BY DEF IndInv, AirDone, Finish, HandInv, OrderInv, Young, Working, TypeOK, Commands
  <1>5. TokenInv'
    BY DEF IndInv, AirDone, Finish, HandInv, Working, TokenInv, Minted, Dead, Permits
  <1>6. PassedInv'
    BY DEF IndInv, AirDone, Finish, HandInv, OrderInv, Working, TokenInv, Minted, Dead, Permits, PassedInv, TypeOK, Commands
  <1>7. AirInv'
    BY DEF IndInv, AirDone, Finish, HandInv, OrderInv, Young, Working, PassedInv, AirInv, AttemptedTruthful, ForbiddenNeverAired, TypeOK, Commands
  <1> QED BY <1>1, <1>2, <1>3, <1>4, <1>5, <1>6, <1>7 DEF IndInv

\* The terminal event of a barrier moves the fence up to it.
LEMMA ReportStep == ASSUME IndInv, Report PROVE IndInv'
  <1> USE RadioAssumption DEF policy, outside, history
  <1>1. TypeOK'
    <2>1. EventsOK'
      BY DEF IndInv, TypeOK, EventsOK, Report, NoResult, HandInv, Working, Commands, Events
    <2>2. TaskOK'
      BY DEF IndInv, TypeOK, TaskOK, Outcomes, Report, NoResult
    <2>3. aired' \subseteq Commands /\ done' \subseteq Nat /\ fence' \in Nat
      BY DEF IndInv, TypeOK, Report, NoResult, HandInv, Working, Commands
    <2> QED BY <2>1, <2>2, <2>3 DEF IndInv, TypeOK, EventsOK, TaskOK, Report, NoResult
  <1>2. GenInv'
    BY DEF IndInv, Report, NoResult, GenInv
  <1>3. HandInv'
    BY DEF IndInv, Report, NoResult, HandInv, Working, TypeOK, Commands
  <1>4. OrderInv'
    BY DEF IndInv, Report, NoResult, HandInv, OrderInv, Young, Working, TypeOK, Commands
  <1>5. TokenInv'
    BY DEF IndInv, Report, NoResult, HandInv, Working, TokenInv, Minted, Dead, Permits
  <1>6. PassedInv'
    BY DEF IndInv, Report, NoResult, HandInv, OrderInv, Working, TokenInv, Minted, Dead, Permits, PassedInv, TypeOK, Commands
  <1>7. AirInv'
    BY DEF IndInv, Report, NoResult, HandInv, OrderInv, Young, Working, PassedInv, AirInv, AttemptedTruthful, ForbiddenNeverAired, TypeOK, Commands
  <1> QED BY <1>1, <1>2, <1>3, <1>4, <1>5, <1>6, <1>7 DEF IndInv

-----------------------------------------------------------------------------
(* Taking a command.                                                       *)

\* The command at the head of the queue is taken as it was queued.
LEMMA TakeOK ==
    ASSUME IndInv, NEW kind, TakeCmd(kind)
    PROVE  /\ hand' \in Commands /\ hand' /= NoCmd /\ hand'.kind = kind
           /\ cmds' \in Seq(Commands) /\ Len(cmds') <= QueueCap
           /\ hand'.id < next_cmd /\ fence < hand'.id /\ \A y \in aired : y.id < hand'.id
           /\ \A i \in 1 .. Len(cmds') : hand'.id < cmds'[i].id
           /\ \A i \in 1 .. Len(cmds') : i + 1 \in 1 .. Len(cmds) /\ cmds'[i] = cmds[i + 1]
           /\ Minted(hand')
  <1> USE RadioAssumption
  <1>1. cmds \in Seq(Commands) /\ Len(cmds) <= QueueCap /\ cmds /= <<>>
    BY DEF IndInv, TypeOK, TakeCmd
  <1>2. 1 \in 1 .. Len(cmds) /\ hand' = cmds[1] /\ hand' \in Commands /\ hand'.kind = kind
    BY <1>1 DEF TakeCmd
  <1>3. cmds' \in Seq(Commands) /\ Len(cmds') = Len(cmds) - 1
    BY <1>1 DEF TakeCmd
  <1>4. \A i \in 1 .. Len(cmds') : i + 1 \in 1 .. Len(cmds) /\ cmds'[i] = cmds[i + 1]
    BY <1>1, <1>3 DEF TakeCmd
  <1>5. hand' /= NoCmd
    BY <1>2 DEF Commands, Kinds, Targets, Tokens
  <1>6. Young(hand') /\ Minted(hand')
    BY <1>2 DEF IndInv, OrderInv, TokenInv
  <1>7. \A i \in 1 .. Len(cmds') : hand'.id < cmds'[i].id
    BY <1>2, <1>3, <1>4 DEF IndInv, OrderInv
  <1>8. Len(cmds') <= QueueCap
    BY <1>1, <1>3
  <1> QED BY <1>2, <1>3, <1>4, <1>5, <1>6, <1>7, <1>8, Zenon DEF Young

\* What the three handlers of a command share: it moves from the queue to the
\* hand, and the task goes on to work on it or to report it.
LEMMA TakenStep ==
    ASSUME IndInv, NEW kind, TakeCmd(kind), EventsOK',
           rf' \in BOOLEAN, dio0' = dio0, attempt' \in Nat, UNCHANGED <<outside, history>>,
           \/ /\ pc' = "report"
              /\ result' \in [outcome : Outcomes, attempted : BOOLEAN]
              /\ ~result'.attempted
           \/ /\ pc' = "cad" /\ result' = result
    PROVE  IndInv'
  <1> USE RadioAssumption DEF policy, outside, history
  <1> DEFINE Next1 == \A i \in 1 .. Len(cmds') : i + 1 \in 1 .. Len(cmds) /\ cmds'[i] = cmds[i + 1]
  <1>1. /\ hand' \in Commands /\ hand' /= NoCmd
        /\ cmds' \in Seq(Commands) /\ Len(cmds') <= QueueCap
        /\ hand'.id < next_cmd /\ fence < hand'.id /\ \A y \in aired : y.id < hand'.id
        /\ \A i \in 1 .. Len(cmds') : hand'.id < cmds'[i].id
        /\ Minted(hand')
    BY TakeOK
  <1>2. Next1
    BY TakeOK
  <1>3. pc' \in {"report", "cad"}
    OBVIOUS
  <1>4. TypeOK'
    BY <1>1, <1>3 DEF IndInv, TypeOK, EventsOK
  <1>5. GenInv' /\ HandInv'
    BY <1>1, <1>3 DEF IndInv, GenInv, HandInv, Working
  <1>6. OrderInv'
    <2>1. \A i \in 1 .. Len(cmds') : Young(cmds[i + 1])
      BY <1>2 DEF IndInv, OrderInv
    <2>2. \A i \in 1 .. Len(cmds') : Young(cmds[i])'
      BY <1>2, <2>1 DEF Young
    <2>3. \A i, j \in 1 .. Len(cmds') : i < j => cmds'[i].id < cmds'[j].id
      <3> SUFFICES ASSUME NEW i \in 1 .. Len(cmds'), NEW j \in 1 .. Len(cmds'), i < j
                   PROVE  cmds'[i].id < cmds'[j].id
        OBVIOUS
      <3>1. i + 1 \in 1 .. Len(cmds) /\ j + 1 \in 1 .. Len(cmds) /\ i + 1 < j + 1
        BY <1>2
      <3> QED BY <1>2, <3>1 DEF IndInv, OrderInv
    <2> QED BY <1>1, <1>3, <2>2, <2>3 DEF IndInv, OrderInv, Young, Working
  <1>7. TokenInv'
    <2>1. \A i \in 1 .. Len(cmds') : Minted(cmds[i + 1])
      BY <1>2 DEF IndInv, TokenInv
    <2>2. \A i \in 1 .. Len(cmds') : Minted(cmds[i])'
      BY <1>2, <2>1 DEF Minted, Dead
    <2> QED BY <1>1, <2>2 DEF TokenInv, Minted, Dead
  <1>8. PassedInv'
    BY <1>3 DEF PassedInv
  <1>9. AirInv'
    <2>1. hand' \notin aired
      BY <1>1 DEF Commands
    <2> QED BY <1>3, <2>1 DEF IndInv, AirInv, AttemptedTruthful, ForbiddenNeverAired
  <1> QED BY <1>4, <1>5, <1>6, <1>7, <1>8, <1>9 DEF IndInv

\* Before a command is taken the event queue is in order.
LEMMA EventsNow == ASSUME IndInv PROVE EventsOK
  BY DEF IndInv, TypeOK, EventsOK

\* SetEnabled changes the task's switch and is then reported.
LEMMA HandleSetEnabledStep == ASSUME IndInv, HandleSetEnabled PROVE IndInv'
  <1>1. TakeCmd("SetEnabled") /\ UNCHANGED <<outside, history, attempt>> /\ dio0' = dio0
    BY DEF HandleSetEnabled
  <1>2. rf' = hand'.on /\ hand' \in Commands
    BY <1>1, TakeOK DEF HandleSetEnabled, TakeCmd
  <1>3. rf' \in BOOLEAN /\ attempt' \in Nat
    BY <1>1, <1>2 DEF Commands, IndInv, TypeOK
  <1>4. CASE Finish("Ok", FALSE) /\ UNCHANGED evts
    <2>1. EventsOK'
      BY <1>4, EventsNow DEF EventsOK
    <2> QED BY <1>1, <1>3, <1>4, <2>1, TakenStep DEF Finish, Outcomes
  <1>5. CASE Finish("Failed", FALSE) /\ TryEvt("Fault")
    <2>1. EventsOK'
      BY <1>5, EventsNow, TryEvtOK
    <2> QED BY <1>1, <1>3, <1>5, <2>1, TakenStep DEF Finish, Outcomes
  <1> QED BY <1>4, <1>5 DEF HandleSetEnabled

\* A barrier is only reported.
LEMMA HandleBarrierStep == ASSUME IndInv, HandleBarrier PROVE IndInv'
  <1>1. /\ TakeCmd("Barrier") /\ UNCHANGED <<outside, history>>
        /\ UNCHANGED <<attempt, rf, evts>> /\ dio0' = dio0 /\ Finish("Ok", FALSE)
    BY DEF HandleBarrier
  <1>2. rf' \in BOOLEAN /\ attempt' \in Nat
    BY <1>1 DEF IndInv, TypeOK
  <1>3. EventsOK'
    BY <1>1, EventsNow DEF EventsOK
  <1> QED BY <1>1, <1>2, <1>3, TakenStep DEF Finish, Outcomes

\* A transmission or a probe is cancelled at once or goes to its first CAD.
LEMMA HandleRadioStep == ASSUME IndInv, NEW kind, HandleRadio(kind) PROVE IndInv'
  <1>1. /\ TakeCmd(kind) /\ UNCHANGED <<outside, history>>
        /\ UNCHANGED <<rf, evts>> /\ dio0' = dio0 /\ attempt' = 0
    BY DEF HandleRadio
  <1>2. rf' \in BOOLEAN /\ attempt' \in Nat
    BY <1>1 DEF IndInv, TypeOK
  <1>3. EventsOK'
    BY <1>1, EventsNow DEF EventsOK
  <1>4. (pc' = "cad" /\ result' = result) \/ Finish("Cancelled", FALSE)
    BY DEF HandleRadio
  <1>5. CASE pc' = "cad" /\ result' = result
    BY <1>1, <1>2, <1>3, <1>5, TakenStep
  <1>6. CASE Finish("Cancelled", FALSE)
    BY <1>1, <1>2, <1>3, <1>6, TakenStep DEF Finish, Outcomes
  <1> QED BY <1>4, <1>5, <1>6

-----------------------------------------------------------------------------
(* The runtime's steps.                                                    *)

\* A command appended to the queue is the youngest.
LEMMA TrySendOK ==
    ASSUME IndInv, CanSend, NEW cmd \in Commands, cmd.id = next_cmd, TrySend(cmd)
    PROVE  /\ cmds' \in Seq(Commands) /\ Len(cmds') <= QueueCap /\ next_cmd' \in Nat \ {0}
           /\ next_cmd' = next_cmd + 1
           /\ Len(cmds') = Len(cmds) + 1 /\ cmds'[Len(cmds) + 1] = cmd
           /\ \A i \in 1 .. Len(cmds) : cmds'[i] = cmds[i]
  BY RadioAssumption DEF IndInv, TypeOK, CanSend, TrySend

\* Queueing a command keeps the order, whatever the policy.
LEMMA QueueOrder ==
    ASSUME IndInv, CanSend, NEW cmd \in Commands, cmd.id = next_cmd, TrySend(cmd),
           \A n \in forbidden' : n \in forbidden \/ n <= next_cmd,
           \A n \in forbidden' : n \in Nat,
           UNCHANGED <<fence, aired, pc, hand>>
    PROVE  OrderInv'
  <1> USE RadioAssumption
  <1>1. /\ next_cmd' = next_cmd + 1 /\ next_cmd \in Nat /\ fence \in Nat
        /\ Len(cmds') = Len(cmds) + 1 /\ cmds'[Len(cmds) + 1] = cmd /\ Len(cmds) \in Nat
        /\ \A i \in 1 .. Len(cmds) : cmds'[i] = cmds[i]
    BY TrySendOK DEF IndInv, TypeOK
  <1>2. /\ \A i \in 1 .. Len(cmds) : cmds[i].id \in Nat /\ Young(cmds[i])
        /\ \A x \in aired : x.id \in Nat /\ x.id < next_cmd
        /\ \A n \in forbidden : n \in Nat /\ n < next_cmd
        /\ fence < next_cmd
    <2>1. cmds \in Seq(Commands) /\ aired \subseteq Commands /\ forbidden \subseteq Nat /\ OrderInv
      BY DEF IndInv, TypeOK
    <2>2. \A i \in 1 .. Len(cmds) : cmds[i] \in Commands
      BY <2>1
    <2> QED BY <2>1, <2>2 DEF OrderInv, Commands
  <1>3. \A i \in 1 .. Len(cmds') : Young(cmds[i])'
    <2> SUFFICES ASSUME NEW i \in 1 .. Len(cmds') PROVE Young(cmds[i])'
      OBVIOUS
    <2>1. CASE i = Len(cmds) + 1
      BY <1>1, <1>2, <2>1 DEF Young
    <2>2. CASE i \in 1 .. Len(cmds)
      BY <1>1, <1>2, <2>2 DEF Young
    <2> QED BY <1>1, <2>1, <2>2
  <1>4. \A i, j \in 1 .. Len(cmds') : i < j => cmds'[i].id < cmds'[j].id
    <2> SUFFICES ASSUME NEW i \in 1 .. Len(cmds'), NEW j \in 1 .. Len(cmds'), i < j
                 PROVE  cmds'[i].id < cmds'[j].id
      OBVIOUS
    <2>1. i \in 1 .. Len(cmds)
      BY <1>1
    <2>2. CASE j = Len(cmds) + 1
      BY <1>1, <1>2, <2>1, <2>2 DEF Young
    <2>3. CASE j \in 1 .. Len(cmds)
      BY <1>1, <2>1, <2>3 DEF IndInv, OrderInv
    <2> QED BY <1>1, <2>2, <2>3
  <1>5. \A n \in forbidden' : n < next_cmd'
    BY <1>1, <1>2
  <1>6. pc \in Working => /\ hand.id \in Nat /\ hand.id < next_cmd /\ fence < hand.id
                          /\ \A i \in 1 .. Len(cmds) : hand.id < cmds[i].id
    BY DEF IndInv, HandInv, OrderInv, TypeOK, Commands
  <1>7. pc \in Working => \A i \in 1 .. Len(cmds') : hand.id < cmds'[i].id
    <2> SUFFICES ASSUME pc \in Working, NEW i \in 1 .. Len(cmds') PROVE hand.id < cmds'[i].id
      OBVIOUS
    <2>1. CASE i = Len(cmds) + 1
      BY <1>1, <1>6, <2>1
    <2>2. CASE i \in 1 .. Len(cmds)
      BY <1>1, <1>6, <2>2
    <2> QED BY <1>1, <2>1, <2>2
  <1>8. pc \in {"cad", "backoff", "prepare"} => Young(hand)'
    BY <1>1, <1>6 DEF IndInv, OrderInv, Young, Working
  <1> QED BY <1>1, <1>2, <1>3, <1>4, <1>5, <1>6, <1>7, <1>8 DEF OrderInv

\* A control command changes nothing but the queue.
LEMMA QueueControlStep ==
    ASSUME IndInv, NEW kind \in Kinds \ {"Tx"}, NEW on \in BOOLEAN, QueueControl(kind, on)
    PROVE  IndInv'
  <1> USE RadioAssumption
  <1> DEFINE cmd == Control(kind, on)
  <1>1. cmd \in Commands /\ cmd.id = next_cmd /\ cmd.kind = kind
    BY DEF Control, Commands, Tokens, Targets, IndInv, TypeOK
  <1>2. /\ CanSend /\ TrySend(cmd)
        /\ UNCHANGED <<policy, evts, task, edges, aired, forbidden, closed_at, fence, done>>
    BY DEF QueueControl
  <1> HIDE DEF cmd
  <1>3. /\ cmds' \in Seq(Commands) /\ Len(cmds') <= QueueCap /\ next_cmd' \in Nat \ {0}
        /\ Len(cmds') = Len(cmds) + 1 /\ cmds'[Len(cmds) + 1] = cmd
        /\ \A i \in 1 .. Len(cmds) : cmds'[i] = cmds[i]
    BY <1>1, <1>2, TrySendOK
  <1>4. OrderInv'
    BY <1>1, <1>2, QueueOrder DEF policy, task, IndInv, TypeOK
  <1>5. TokenInv'
    <2>0. PICK n \in Nat : n = Len(cmds) + 1
      BY DEF IndInv, TypeOK
    <2>1. \A i \in 1 .. Len(cmds') : i \in 1 .. Len(cmds) \/ i = n
      BY <1>3, <2>0 DEF IndInv, TypeOK
    <2>2. \A i \in 1 .. Len(cmds) : Minted(cmds[i])'
      BY <1>2, <1>3 DEF IndInv, TokenInv, Minted, Dead, policy
    <2>3. Minted(cmds[n])'
      BY <1>1, <1>2, <1>3, <2>0 DEF Minted
    <2> QED BY <1>2, <1>3, <2>1, <2>2, <2>3 DEF IndInv, TokenInv, Minted, Dead, policy, task
  <1>6. TypeOK' /\ GenInv' /\ HandInv'
    BY <1>2, <1>3 DEF IndInv, TypeOK, GenInv, HandInv, policy, task
  <1>7. PassedInv' /\ AirInv'
    BY <1>2 DEF IndInv, PassedInv, AirInv, AttemptedTruthful, ForbiddenNeverAired, policy, task
  <1> QED BY <1>4, <1>5, <1>6, <1>7 DEF IndInv

\* A transmission is queued with a token of the present generations, and one the
\* policy forbids now is dead from the start.
LEMMA QueueTxStep == ASSUME IndInv, NEW c \in Targets, QueueTx(c) PROVE IndInv'
  <1> USE RadioAssumption
  <1> DEFINE cmd == TxCmd(c)
  <1>1. /\ cmd \in Commands /\ cmd.id = next_cmd /\ cmd.contact = c
        /\ cmd.token = TxToken(c) /\ cmd.kind = "Tx"
    <2>1. TxToken(c) \in Tokens
      BY DEF TxToken, Tokens, IndInv, TypeOK
    <2> QED BY <2>1 DEF TxCmd, Commands, Kinds, IndInv, TypeOK
  <1>2. /\ CanSend /\ TrySend(cmd)
        /\ UNCHANGED <<policy, evts, task, edges, aired, closed_at, fence, done>>
        /\ forbidden' = IF Permits(enabled, blocked_mask, c) THEN forbidden
                        ELSE forbidden \union {next_cmd}
    BY DEF QueueTx
  <1> HIDE DEF cmd
  <1>3. /\ cmds' \in Seq(Commands) /\ Len(cmds') <= QueueCap /\ next_cmd' \in Nat \ {0}
        /\ Len(cmds') = Len(cmds) + 1 /\ cmds'[Len(cmds) + 1] = cmd
        /\ \A i \in 1 .. Len(cmds) : cmds'[i] = cmds[i]
    BY <1>1, <1>2, TrySendOK
  <1>4. /\ next_cmd \in Nat
        /\ \A n \in forbidden' : n \in Nat /\ (n \in forbidden \/ n = next_cmd)
    BY <1>2 DEF IndInv, TypeOK
  <1>5. OrderInv'
    BY <1>1, <1>2, <1>4, QueueOrder DEF task
  <1>6. \A x \in Commands : x.id < next_cmd => (x.id \in forbidden' <=> x.id \in forbidden)
    BY <1>2, <1>4 DEF Commands
  <1>7. TokenInv'
    <2>0. PICK n \in Nat : n = Len(cmds) + 1
      BY DEF IndInv, TypeOK
    <2>1. \A i \in 1 .. Len(cmds') : i \in 1 .. Len(cmds) \/ i = n
      BY <1>3, <2>0 DEF IndInv, TypeOK
    <2>2. ASSUME NEW x \in Commands, x.id < next_cmd, Minted(x)
          PROVE  /\ x.kind = "Tx" =>
                      /\ x.token.all <= all_gen'
                      /\ x.contact \in Contacts => x.token.contact_gen <= contact_gen'[x.contact]
                      /\ x.id \in forbidden' =>
                           \/ x.token.all < all_gen'
                           \/ x.contact \in Contacts /\ x.token.contact_gen < contact_gen'[x.contact]
                           \/ ~Permits(enabled', blocked_mask', x.contact)
      BY <1>2, <1>6, <2>2 DEF Minted, Dead, policy
    <2>3. \A i \in 1 .. Len(cmds) : cmds[i] \in Commands /\ cmds[i].id < next_cmd /\ Minted(cmds[i])
      BY DEF IndInv, TypeOK, OrderInv, Young, TokenInv
    <2>4. \A i \in 1 .. Len(cmds) : Minted(cmds[i])'
      BY <1>3, <2>2, <2>3 DEF Minted, Dead
    <2>5. Minted(cmds[n])'
      <3>1. /\ TxToken(c).all <= all_gen
            /\ c \in Contacts => TxToken(c).contact_gen <= contact_gen[c]
        BY DEF TxToken, IndInv, TypeOK
      <3>2. next_cmd \in forbidden' => ~Permits(enabled, blocked_mask, c)
        BY <1>2 DEF IndInv, OrderInv, TypeOK
      <3> QED BY <1>1, <1>2, <1>3, <2>0, <3>1, <3>2 DEF Minted, Dead, policy
    <2>6. pc \in {"cad", "backoff"} => hand \in Commands /\ hand.id < next_cmd /\ Minted(hand)
      BY DEF IndInv, TypeOK, HandInv, OrderInv, Young, TokenInv, Working
    <2>7. pc' \in {"cad", "backoff"} => Minted(hand)'
      BY <1>2, <2>2, <2>6 DEF Minted, Dead, task
    <2> QED BY <2>1, <2>4, <2>5, <2>7 DEF TokenInv
  <1>8. TypeOK' /\ GenInv' /\ HandInv'
    BY <1>2, <1>3, <1>4 DEF IndInv, TypeOK, GenInv, HandInv, policy, task
  <1>9. PassedInv'
    <2>1. pc = "prepare" => hand \in Commands /\ hand.id < next_cmd
      BY DEF IndInv, TypeOK, HandInv, OrderInv, Working
    <2> QED BY <1>2, <1>6, <2>1 DEF IndInv, PassedInv, policy, task
  <1>10. AirInv'
    <2>1. \A x \in aired : x \in Commands /\ x.id < next_cmd
      BY DEF IndInv, TypeOK, OrderInv
    <2> QED BY <1>2, <1>6, <2>1 DEF IndInv, AirInv, AttemptedTruthful, ForbiddenNeverAired, task
  <1> QED BY <1>5, <1>7, <1>8, <1>9, <1>10 DEF IndInv

\* Draining an event touches nothing else.
LEMMA DrainEvtStep == ASSUME IndInv, DrainEvt PROVE IndInv'
  <1>1. evts' \in Seq(Events) /\ Len(evts') <= QueueCap
    BY RadioAssumption DEF IndInv, TypeOK, DrainEvt
  <1> QED BY <1>1 DEF IndInv, TypeOK, GenInv, HandInv, OrderInv, Young, TokenInv, Minted, Dead,
                     PassedInv, AirInv, AttemptedTruthful, ForbiddenNeverAired, DrainEvt, policy, task

-----------------------------------------------------------------------------
(* A change of policy.                                                     *)

\* Below the modulus a generation just counts.
LEMMA NoWrap == ASSUME NEW n \in Nat, n < GenMod PROVE n % GenMod = n
  BY RadioAssumption

\* Generations only advance, by as many steps as there were edges.
LEMMA PolicyGens ==
    ASSUME IndInv, NEW on \in BOOLEAN, NEW mask \in SUBSET Contacts, SetPolicyTo(on, mask),
           edges + 1 < MaxEdges \/ (on = FALSE /\ mask = blocked_mask)
    PROVE  /\ GenInv'
           /\ all_gen' \in 0 .. GenMod - 1 /\ contact_gen' \in [Contacts -> 0 .. GenMod - 1]
           /\ edges' \in 0 .. MaxEdges
           /\ all_gen' = IF on /= enabled THEN all_gen + 1 ELSE all_gen
           /\ \A c \in Contacts : contact_gen'[c] = IF (c \in mask) /= (c \in blocked_mask)
                                                    THEN contact_gen[c] + 1 ELSE contact_gen[c]
  <1> USE RadioAssumption
  <1>1. /\ all_gen \in Nat /\ edges \in Nat /\ edges <= MaxEdges /\ enabled \in BOOLEAN
        /\ \A c \in Contacts : contact_gen[c] \in Nat
        /\ all_gen <= edges /\ \A c \in Contacts : contact_gen[c] <= edges
        /\ enabled => edges < MaxEdges
    BY DEF IndInv, TypeOK, GenInv
  <1>2. on /= enabled \/ mask /= blocked_mask => edges < MaxEdges
    BY <1>1
  <1>3. /\ edges' = IF on /= enabled \/ mask /= blocked_mask THEN edges + 1 ELSE edges
        /\ enabled' = on
    BY DEF SetPolicyTo
  <1>4. all_gen' = IF on /= enabled THEN all_gen + 1 ELSE all_gen
    <2>1. CASE on /= enabled
      <3>1. all_gen + 1 \in Nat /\ all_gen + 1 < GenMod
        BY <1>1, <1>2, <2>1
      <3>2. (all_gen + 1) % GenMod = all_gen + 1
        BY <3>1, NoWrap
      <3> QED BY <2>1, <3>2 DEF SetPolicyTo
    <2>2. CASE on = enabled
      BY <2>2 DEF SetPolicyTo
    <2> QED BY <2>1, <2>2
  <1>5. ASSUME NEW c \in Contacts
        PROVE  contact_gen'[c] = IF (c \in mask) /= (c \in blocked_mask)
                                 THEN contact_gen[c] + 1 ELSE contact_gen[c]
    <2>1. CASE (c \in mask) /= (c \in blocked_mask)
      <3>1. contact_gen[c] + 1 \in Nat /\ contact_gen[c] + 1 < GenMod
        BY <1>1, <1>2, <2>1
      <3>2. (contact_gen[c] + 1) % GenMod = contact_gen[c] + 1
        BY <3>1, NoWrap
      <3> QED BY <2>1, <3>2 DEF SetPolicyTo
    <2>2. CASE ~((c \in mask) /= (c \in blocked_mask))
      BY <2>2 DEF SetPolicyTo
    <2> QED BY <2>1, <2>2
  <1>6. edges' \in 0 .. MaxEdges /\ all_gen' <= edges' /\ (enabled' => edges' < MaxEdges)
    BY <1>1, <1>2, <1>3, <1>4
  <1>7. \A c \in Contacts : contact_gen'[c] \in 0 .. GenMod - 1 /\ contact_gen'[c] <= edges'
    <2> SUFFICES ASSUME NEW c \in Contacts
                 PROVE  contact_gen'[c] \in 0 .. GenMod - 1 /\ contact_gen'[c] <= edges'
      OBVIOUS
    <2>1. CASE (c \in mask) /= (c \in blocked_mask)
      <3>1. edges' = edges + 1
        BY <1>3, <2>1
      <3> QED BY <1>1, <1>2, <1>5, <1>6, <2>1, <3>1
    <2>2. CASE ~((c \in mask) /= (c \in blocked_mask))
      BY <1>1, <1>3, <1>5, <1>6, <2>2
    <2> QED BY <2>1, <2>2
  <1>8. contact_gen' \in [Contacts -> 0 .. GenMod - 1]
    BY <1>7 DEF SetPolicyTo
  <1> QED BY <1>1, <1>4, <1>5, <1>6, <1>7, <1>8 DEF GenInv

\* No two commands that wait have the same id, and all are younger than what is aired.
LEMMA WaitingIds ==
    ASSUME IndInv
    PROVE  /\ Waiting \subseteq Commands
           /\ \A x, y \in Waiting : x.id = y.id => x = y
           /\ \A x \in Waiting : x.id < next_cmd /\ \A y \in aired : y.id < x.id
           /\ pc = "prepare" => \A x \in Waiting : hand.id < x.id
           /\ \A x \in Waiting : Minted(x)
  <1>1. cmds \in Seq(Commands) /\ Len(cmds) \in Nat /\ OrderInv /\ TokenInv
    BY DEF IndInv, TypeOK
  <1>2. \A i \in 1 .. Len(cmds) : cmds[i] \in Commands /\ cmds[i].id \in Nat
    <2>1. \A i \in 1 .. Len(cmds) : cmds[i] \in Commands
      BY <1>1
    <2> QED BY <2>1 DEF Commands
  <1>3. pc \in Working => hand \in Commands /\ hand.id \in Nat
    BY DEF IndInv, TypeOK, HandInv, Commands
  <1>4. Waiting \subseteq Commands
    BY <1>2, <1>3 DEF Waiting, Working
  <1>5. ASSUME NEW x \in Waiting, NEW y \in Waiting, x.id = y.id PROVE x = y
    <2>1. CASE \E i, j \in 1 .. Len(cmds) : x = cmds[i] /\ y = cmds[j]
      <3>1. PICK i \in 1 .. Len(cmds), j \in 1 .. Len(cmds) : x = cmds[i] /\ y = cmds[j]
        BY <2>1
      <3>2. ~(i < j) /\ ~(j < i)
        BY <1>1, <1>2, <1>5, <3>1 DEF OrderInv
      <3> QED BY <1>1, <3>1, <3>2
    <2>2. CASE pc \in {"cad", "backoff"} /\ (x = hand \/ y = hand)
      BY <1>1, <1>2, <1>3, <1>5, <2>2 DEF OrderInv, Waiting, Working
    <2> QED BY <1>5, <2>1, <2>2 DEF Waiting
  <1>6. \A x \in Waiting : Young(x) /\ Minted(x)
    BY <1>1 DEF OrderInv, TokenInv, Waiting
  <1>7. pc = "prepare" => \A x \in Waiting : hand.id < x.id
    BY <1>1 DEF OrderInv, Waiting, Working
  <1> QED BY <1>4, <1>5, <1>6, <1>7 DEF Young

\* Whatever the policy becomes, what was forbidden before its final gate stays
\* dead, and what is past its gate or on the air is not forbidden after the fact.
LEMMA PolicyHistory ==
    ASSUME IndInv, NEW on \in BOOLEAN, NEW mask \in SUBSET Contacts, SetPolicyTo(on, mask),
           edges + 1 < MaxEdges \/ (on = FALSE /\ mask = blocked_mask)
    PROVE  /\ forbidden' \subseteq Nat /\ \A n \in forbidden' : n < next_cmd
           /\ closed_at' \in [Targets -> Nat]
           /\ \A x \in Waiting : x.kind = "Tx" =>
                 /\ x.token.all <= all_gen'
                 /\ x.contact \in Contacts => x.token.contact_gen <= contact_gen'[x.contact]
                 /\ x.id \in forbidden' =>
                      \/ x.token.all < all_gen'
                      \/ x.contact \in Contacts /\ x.token.contact_gen < contact_gen'[x.contact]
                      \/ ~Permits(on, mask, x.contact)
           /\ \A x \in aired : x.id \notin forbidden'
           /\ pc = "prepare" =>
                 /\ hand.id \notin forbidden'
                 /\ ~Permits(on, mask, hand.contact) => hand.id < closed_at'[hand.contact]
  <1>0. /\ GenInv'
        /\ all_gen' \in 0 .. GenMod - 1 /\ contact_gen' \in [Contacts -> 0 .. GenMod - 1]
        /\ edges' \in 0 .. MaxEdges
        /\ all_gen' = IF on /= enabled THEN all_gen + 1 ELSE all_gen
        /\ \A c \in Contacts : contact_gen'[c] = IF (c \in mask) /= (c \in blocked_mask)
                                                 THEN contact_gen[c] + 1 ELSE contact_gen[c]
    BY PolicyGens, ZenonT(30)
  <1> USE RadioAssumption
  <1> DEFINE Shut == { y \in Waiting : y.kind = "Tx" /\ ~Permits(on, mask, y.contact) }
  <1>1. forbidden' = forbidden \union { x.id : x \in Shut }
    BY DEF SetPolicyTo
  <1>2. /\ Waiting \subseteq Commands
        /\ \A x, y \in Waiting : x.id = y.id => x = y
        /\ \A x \in Waiting : x.id < next_cmd /\ \A y \in aired : y.id < x.id
        /\ pc = "prepare" => \A x \in Waiting : hand.id < x.id
        /\ \A x \in Waiting : Minted(x)
    BY WaitingIds
  <1>3. next_cmd \in Nat /\ forbidden \subseteq Nat /\ closed_at \in [Targets -> Nat]
        /\ aired \subseteq Commands /\ all_gen \in Nat /\ enabled \in BOOLEAN
        /\ \A c \in Contacts : contact_gen[c] \in Nat
    BY DEF IndInv, TypeOK
  <1>4. forbidden' \subseteq Nat /\ \A n \in forbidden' : n < next_cmd
    <2>1. \A x \in Shut : x.id \in Nat /\ x.id < next_cmd
      BY <1>2 DEF Commands
    <2>2. \A n \in forbidden : n < next_cmd
      BY DEF IndInv, OrderInv
    <2> QED BY <1>1, <1>3, <2>1, <2>2
  <1>5. closed_at' = [c \in Targets |-> IF Permits(enabled, blocked_mask, c) /\ ~Permits(on, mask, c)
                                        THEN next_cmd ELSE closed_at[c]]
    BY DEF SetPolicyTo
  <1>6. closed_at' \in [Targets -> Nat]
    BY <1>3, <1>5
  <1>7. ASSUME NEW x \in Waiting, x.kind = "Tx"
        PROVE  /\ x.token.all <= all_gen'
               /\ x.contact \in Contacts => x.token.contact_gen <= contact_gen'[x.contact]
               /\ x.id \in forbidden' =>
                    \/ x.token.all < all_gen'
                    \/ x.contact \in Contacts /\ x.token.contact_gen < contact_gen'[x.contact]
                    \/ ~Permits(on, mask, x.contact)
    <2>1. /\ x.token.all \in Nat /\ x.token.contact_gen \in Nat /\ x.contact \in Targets
          /\ x.token.all <= all_gen
          /\ x.contact \in Contacts => x.token.contact_gen <= contact_gen[x.contact]
          /\ x.id \in forbidden => Dead(x)
      BY <1>2, <1>7 DEF Minted, Commands, Tokens
    <2>2. /\ all_gen' = IF on /= enabled THEN all_gen + 1 ELSE all_gen
          /\ \A c \in Contacts : contact_gen'[c] = IF (c \in mask) /= (c \in blocked_mask)
                                                   THEN contact_gen[c] + 1 ELSE contact_gen[c]
      BY <1>0
    <2>3. x.token.all <= all_gen' /\ (on /= enabled => x.token.all < all_gen')
      BY <1>3, <2>1, <2>2
    <2>4. x.contact \in Contacts =>
             /\ x.token.contact_gen <= contact_gen'[x.contact]
             /\ (x.contact \in mask) /= (x.contact \in blocked_mask)
                    => x.token.contact_gen < contact_gen'[x.contact]
             /\ x.token.contact_gen < contact_gen[x.contact]
                    => x.token.contact_gen < contact_gen'[x.contact]
      BY <1>3, <2>1, <2>2
    <2>5. x.token.all < all_gen => x.token.all < all_gen'
      BY <1>3, <2>1, <2>2
    <2>6. CASE x.id \in forbidden
      <3>1. ~Permits(enabled, blocked_mask, x.contact) =>
               \/ on /= enabled
               \/ x.contact \in Contacts /\ (x.contact \in mask) /= (x.contact \in blocked_mask)
               \/ ~Permits(on, mask, x.contact)
        BY <2>1 DEF Permits, Targets, IndInv, TypeOK
      <3> QED BY <2>1, <2>3, <2>4, <2>5, <2>6, <3>1 DEF Dead
    <2>7. CASE x.id \in { y.id : y \in Shut }
      <3>1. PICK y \in Shut : y.id = x.id
        BY <2>7
      <3>2. y = x
        BY <1>2, <3>1
      <3> QED BY <2>3, <2>4, <3>1, <3>2
    <2> QED BY <1>1, <2>3, <2>4, <2>6, <2>7
  <1>8. \A x \in aired : x.id \notin forbidden'
    BY <1>1, <1>2, <1>3 DEF IndInv, AirInv, ForbiddenNeverAired, Commands
  <1>9. ASSUME pc = "prepare"
        PROVE  /\ hand.id \notin forbidden'
               /\ ~Permits(on, mask, hand.contact) => hand.id < closed_at'[hand.contact]
    <2>1. /\ hand \in Commands /\ hand.id \in Nat /\ hand.contact \in Targets
          /\ hand.id < next_cmd /\ hand.id \notin forbidden
          /\ ~Permits(enabled, blocked_mask, hand.contact) => hand.id < closed_at[hand.contact]
      BY <1>9 DEF IndInv, TypeOK, HandInv, OrderInv, PassedInv, Working, Commands
    <2>2. hand.id \notin { x.id : x \in Shut }
      BY <1>2, <1>9, <2>1 DEF Commands
    <2> QED BY <1>1, <1>5, <2>1, <2>2
  <1> QED BY <1>4, <1>6, <1>7, <1>8, <1>9

\* A change of policy by the runtime.
LEMMA SetPolicyStep ==
    ASSUME IndInv, NEW on \in BOOLEAN, NEW mask \in SUBSET Contacts, SetPolicy(on, mask)
    PROVE  IndInv'
  <1> USE RadioAssumption
  <1>1. /\ SetPolicyTo(on, mask) /\ edges + 1 < MaxEdges
        /\ UNCHANGED <<cmds, evts, next_cmd, task, aired, fence, done>>
        /\ enabled' = on /\ blocked_mask' = mask
    BY DEF SetPolicy, SetPolicyTo
  <1>2. /\ GenInv'
        /\ all_gen' \in 0 .. GenMod - 1 /\ contact_gen' \in [Contacts -> 0 .. GenMod - 1]
        /\ edges' \in 0 .. MaxEdges
    BY <1>1, PolicyGens
  <1>3. /\ forbidden' \subseteq Nat /\ \A n \in forbidden' : n < next_cmd
        /\ closed_at' \in [Targets -> Nat]
        /\ \A x \in Waiting : x.kind = "Tx" =>
              /\ x.token.all <= all_gen'
              /\ x.contact \in Contacts => x.token.contact_gen <= contact_gen'[x.contact]
              /\ x.id \in forbidden' =>
                   \/ x.token.all < all_gen'
                   \/ x.contact \in Contacts /\ x.token.contact_gen < contact_gen'[x.contact]
                   \/ ~Permits(on, mask, x.contact)
        /\ \A x \in aired : x.id \notin forbidden'
        /\ pc = "prepare" =>
              /\ hand.id \notin forbidden'
              /\ ~Permits(on, mask, hand.contact) => hand.id < closed_at'[hand.contact]
    BY <1>1, PolicyHistory
  <1>4. TypeOK'
    BY <1>1, <1>2, <1>3 DEF IndInv, TypeOK, task
  <1>5. HandInv' /\ OrderInv'
    BY <1>1, <1>3 DEF IndInv, HandInv, OrderInv, Young, task
  <1>6. TokenInv'
    <2>1. \A i \in 1 .. Len(cmds) : cmds[i] \in Waiting
      BY DEF Waiting
    <2>2. pc \in {"cad", "backoff"} => hand \in Waiting
      BY DEF Waiting
    <2>3. \A i \in 1 .. Len(cmds) : Minted(cmds[i])'
      BY <1>1, <1>3, <2>1 DEF Minted, Dead
    <2>4. pc \in {"cad", "backoff"} => Minted(hand)'
      BY <1>1, <1>3, <2>2 DEF Minted, Dead, task
    <2> QED BY <1>1, <2>3, <2>4 DEF TokenInv, task
  <1>7. PassedInv'
    BY <1>1, <1>3 DEF PassedInv, task
  <1>8. AirInv'
    BY <1>1, <1>3 DEF IndInv, AirInv, AttemptedTruthful, ForbiddenNeverAired, task
  <1> QED BY <1>2, <1>4, <1>5, <1>6, <1>7, <1>8 DEF IndInv

\* fail_radio_closed: the gate is shut and SetEnabled(false) queued if there is room.
LEMMA FaultSeenStep == ASSUME IndInv, FaultSeen PROVE IndInv'
  <1> USE RadioAssumption
  <1> DEFINE cmd == Control("SetEnabled", FALSE)
  <1>1. /\ SetPolicyTo(FALSE, blocked_mask) /\ evts /= <<>> /\ evts' = Tail(evts)
        /\ UNCHANGED <<task, aired, fence, done>>
        /\ enabled' = FALSE /\ blocked_mask' = blocked_mask
        /\ \/ CanSend /\ TrySend(cmd)
           \/ UNCHANGED <<cmds, next_cmd>>
    BY DEF FaultSeen, SetPolicyTo
  <1>2. blocked_mask \in SUBSET Contacts /\ evts' \in Seq(Events) /\ Len(evts') <= QueueCap
    BY <1>1 DEF IndInv, TypeOK
  <1>3. /\ GenInv'
        /\ all_gen' \in 0 .. GenMod - 1 /\ contact_gen' \in [Contacts -> 0 .. GenMod - 1]
        /\ edges' \in 0 .. MaxEdges
    BY <1>1, <1>2, PolicyGens
  <1>4. /\ forbidden' \subseteq Nat /\ \A n \in forbidden' : n < next_cmd
        /\ closed_at' \in [Targets -> Nat]
        /\ \A x \in Waiting : x.kind = "Tx" =>
              /\ x.token.all <= all_gen'
              /\ x.contact \in Contacts => x.token.contact_gen <= contact_gen'[x.contact]
              /\ x.id \in forbidden' =>
                   \/ x.token.all < all_gen'
                   \/ x.contact \in Contacts /\ x.token.contact_gen < contact_gen'[x.contact]
                   \/ ~Permits(FALSE, blocked_mask, x.contact)
        /\ \A x \in aired : x.id \notin forbidden'
        /\ pc = "prepare" =>
              /\ hand.id \notin forbidden'
              /\ ~Permits(FALSE, blocked_mask, hand.contact) => hand.id < closed_at'[hand.contact]
    BY <1>1, <1>2, PolicyHistory
  <1>5. cmd \in Commands /\ cmd.id = next_cmd /\ cmd.kind = "SetEnabled"
    BY DEF Control, Commands, Kinds, Tokens, Targets, IndInv, TypeOK
  <1> HIDE DEF cmd
  <1>6. /\ cmds' \in Seq(Commands) /\ Len(cmds') <= QueueCap /\ next_cmd' \in Nat \ {0}
        /\ \A i \in 1 .. Len(cmds') : \/ i \in 1 .. Len(cmds) /\ cmds'[i] = cmds[i]
                                      \/ cmds'[i] = cmd
    <2>1. CASE CanSend /\ TrySend(cmd)
      <3>1. /\ cmds' \in Seq(Commands) /\ Len(cmds') <= QueueCap /\ next_cmd' \in Nat \ {0}
            /\ Len(cmds') = Len(cmds) + 1 /\ cmds'[Len(cmds) + 1] = cmd
            /\ \A i \in 1 .. Len(cmds) : cmds'[i] = cmds[i]
        BY <1>5, <2>1, TrySendOK
      <3>2. \A i \in 1 .. Len(cmds') : i \in 1 .. Len(cmds) \/ i = Len(cmds) + 1
        BY <3>1 DEF IndInv, TypeOK
      <3> QED BY <3>1, <3>2
    <2>2. CASE UNCHANGED <<cmds, next_cmd>>
      BY <2>2 DEF IndInv, TypeOK
    <2> QED BY <1>1, <2>1, <2>2
  <1>7. TypeOK'
    BY <1>1, <1>2, <1>3, <1>4, <1>6 DEF IndInv, TypeOK, task
  <1>8. HandInv'
    BY <1>1 DEF IndInv, HandInv, task
  <1>9. OrderInv'
    <2>1. CASE CanSend /\ TrySend(cmd)
      <3>1. /\ \A n \in forbidden' : n \in Nat /\ (n \in forbidden \/ n <= next_cmd)
            /\ UNCHANGED <<fence, aired, pc, hand>>
        BY <1>1, <1>4 DEF task, IndInv, TypeOK
      <3> QED BY <1>5, <2>1, <3>1, QueueOrder
    <2>2. CASE UNCHANGED <<cmds, next_cmd>>
      BY <1>1, <1>4, <2>2 DEF IndInv, OrderInv, Young, task
    <2> QED BY <1>1, <2>1, <2>2
  <1>10. TokenInv'
    <2>1. \A i \in 1 .. Len(cmds) : cmds[i] \in Waiting
      BY DEF Waiting
    <2>2. pc \in {"cad", "backoff"} => hand \in Waiting
      BY DEF Waiting
    <2>3. \A i \in 1 .. Len(cmds') : Minted(cmds[i])'
      BY <1>1, <1>4, <1>5, <1>6, <2>1 DEF Minted, Dead
    <2>4. pc \in {"cad", "backoff"} => Minted(hand)'
      BY <1>1, <1>4, <2>2 DEF Minted, Dead, task
    <2> QED BY <1>1, <2>3, <2>4 DEF TokenInv, task
  <1>11. PassedInv'
    BY <1>1, <1>4 DEF PassedInv, task
  <1>12. AirInv'
    BY <1>1, <1>4 DEF IndInv, AirInv, AttemptedTruthful, ForbiddenNeverAired, task
  <1> QED BY <1>3, <1>7, <1>8, <1>9, <1>10, <1>11, <1>12 DEF IndInv

-----------------------------------------------------------------------------
(* The theorems.                                                           *)

\* At boot the gate is shut, the queues are empty and nothing was aired.
LEMMA InitHolds == Init => IndInv
  <1> SUFFICES ASSUME Init PROVE IndInv
    OBVIOUS
  <1> USE RadioAssumption DEF Init
  <1>1. TypeOK
    <2>1. all_gen \in 0 .. GenMod - 1 /\ contact_gen \in [Contacts -> 0 .. GenMod - 1]
      OBVIOUS
    <2>2. closed_at \in [Targets -> Nat]
      OBVIOUS
    <2>3. result \in [outcome : Outcomes, attempted : BOOLEAN]
      BY DEF NoResult, Outcomes
    <2>4. cmds \in Seq(Commands) /\ Len(cmds) <= QueueCap /\ evts \in Seq(Events) /\ Len(evts) <= QueueCap
      OBVIOUS
    <2>5. /\ enabled \in BOOLEAN /\ blocked_mask \in SUBSET Contacts /\ rf \in BOOLEAN /\ dio0 \in BOOLEAN
          /\ hand \in Commands \union {NoCmd} /\ aired \subseteq Commands
      OBVIOUS
    <2>6. /\ edges \in 0 .. MaxEdges /\ next_cmd \in Nat \ {0} /\ attempt \in Nat /\ fence \in Nat
          /\ forbidden \subseteq Nat /\ done \subseteq Nat
          /\ pc \in {"top", "park", "rx", "cad", "backoff", "prepare", "air", "report"}
      OBVIOUS
    <2> QED BY <2>1, <2>2, <2>3, <2>4, <2>5, <2>6 DEF TypeOK
  <1>2. GenInv /\ HandInv
    BY DEF GenInv, HandInv, Working
  <1>3. OrderInv /\ TokenInv /\ PassedInv
    BY DEF OrderInv, TokenInv, PassedInv, Working
  <1>4. AirInv
    BY DEF AirInv, AttemptedTruthful, ForbiddenNeverAired
  <1> QED BY <1>1, <1>2, <1>3, <1>4 DEF IndInv

\* Every step of the task and of the runtime preserves the invariant.
LEMMA StepHolds == IndInv /\ [Next]_vars => IndInv'
  <1> SUFFICES ASSUME IndInv, [Next]_vars PROVE IndInv'
    OBVIOUS
  <1>1. CASE RuntimeStep
    <2>1. ASSUME NEW on \in BOOLEAN, NEW mask \in SUBSET Contacts, SetPolicy(on, mask)
          PROVE  IndInv'
      BY <2>1, SetPolicyStep
    <2>2. ASSUME NEW c \in Targets, QueueTx(c) PROVE IndInv'
      BY <2>2, QueueTxStep
    <2>3. ASSUME NEW kind \in {"SetEnabled", "Barrier", "CadProbe"}, NEW on \in BOOLEAN,
                 QueueControl(kind, on)
          PROVE  IndInv'
      BY <2>3, QueueControlStep DEF Kinds
    <2> QED BY <1>1, <2>1, <2>2, <2>3 DEF RuntimeStep
  <1>2. CASE TakeStep
    BY <1>2, HandleSetEnabledStep, HandleBarrierStep, HandleRadioStep DEF TakeStep
  <1>3. CASE WorkStep
    BY <1>3, LoopTopStep, RxIrqStep, CadFailsStep, CadBusyStep, BackoffOverStep, CadClearStep,
       PrepareFailsStep, TriggerStep, AirDoneStep, ReportStep DEF WorkStep
  <1>4. CASE DrainEvt \/ FaultSeen \/ IrqRises
    BY <1>4, DrainEvtStep, FaultSeenStep, IrqRisesStep
  <1>5. CASE UNCHANGED vars
    BY <1>5 DEF vars, policy, task, IndInv, TypeOK, GenInv, HandInv, OrderInv, Young, TokenInv,
                Minted, Dead, PassedInv, AirInv, AttemptedTruthful, ForbiddenNeverAired
  <1> QED BY <1>1, <1>2, <1>3, <1>4, <1>5 DEF Next

\* The inductive invariant of the gate holds throughout.
THEOREM Invariant == Spec => []IndInv
  BY InitHolds, StepHolds, PTL DEF Spec

\* The queues stay within RADIO_QUEUE_CAP and generations within their width.
THEOREM TypeCorrect == Spec => []TypeOK
  <1>1. IndInv => TypeOK
    BY DEF IndInv
  <1> QED BY <1>1, Invariant, PTL

\* A frame forbidden before its final gate never goes on the air (set_policy,
\* tx_token, token_valid, do_tx), for fewer than GenMod policy changes.
THEOREM GateHolds == Spec => []ForbiddenNeverAired
  <1>1. IndInv => ForbiddenNeverAired
    BY DEF IndInv, AirInv
  <1> QED BY <1>1, Invariant, PTL

\* attempted in the terminal event is the truth (do_tx).
THEOREM AttemptsTruthful == Spec => []AttemptedTruthful
  <1>1. IndInv => AttemptedTruthful
    BY DEF IndInv, AirInv
  <1> QED BY <1>1, Invariant, PTL

\* After a barrier queued behind an off or a block has completed, the radio is
\* silent towards what was shut out, until the policy opens again.
THEOREM BarrierSilences == Spec => SilentAfterBarrier
  <1>1. ASSUME IndInv, [Next]_vars
        PROVE  [\A x \in aired' \ aired :
                  ~Permits(enabled, blocked_mask, x.contact) => fence < closed_at[x.contact]]_vars
    <2> SUFFICES ASSUME NEW x \in aired' \ aired, ~Permits(enabled, blocked_mask, x.contact)
                 PROVE  fence < closed_at[x.contact]
      OBVIOUS
    <2>1. Trigger
      BY <1>1 DEF Next, RuntimeStep, TakeStep, WorkStep, vars, history, task, SetPolicy, QueueTx,
                  QueueControl, DrainEvt, FaultSeen, IrqRises, RxIrq, HandleSetEnabled, HandleBarrier,
                  HandleRadio, LoopTop, EnterRx, CadFails, CadBusy, BackoffOver, CadClear, PrepareFails,
                  AirDone, Report
    <2>2. x = hand /\ pc = "prepare"
      BY <2>1 DEF Trigger
    <2>3. /\ hand \in Commands /\ hand.contact \in Targets /\ hand.id \in Nat
          /\ fence < hand.id /\ hand.id < closed_at[hand.contact]
          /\ fence \in Nat /\ closed_at[hand.contact] \in Nat
      BY <1>1, <2>2 DEF IndInv, TypeOK, HandInv, OrderInv, PassedInv, Working, Commands
    <2> QED BY <2>2, <2>3
  <1> QED BY <1>1, Invariant, PTL DEF Spec, SilentAfterBarrier
=============================================================================
