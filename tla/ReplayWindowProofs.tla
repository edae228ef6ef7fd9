------------------------- MODULE ReplayWindowProofs -------------------------
(* The replay window keeps its promise for every width and every set of    *)
(* sequence numbers.                                                       *)
EXTENDS ReplayWindow, WindowLemmas

\* The inductive invariant: the triple is exact, and it can be written out.
Inv == TypeOK /\ WindowExact /\ AlwaysStorable

\* A new window is exact: it stands for nothing.
LEMMA InitInv == Init => Inv
  BY WinBitsAssumption, NewWindowType
     DEF Init, Inv, TypeOK, WindowExact, AlwaysStorable, NewWindow

\* accept on the largest number so far: the bitmap moves up by the distance.
LEMMA OfferHigher ==
    ASSUME Inv, NEW seq \in Seqs, Offer(seq), ~win.empty, seq > win.highest
    PROVE  WindowExact'
  <1> USE WinBitsAssumption, SeqsAssumption
  <1>1. win \in ReplayWindow /\ seen \subseteq Nat /\ seq \in Nat
    BY DEF Inv, TypeOK
  <1>2. /\ win'.highest = seq
        /\ win'.empty = FALSE
        /\ win'.bitmap = IF seq - win.highest >= WinBits THEN {0}
                         ELSE ShiftLeft(win.bitmap, seq - win.highest) \union {0}
    BY <1>1 DEF Offer, Accept, ReplayWindow
  <1>3. seen' = seen \union {seq}
    BY DEF Offer, Verdict
  <1>4. win.highest \in seen /\ \A s \in seen : s <= win.highest
    BY DEF Inv, WindowExact
  <1>5. ASSUME NEW b \in 0 .. WinBits - 1
        PROVE  b \in win'.bitmap <=> b <= win'.highest /\ win'.highest - b \in seen'
    <2>1. CASE b = 0
      BY <1>1, <1>2, <1>3, <2>1
    <2>2. CASE b > 0 /\ b < seq - win.highest
      <3>1. b \notin win'.bitmap
        BY <1>1, <1>2, <2>2 DEF ShiftLeft, ReplayWindow
      <3>2. ~(b <= seq /\ seq - b \in seen \union {seq})
        BY <1>1, <1>4, <2>2 DEF ReplayWindow
      <3> QED BY <1>2, <1>3, <3>1, <3>2
    <2>3. CASE b > 0 /\ b >= seq - win.highest
      <3> DEFINE old == b - (seq - win.highest)
      <3>1. old \in 0 .. WinBits - 1
        BY <1>1, <2>3 DEF ReplayWindow
      <3>2. b \in win'.bitmap <=> old \in win.bitmap
        BY <1>1, <1>2, <2>3 DEF ShiftLeft, ReplayWindow
      <3>3. old \in win.bitmap <=> old <= win.highest /\ win.highest - old \in seen
        BY <3>1 DEF Inv, WindowExact
      <3>4. win.highest - old = seq - b /\ (old <= win.highest <=> b <= seq) /\ seq - b /= seq
        BY <1>1, <2>3 DEF ReplayWindow
      <3> QED BY <1>2, <1>3, <3>2, <3>3, <3>4
    <2> QED BY <1>1, <2>1, <2>2, <2>3 DEF ReplayWindow
  <1> QED BY <1>1, <1>2, <1>3, <1>4, <1>5 DEF WindowExact, ReplayWindow

\* accept on a number at or below the largest one: at most one bit is set.
LEMMA OfferLower ==
    ASSUME Inv, NEW seq \in Seqs, Offer(seq), ~win.empty, ~(seq > win.highest)
    PROVE  WindowExact'
  <1> USE WinBitsAssumption, SeqsAssumption
  <1>1. win \in ReplayWindow /\ seen \subseteq Nat /\ seq \in Nat
    BY DEF Inv, TypeOK
  <1>2. WindowExact
    BY DEF Inv
  <1>3. CASE Verdict(win, seq) = "Accepted"
    <2>1. win.highest - seq \in 0 .. WinBits - 1 /\ win.highest - seq \notin win.bitmap
      BY <1>1, <1>3 DEF Verdict, ReplayWindow
    <2>2. /\ win'.highest = win.highest /\ win'.empty = win.empty
          /\ win'.bitmap = win.bitmap \union {win.highest - seq}
      BY <1>1, <2>1 DEF Offer, Accept, ReplayWindow
    <2>3. seen' = seen \union {seq}
      BY <1>3 DEF Offer
    <2>4. ASSUME NEW b \in 0 .. WinBits - 1
          PROVE  b \in win'.bitmap <=> b <= win'.highest /\ win'.highest - b \in seen'
      <3>1. CASE b = win.highest - seq
        BY <1>1, <2>2, <2>3, <3>1 DEF ReplayWindow
      <3>2. CASE b /= win.highest - seq
        <4>1. b \in win.bitmap <=> b <= win.highest /\ win.highest - b \in seen
          BY <1>2 DEF WindowExact
        <4>2. win.highest - b /= seq
          BY <1>1, <3>2 DEF ReplayWindow
        <4> QED BY <2>2, <2>3, <3>2, <4>1, <4>2
      <3> QED BY <3>1, <3>2
    <2> QED BY <1>1, <1>2, <2>2, <2>3, <2>4 DEF WindowExact, ReplayWindow
  <1>4. CASE Verdict(win, seq) /= "Accepted"
    <2>1. win' = win /\ seen' = seen
      BY <1>1, <1>4 DEF Offer, Accept, Verdict, ReplayWindow
    <2> QED BY <1>2, <2>1 DEF WindowExact
  <1> QED BY <1>3, <1>4

\* Offer and Restart keep the window exact.
LEMMA StepInv == Inv /\ [Next]_vars => Inv'
  <1> SUFFICES ASSUME Inv, [Next]_vars PROVE Inv'
    OBVIOUS
  <1> USE WinBitsAssumption, SeqsAssumption
  <1>1. ASSUME NEW seq \in Seqs, Offer(seq) PROVE Inv'
    <2>1. TypeOK'
      <3>1. win' \in ReplayWindow
        BY <1>1, AcceptType DEF Inv, TypeOK, Offer
      <3>2. Verdict(win, seq) \in {"Accepted", "Duplicate", "Stale"}
        BY DEF Verdict
      <3> QED BY <1>1, <3>1, <3>2 DEF Inv, TypeOK, Offer
    <2>2. AlwaysStorable'
      BY <1>1, AcceptWellFormed DEF Inv, TypeOK, Offer, AlwaysStorable
    <2>3. WindowExact'
      <3>1. CASE win.empty
        <4>1. seen' = {seq} /\ win' = [highest |-> seq, bitmap |-> {0}, empty |-> FALSE]
          BY <1>1, <3>1 DEF Inv, WindowExact, Offer, Verdict, Accept
        <4> QED BY <4>1 DEF WindowExact
      <3>2. CASE ~win.empty
        BY <1>1, <3>2, OfferHigher, OfferLower
      <3> QED BY <3>1, <3>2
    <2> QED BY <2>1, <2>2, <2>3 DEF Inv
  <1>2. CASE Restart
    <2>1. win' = win /\ seen' = seen
      BY <1>2, RestoreIdentity DEF Inv, TypeOK, AlwaysStorable, Restart
    <2> QED BY <1>2, <2>1 DEF Inv, TypeOK, WindowExact, AlwaysStorable, Restart
  <1>3. CASE UNCHANGED vars
    BY <1>3 DEF vars, Inv, TypeOK, WindowExact, AlwaysStorable
  <1> QED BY <1>1, <1>2, <1>3 DEF Next

\* A window, its history and its answers keep their types, across restarts too
\* (struct ReplayWindow, accept, restore).
THEOREM TypeCorrect == Spec => []TypeOK
  <1>1. Inv => TypeOK
    BY DEF Inv
  <1> QED BY InitInv, StepInv, <1>1, PTL DEF Spec

\* The bitmap is exact in every reachable state, for every width and every set
\* of sequence numbers (ReplayWindow::accept and restore).
THEOREM WindowExactAlways == Spec => []WindowExact
  <1>1. Inv => WindowExact
    BY DEF Inv
  <1> QED BY InitInv, StepInv, <1>1, PTL DEF Spec

\* No reachable window makes the stored record unreadable (decode_view).
THEOREM AlwaysStorableAlways == Spec => []AlwaysStorable
  <1>1. Inv => AlwaysStorable
    BY DEF Inv
  <1> QED BY InitInv, StepInv, <1>1, PTL DEF Spec

\* The window implements at-most-once acceptance: every step it takes is one
\* the abstract filter allows (ReplayWindow::accept against AtMostOnce).
THEOREM Refinement == Spec => PromiseSpec
  <1> USE WinBitsAssumption, SeqsAssumption
  <1>1. Init => Promise!Init
    BY DEF Init, Promise!Init, NoVerdict, Promise!NoAnswer
  <1>2. Inv /\ [Next]_vars => [Promise!Next]_(Promise!vars)
    <2> SUFFICES ASSUME Inv, [Next]_vars PROVE [Promise!Next]_(Promise!vars)
      OBVIOUS
    <2>1. ASSUME NEW seq \in Seqs, Offer(seq) PROVE Promise!Next
      <3>1. win \in ReplayWindow /\ seen \subseteq Nat /\ seq \in Nat
        BY DEF Inv, TypeOK
      <3>2. Promise!TooOld(seq) <=> ~win.empty /\ win.highest >= seq + WinBits
        BY <3>1 DEF Inv, WindowExact, Promise!TooOld, ReplayWindow
      <3>3. CASE Verdict(win, seq) = "Accepted"
        <4>1. seq \notin seen
          <5>1. CASE win.empty
            BY <5>1 DEF Inv, WindowExact
          <5>2. CASE ~win.empty /\ seq > win.highest
            BY <3>1, <5>2 DEF Inv, WindowExact, ReplayWindow
          <5>3. CASE ~win.empty /\ ~(seq > win.highest)
            <6>1. win.highest - seq \in 0 .. WinBits - 1 /\ win.highest - seq \notin win.bitmap
              BY <3>1, <3>3, <5>3 DEF Verdict, ReplayWindow
            <6>2. win.highest - (win.highest - seq) = seq /\ win.highest - seq <= win.highest
              BY <3>1 DEF ReplayWindow
            <6> QED BY <5>3, <6>1, <6>2 DEF Inv, WindowExact
          <5> QED BY <5>1, <5>2, <5>3
        <4>2. ~Promise!TooOld(seq)
          BY <3>1, <3>2, <3>3 DEF Verdict, ReplayWindow
        <4> QED BY <2>1, <3>3, <4>1, <4>2 DEF Offer, Promise!Next, Promise!Take
      <3>4. CASE Verdict(win, seq) = "Duplicate"
        <4>1. ~win.empty /\ win.highest - seq \in 0 .. WinBits - 1 /\ win.highest - seq \in win.bitmap
          BY <3>1, <3>4 DEF Verdict, ReplayWindow
        <4>2. win.highest - (win.highest - seq) = seq
          BY <3>1 DEF ReplayWindow
        <4>3. seq \in seen
          BY <4>1, <4>2 DEF Inv, WindowExact
        <4>4. ~Promise!TooOld(seq)
          BY <3>1, <3>2, <4>1 DEF ReplayWindow
        <4> QED BY <2>1, <3>4, <4>3, <4>4 DEF Offer, Promise!Next, Promise!Repeat
      <3>5. CASE Verdict(win, seq) = "Stale"
        <4>1. Promise!TooOld(seq)
          BY <3>1, <3>2, <3>5 DEF Verdict, ReplayWindow
        <4> QED BY <2>1, <3>5, <4>1 DEF Offer, Promise!Next, Promise!Refuse
      <3> QED BY <3>3, <3>4, <3>5 DEF Verdict
    <2>2. CASE Restart
      BY <2>2 DEF Restart, Promise!Next, Promise!Forget, NoVerdict, Promise!NoAnswer
    <2>3. CASE UNCHANGED vars
      BY <2>3 DEF vars, Promise!vars
    <2> QED BY <2>1, <2>2, <2>3 DEF Next
  <1> QED BY InitInv, StepInv, <1>1, <1>2, PTL DEF Spec, PromiseSpec, Promise!Spec
=============================================================================
