---------------------------- MODULE WindowLemmas ----------------------------
(* What ReplayWindow::accept and restore do to a window, for every width.  *)
EXTENDS ReplayWindowOps, TLAPS

\* ReplayWindow::accept always leaves a window.
LEMMA AcceptType ==
    ASSUME NEW w \in ReplayWindow, NEW seq \in Nat
    PROVE  Accept(w, seq) \in ReplayWindow
  <1> USE WinBitsAssumption DEF ReplayWindow
  <1>1. CASE w.empty
    BY <1>1 DEF Accept
  <1>2. CASE ~w.empty /\ seq > w.highest
    BY <1>2 DEF Accept, ShiftLeft
  <1>3. CASE ~w.empty /\ ~(seq > w.highest)
    BY <1>3 DEF Accept
  <1> QED BY <1>1, <1>2, <1>3

\* ReplayWindow::accept never leaves a triple that decode_view would reject.
LEMMA AcceptWellFormed ==
    ASSUME NEW w \in ReplayWindow, WellFormed(w), NEW seq \in Nat
    PROVE  WellFormed(Accept(w, seq))
  BY WinBitsAssumption DEF ReplayWindow, WellFormed, Accept, ShiftLeft

\* A number the window has just taken is not taken again.
LEMMA AcceptRefusesNext ==
    ASSUME NEW w \in ReplayWindow, NEW seq \in Nat
    PROVE  Verdict(Accept(w, seq), seq) /= "Accepted"
  BY WinBitsAssumption DEF ReplayWindow, Verdict, Accept, ShiftLeft

\* A number the window refuses stays refused, whatever it accepts later.
LEMMA AcceptMonotone ==
    ASSUME NEW w \in ReplayWindow, NEW seq \in Nat, NEW old \in Nat,
           Verdict(w, old) /= "Accepted"
    PROVE  Verdict(Accept(w, seq), old) /= "Accepted"
  <1> USE WinBitsAssumption DEF ReplayWindow
  <1>1. ~w.empty /\ ~(old > w.highest)
    BY DEF Verdict
  <1>2. w.highest - old >= WinBits \/ w.highest - old \in w.bitmap
    BY DEF Verdict
  <1>3. CASE seq > w.highest
    <2>1. Accept(w, seq).highest = seq /\ Accept(w, seq).empty = FALSE
      BY <1>1, <1>3 DEF Accept
    <2>2. CASE seq - old >= WinBits
      BY <1>1, <1>3, <2>1, <2>2 DEF Verdict
    <2>3. CASE seq - old < WinBits
      <3> DEFINE shift == seq - w.highest
      <3>1. shift \in Nat /\ shift < WinBits
        BY <1>1, <1>3, <2>3
      <3>2. Accept(w, seq).bitmap = ShiftLeft(w.bitmap, shift) \union {0}
        BY <1>1, <1>3, <3>1 DEF Accept
      <3>3. w.highest - old \in w.bitmap
        BY <1>1, <1>2, <1>3, <2>3
      <3>4. seq - old \in ShiftLeft(w.bitmap, shift)
        BY <1>1, <1>3, <2>3, <3>1, <3>3 DEF ShiftLeft
      <3> QED BY <1>1, <1>3, <2>1, <3>2, <3>4 DEF Verdict
    <2> QED BY <1>1, <1>3, <2>2, <2>3
  <1>4. CASE ~(seq > w.highest)
    BY <1>1, <1>2, <1>4 DEF Verdict, Accept
  <1> QED BY <1>3, <1>4

\* Writing a well-formed window out and restoring it changes nothing.
LEMMA RestoreIdentity ==
    ASSUME NEW w \in ReplayWindow, WellFormed(w)
    PROVE  RestoreWindow(w) = w
  BY DEF ReplayWindow, WellFormed, RestoreWindow, NewWindow

\* A fresh window is a well-formed window.
LEMMA NewWindowType == NewWindow \in ReplayWindow /\ WellFormed(NewWindow)
  BY WinBitsAssumption DEF ReplayWindow, NewWindow, WellFormed
=============================================================================
