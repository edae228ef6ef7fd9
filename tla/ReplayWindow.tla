---------------------------- MODULE ReplayWindow ----------------------------
(***************************************************************************)
(* One replay window in use: authenticated sequence numbers arrive in any  *)
(* order and any number of times, and between two of them the board may    *)
(* restart, writing the (highest, bitmap, empty) triple out and reading it *)
(* back.  The variable seen is history: it is what the window stands for.  *)
(***************************************************************************)
EXTENDS ReplayWindowOps

CONSTANT Seqs         \* the sequence numbers that can arrive

ASSUME SeqsAssumption == Seqs \subseteq Nat

VARIABLES
    win,              \* the window
    seen,             \* history: every sequence number accepted so far
    verdict           \* history: the last <<seq, verdict>> handed to the caller

vars == <<win, seen, verdict>>

NoVerdict == <<0, "none">>

Init ==
    /\ win = NewWindow
    /\ seen = {}
    /\ verdict = NoVerdict

\* on_frame offers an authenticated number to the window.
Offer(seq) ==
    /\ win' = Accept(win, seq)
    /\ verdict' = <<seq, Verdict(win, seq)>>
    /\ seen' = IF Verdict(win, seq) = "Accepted" THEN seen \union {seq} ELSE seen

\* The triple goes to flash and comes back after a restart.
Restart ==
    /\ win' = RestoreWindow(win)
    /\ verdict' = NoVerdict
    /\ UNCHANGED seen

Next == Restart \/ \E seq \in Seqs : Offer(seq)

Spec == Init /\ [][Next]_vars

-----------------------------------------------------------------------------
\* The window is a window triple, and the history is of sequence numbers.
TypeOK ==
    /\ win \in ReplayWindow
    /\ seen \subseteq Seqs
    /\ verdict \in {NoVerdict} \union (Seqs \X {"Accepted", "Duplicate", "Stale"})

\* The triple ReplayWindow keeps says exactly what was accepted: it is empty
\* iff nothing was, highest is the largest accepted number, and bit i is set
\* iff highest - i was accepted, whatever order the numbers came in and
\* whatever restarts lie between them (security.rs, accept and restore).
WindowExact ==
    /\ win.empty <=> seen = {}
    /\ ~win.empty => /\ win.highest \in seen
                     /\ \A s \in seen : s <= win.highest
                     /\ \A b \in 0 .. WinBits - 1 :
                           b \in win.bitmap <=> b <= win.highest /\ win.highest - b \in seen

\* The triple that would be written now is one persist::decode_view accepts:
\* no reachable window makes the stored record unreadable at the next boot.
AlwaysStorable == WellFormed(win)

-----------------------------------------------------------------------------
\* What the window promises: no number is accepted twice, and a number is
\* refused only if it was accepted before or lies WinBits or more below the
\* largest accepted one.
Promise == INSTANCE AtMostOnce WITH accepted <- seen, answer <- verdict
PromiseSpec == Promise!Spec
=============================================================================
