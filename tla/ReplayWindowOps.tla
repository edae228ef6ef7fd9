-------------------------- MODULE ReplayWindowOps --------------------------
(***************************************************************************)
(* The sliding replay window of mesh-core/src/security.rs as operators on  *)
(* a window value.  The code keeps a u64 bitmap whose bit i stands for the *)
(* sequence number highest - i.  Here the bitmap is the set of the         *)
(* positions whose bit is 1, and its width (64 in the code) is WinBits, so *)
(* that TLC can slide a whole window out with a handful of numbers.        *)
(***************************************************************************)
EXTENDS Naturals

CONSTANT WinBits      \* the width of the bitmap, 64 in the code

ASSUME WinBitsAssumption == WinBits \in Nat \ {0}

\* The struct ReplayWindow: (highest, bitmap, empty).
ReplayWindow == [highest : Nat, bitmap : SUBSET (0 .. WinBits - 1), empty : BOOLEAN]

\* ReplayWindow::new
NewWindow == [highest |-> 0, bitmap |-> {}, empty |-> TRUE]

\* Mutant of ShiftLeft: nothing falls off the end.
ShiftLeftWide(bitmap, shift) == { b + shift : b \in bitmap }

\* bitmap << shift: bits pushed past the width are lost.
ShiftLeft(bitmap, shift) ==
    { b \in 0 .. WinBits - 1 : b >= shift /\ b - shift \in bitmap }

\* Mutant of Verdict: the window is one position too wide.
VerdictOffByOne(w, seq) ==
    IF w.empty \/ seq > w.highest THEN "Accepted"
    ELSE IF w.highest - seq > WinBits THEN "Stale"
    ELSE IF w.highest - seq \in w.bitmap THEN "Duplicate"
    ELSE "Accepted"

\* The verdict of ReplayWindow::accept on an authenticated sequence number.
Verdict(w, seq) ==
    IF w.empty \/ seq > w.highest THEN "Accepted"
    ELSE IF w.highest - seq >= WinBits THEN "Stale"
    ELSE IF w.highest - seq \in w.bitmap THEN "Duplicate"
    ELSE "Accepted"

\* Mutant of Accept: the new highest number is not marked.
AcceptUnmarked(w, seq) ==
    IF w.empty \/ seq > w.highest
    THEN [highest |-> seq,
          bitmap  |-> IF w.empty THEN {} ELSE ShiftLeft(w.bitmap, seq - w.highest),
          empty   |-> FALSE]
    ELSE IF w.highest - seq >= WinBits THEN w
    ELSE [w EXCEPT !.bitmap = @ \union {w.highest - seq}]

\* The window that ReplayWindow::accept leaves behind.
Accept(w, seq) ==
    IF w.empty
    THEN [highest |-> seq, bitmap |-> {0}, empty |-> FALSE]
    ELSE IF seq > w.highest
    THEN [highest |-> seq,
          bitmap  |-> IF seq - w.highest >= WinBits THEN {0}
                      ELSE ShiftLeft(w.bitmap, seq - w.highest) \union {0},
          empty   |-> FALSE]
    ELSE IF w.highest - seq >= WinBits \/ w.highest - seq \in w.bitmap
    THEN w
    ELSE [w EXCEPT !.bitmap = @ \union {w.highest - seq}]

\* Mutant of RestoreWindow: every restart begins with an empty window.
RestoreEmpty(w) == NewWindow

\* ReplayWindow::restore of a persisted triple: a window without bits is empty.
RestoreWindow(w) ==
    IF w.empty \/ w.bitmap = {} THEN NewWindow ELSE w

\* What persist::decode_view takes for a well-formed window triple.
WellFormed(w) ==
    IF w.empty THEN w.highest = 0 /\ w.bitmap = {} ELSE w.bitmap /= {}
=============================================================================
