----------------------------- MODULE AtMostOnce -----------------------------
(***************************************************************************)
(* What a replay filter promises, without a bitmap: the set of accepted    *)
(* numbers is all the state there is.  An offered number is accepted when  *)
(* it is new and recent, answered "Duplicate" when it was accepted and is  *)
(* recent, and "Stale" when it is WinBits or more below the largest.       *)
(***************************************************************************)
EXTENDS Naturals

CONSTANTS WinBits, Seqs

VARIABLES accepted, answer

vars == <<accepted, answer>>

NoAnswer == <<0, "none">>

Init == accepted = {} /\ answer = NoAnswer

TooOld(seq) == \E s \in accepted : s >= seq + WinBits

Take(seq) ==
    /\ seq \notin accepted
    /\ ~TooOld(seq)
    /\ accepted' = accepted \union {seq}
    /\ answer' = <<seq, "Accepted">>

Repeat(seq) ==
    /\ seq \in accepted
    /\ ~TooOld(seq)
    /\ answer' = <<seq, "Duplicate">>
    /\ UNCHANGED accepted

Refuse(seq) ==
    /\ TooOld(seq)
    /\ answer' = <<seq, "Stale">>
    /\ UNCHANGED accepted

Forget == answer' = NoAnswer /\ UNCHANGED accepted

Next == Forget \/ \E seq \in Seqs : Take(seq) \/ Repeat(seq) \/ Refuse(seq)

Spec == Init /\ [][Next]_vars
=============================================================================
