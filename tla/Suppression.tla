----------------------------- MODULE Suppression -----------------------------
(***************************************************************************)
(* What the relay cache promises, without slots or expiry stamps.  A frame *)
(* is answered "New" when it was not heard for a lifetime; within the      *)
(* lifetime of its first reception it is a "Duplicate", and a duplicate    *)
(* changes nothing.  Only a crowd may cut a lifetime short: Size other     *)
(* frames first heard no earlier than this one.                            *)
(***************************************************************************)
EXTENDS Naturals, FiniteSets

CONSTANTS Keys, Size, TTL

VARIABLES
    now,        \* milliseconds since boot
    heard,      \* frames heard since boot
    first,      \* when the present lifetime of each frame heard began
    answer      \* the last answer given

vars == <<now, heard, first, answer>>

NoAnswer == <<0, "none">>

Init ==
    /\ now = 0
    /\ heard = {}
    /\ first = [k \in Keys |-> 0]
    /\ answer = NoAnswer

Live(k) == k \in heard /\ now < first[k] + TTL

Crowd(k) == { j \in heard \ {k} : first[j] >= first[k] }

HearNew(k) ==
    /\ Live(k) => Cardinality(Crowd(k)) >= Size
    /\ heard' = heard \union {k}
    /\ first' = [first EXCEPT ![k] = now]
    /\ answer' = <<k, "New">>
    /\ UNCHANGED now

HearDuplicate(k) ==
    /\ Live(k)
    /\ answer' = <<k, "Duplicate">>
    /\ UNCHANGED <<now, heard, first>>

Tick ==
    /\ now' = now + 1
    /\ answer' = NoAnswer
    /\ UNCHANGED <<heard, first>>

Forget ==
    /\ now' = 0
    /\ heard' = {}
    /\ first' = [k \in Keys |-> 0]
    /\ answer' = NoAnswer

Next == Tick \/ Forget \/ \E k \in Keys : HearNew(k) \/ HearDuplicate(k)

Spec == Init /\ [][Next]_vars
=============================================================================
