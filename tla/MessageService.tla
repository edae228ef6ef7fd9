--------------------------- MODULE MessageService ---------------------------
(***************************************************************************)
(* What the mesh promises to the two hosts: a message is delivered at most *)
(* once, "ACKNOWLEDGED" is said only of a message that was delivered, and  *)
(* a final word is never taken back.  After "UNCONFIRMED" or an error the  *)
(* message may have arrived, or may still arrive.                          *)
(***************************************************************************)
EXTENDS Naturals

CONSTANT Msgs

VARIABLES
    status,     \* what the sender's host was told of each message
    delivered   \* how often the receiver's host got it

vars == <<status, delivered>>

Init ==
    /\ status = [m \in Msgs |-> "unsent"]
    /\ delivered = [m \in Msgs |-> 0]

Submit(m) ==
    /\ status[m] = "unsent"
    /\ \A o \in Msgs : status[o] /= "pending"
    /\ \E s \in {"pending", "FAILED"} : status' = [status EXCEPT ![m] = s]
    /\ UNCHANGED delivered

Deliver(m) ==
    /\ status[m] /= "unsent"
    /\ delivered[m] = 0
    /\ delivered' = [delivered EXCEPT ![m] = 1]
    /\ UNCHANGED status

Acknowledge(m) ==
    /\ status[m] = "pending"
    /\ delivered[m] = 1
    /\ status' = [status EXCEPT ![m] = "ACKNOWLEDGED"]
    /\ UNCHANGED delivered

GiveUp(m) ==
    /\ status[m] = "pending"
    /\ \E s \in {"UNCONFIRMED", "FAILED"} : status' = [status EXCEPT ![m] = s]
    /\ UNCHANGED delivered

Next == \E m \in Msgs : Submit(m) \/ Deliver(m) \/ Acknowledge(m) \/ GiveUp(m)

Spec == Init /\ [][Next]_vars
=============================================================================
