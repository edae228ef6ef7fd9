------------------------------ MODULE MCPairing ------------------------------
(* Instances of Pairing for TLC.                                           *)
EXTENDS Pairing

\* Three boards that make four offers, so that two ceremonies of one board overlap;
\* three offers and one mishap; two boards that start over, with two mishaps.
Experiment(boards, offers, mishaps) == [boards |-> boards, offers |-> offers, mishaps |-> mishaps]

Ceremonies ==
    {Experiment({1, 2, 3}, 4, 0), Experiment({1, 2, 3}, 3, 1), Experiment({1, 2}, 4, 2)}

\* One ceremony of two boards, and one other command.
OneCeremony == {Experiment({1, 2}, 2, 1)}
=============================================================================
