------------------------------- MODULE MCBeacon -------------------------------
(* Small instances of Beacon for TLC. *)
EXTENDS Beacon

CONSTANTS n1, n2

OnlyN1   == {n1}
OnlyN2   == {n2}
TwoNodes == {n1, n2}
TwoIds   == [i \in 0 .. 1 |-> i + 1]
==============================================================================
