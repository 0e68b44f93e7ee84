------------------------------ MODULE MCEvents ------------------------------
(* Small instances of NetEngineEvents for TLC. *)
EXTENDS NetEngineEvents, TLC

CONSTANTS c1, c2, l1, a1

TwoConns  == {c1, c2}
OneListen == {l1}
OneApp    == {a1}

\* Connections are interchangeable.
ConnSymmetry == Permutations(Conn)
==============================================================================
