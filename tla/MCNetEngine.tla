----------------------------- MODULE MCNetEngine -----------------------------
(* Small instances of NetEngine for TLC. *)
EXTENDS NetEngine, TLC

CONSTANTS c1, c2, l1, a1

TwoConns   == {c1, c2}
OneConn    == {c1}
OneListen  == {l1}
OneApp     == {a1}

\* Connections are interchangeable.
ConnSymmetry == Permutations(Conn)
==============================================================================
