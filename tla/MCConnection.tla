----------------------------- MODULE MCConnection -----------------------------
(* Small instances of Connection for TLC. *)
EXTENDS Connection

CONSTANTS c1, c2

TwoConns   == {c1, c2}
OneConn    == {c1}
TwoFds     == {3, 4}
EveryWay   == {"poll", "select", "epoll", "kqueue"}
==============================================================================
