--------------------------- MODULE NetEngineEvents ---------------------------
(***************************************************************************)
(* The refinement mapping from the engine to what it promises: NetEngine    *)
(* implements SocketEvents.                                                 *)
(***************************************************************************)
EXTENDS NetEngine

CONSTANT Nowhere     \* the home of a connection that no worker owns

ASSUME NowhereAssumption == Nowhere \notin Thread

\* The life of a connection, from its memory and its Tcp state.  Refused and
\* Closing are the same to the application until the last callback tells which.
PhaseOf(c) ==
    CASE mem[c] = "fresh" -> "unborn"
      [] mem[c] = "freed" -> "gone"
      [] OTHER -> CASE tcp[c].state = "Connnecting"            -> "opening"
                    [] tcp[c].state = "Connected"              -> "open"
                    [] tcp[c].state \in {"Refused", "Closing"} -> "ending"
                    [] OTHER                                   -> "over"

HomeOf(c) ==
    IF \E t \in Thread : c \in sockets[t]
    THEN CHOOSE t \in Thread : c \in sockets[t]
    ELSE Nowhere

TellerOf(c) ==
    IF \E t \in Thread : cb[t] # "none" /\ cur[t] = c
    THEN CHOOSE t \in Thread : cb[t] # "none" /\ cur[t] = c
    ELSE Nowhere

ToldOf(c) == IF TellerOf(c) = Nowhere THEN "none" ELSE cb[TellerOf(c)]

Events == INSTANCE SocketEvents WITH
    phase   <- [c \in Conn |-> PhaseOf(c)],
    home    <- [c \in Conn |-> HomeOf(c)],
    teller  <- [c \in Conn |-> TellerOf(c)],
    told    <- [c \in Conn |-> ToldOf(c)],
    serving <- {t \in Thread : runflag[t]}

\* The engine keeps its promise to the application: every step of the control
\* thread, the listen thread, the workers and the callbacks is a step SocketEvents
\* allows, or changes nothing the application sees (doc/engine.md, "Events").
KeepsEvents == Events!Spec
==============================================================================
