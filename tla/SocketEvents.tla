---------------------------- MODULE SocketEvents ----------------------------
(***************************************************************************)
(* What the engine promises to the application about the events of a        *)
(* connection (doc/engine.md, "Events"; the cb_net_* delegates of           *)
(* netengine.h), with no queues, lists, pollers or buffers:                 *)
(*                                                                          *)
(*  - the events of a connection are told one by one, on one thread: the    *)
(*    listen thread tells that it was accepted, then one worker tells the   *)
(*    rest, and a thread is in at most one callback;                        *)
(*  - cb_net_opened is told once, when a connection that was being opened   *)
(*    is;  cb_net_timeout only while it is open;  cb_net_sent and           *)
(*    cb_net_recv also after it was asked to end;                           *)
(*  - cb_net_closed or cb_net_refused is told once, last, and only of a     *)
(*    connection that was asked to end;                                     *)
(*  - the object is deleted only when that callback has returned, or by a   *)
(*    thread that was told to stop, outside any callback.                   *)
(***************************************************************************)
CONSTANTS Conn, Thread,
          Nowhere          \* no thread: the home of a connection no worker owns

VARIABLES
    phase,     \* how far the life of a connection has come
    home,      \* the worker that owns it
    told,      \* the callback that is running for it, "none" if none is
    teller,    \* the thread that callback runs on
    serving    \* the threads that have not been told to stop

vars == <<phase, home, told, teller, serving>>

Phase == {"unborn", "opening", "open", "ending", "over", "gone"}

EventsTypeOK ==
    /\ phase \in [Conn -> Phase]
    /\ home \in [Conn -> Thread \cup {Nowhere}]
    /\ told \in [Conn -> {"none", "accepted", "opened", "timeout", "sent", "recv",
                          "closed", "refused"}]
    /\ teller \in [Conn -> Thread \cup {Nowhere}]
    /\ serving \subseteq Thread

Init ==
    /\ phase = [c \in Conn |-> "unborn"]
    /\ home = [c \in Conn |-> Nowhere]
    /\ told = [c \in Conn |-> "none"]
    /\ teller = [c \in Conn |-> Nowhere]
    /\ serving = {}

Quiet(t) == \A c \in Conn : teller[c] # t

\* From here on c is open, or has been asked to end.
Proceed(c, to) == phase[c] = to \/ <<phase[c], to>> \in {<<"open", "ending">>}

\* connect(): the connection may be open at once.
Open(c, to) ==
    /\ phase[c] = "unborn" /\ to \in {"opening", "open"}
    /\ phase' = [phase EXCEPT ![c] = to]
    /\ UNCHANGED <<home, told, teller, serving>>

\* The callback f for c begins on thread t.
Begin(c, f, t) ==
    /\ told[c] = "none" /\ Quiet(t)
    /\ told' = [told EXCEPT ![c] = f]
    /\ teller' = [teller EXCEPT ![c] = t]

TellAccepted(c, t) ==
    /\ phase[c] = "unborn"
    /\ Begin(c, "accepted", t)
    /\ phase' = [phase EXCEPT ![c] = "open"]
    /\ UNCHANGED <<home, serving>>

\* A worker takes the connection over, for good.
Adopt(c, t) ==
    /\ phase[c] \in {"opening", "open", "ending"} /\ home[c] = Nowhere /\ told[c] = "none"
    /\ home' = [home EXCEPT ![c] = t]
    /\ UNCHANGED <<phase, told, teller, serving>>

TellOpened(c, t) ==
    /\ home[c] = t /\ phase[c] = "opening"
    /\ Begin(c, "opened", t)
    /\ phase' = [phase EXCEPT ![c] = "open"]
    /\ UNCHANGED <<home, serving>>

TellTimeout(c, t) ==
    /\ home[c] = t /\ phase[c] = "open"
    /\ Begin(c, "timeout", t)
    /\ UNCHANGED <<phase, home, serving>>

\* What was read may also have shown that the peer is gone.
TellIO(c, f, t, to) ==
    /\ home[c] = t /\ phase[c] \in {"open", "ending"} /\ Proceed(c, to)
    /\ f \in {"sent", "recv"} /\ (f = "sent" => to = phase[c])
    /\ Begin(c, f, t)
    /\ phase' = [phase EXCEPT ![c] = to]
    /\ UNCHANGED <<home, serving>>

TellEnd(c, f, t) ==
    /\ home[c] = t /\ phase[c] = "ending"
    /\ f \in {"closed", "refused"}
    /\ Begin(c, f, t)
    /\ phase' = [phase EXCEPT ![c] = "over"]
    /\ UNCHANGED <<home, serving>>

\* The callback returns, perhaps asking for the end of the connection.
Return(c, to) ==
    /\ told[c] # "none" /\ phase[c] # "over" /\ Proceed(c, to)
    /\ told' = [told EXCEPT ![c] = "none"]
    /\ teller' = [teller EXCEPT ![c] = Nowhere]
    /\ phase' = [phase EXCEPT ![c] = to]
    /\ UNCHANGED <<home, serving>>

\* The last callback returns and the object is deleted.
ReturnEnd(c) ==
    /\ told[c] # "none" /\ phase[c] = "over"
    /\ told' = [told EXCEPT ![c] = "none"]
    /\ teller' = [teller EXCEPT ![c] = Nowhere]
    /\ phase' = [phase EXCEPT ![c] = "gone"]
    /\ home' = [home EXCEPT ![c] = Nowhere]
    /\ UNCHANGED serving

\* The end of c is asked for: by the application inside some callback, or by
\* the engine when it finds the peer gone.
End(c) ==
    /\ phase[c] \in {"opening", "open"}
    /\ phase' = [phase EXCEPT ![c] = "ending"]
    /\ UNCHANGED <<home, told, teller, serving>>

\* A thread that was told to stop deletes connections: its own, or some that
\* were still on their way to it.
Kill(t, S) ==
    /\ t \notin serving /\ S # {}
    /\ \A c \in S : /\ phase[c] \in {"opening", "open", "ending"}
                    /\ told[c] = "none" /\ home[c] \in {t, Nowhere}
    /\ phase' = [c \in Conn |-> IF c \in S THEN "gone" ELSE phase[c]]
    /\ home' = [c \in Conn |-> IF c \in S THEN Nowhere ELSE home[c]]
    /\ UNCHANGED <<told, teller, serving>>

\* A thread is started, or told to stop.
Serve(t) == serving' = serving \cup {t} /\ UNCHANGED <<phase, home, told, teller>>
Halt(t)  == serving' = serving \ {t} /\ UNCHANGED <<phase, home, told, teller>>

Next ==
    \/ \E t \in Thread :
          \/ Serve(t) \/ Halt(t)
          \/ \E S \in SUBSET Conn : Kill(t, S)
    \/ \E c \in Conn :
          \/ End(c) \/ ReturnEnd(c)
          \/ \E to \in Phase : Open(c, to) \/ Return(c, to)
          \/ \E t \in Thread :
                \/ TellAccepted(c, t) \/ Adopt(c, t) \/ TellOpened(c, t) \/ TellTimeout(c, t)
                \/ \E f \in {"sent", "recv"}, to \in Phase : TellIO(c, f, t, to)
                \/ \E f \in {"closed", "refused"} : TellEnd(c, f, t)

Spec == Init /\ [][Next]_vars
==============================================================================
