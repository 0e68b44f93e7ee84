------------------------------ MODULE Connection ------------------------------
(***************************************************************************)
(* Outgoing connections from the system calls up: Tcp (tcp.cpp) over Socket *)
(* (socket.cpp), driven by the application through Tcp::poll() or by one    *)
(* worker of the engine through one of the NetPoller implementations, and a *)
(* kernel whose sockets connect, are refused, get data, the end of the      *)
(* stream or a reset, and whose descriptors are used again.                 *)
(*                                                                          *)
(* NetEngine has the threads and the hand-over between them; here one       *)
(* thread polls, other threads only begin connections, and what the kernel  *)
(* answers is not arbitrary: errors are reported once, readiness is level   *)
(* triggered (the semantics of Linux, of kqueue for that poller).           *)
(***************************************************************************)
EXTENDS Tcp, NetPoller, Integers

CONSTANTS
    Conn,       \* the Tcp objects
    Fd,         \* bound: descriptors, small so that they are used again
    Drivers,    \* "poll" for Tcp::poll(), and kinds of NetPoller
    Busy,       \* bound: connections on which the peer and the callbacks do things;
                \* on the others nothing happens but a pending connect
    MaxOpen,    \* bound: how often connect() is called for one object
    NoFd,       \* INVALID_SOCKET
    NoSock      \* a descriptor that is not open

\* err: the pending error of the socket, reported by the next call and then gone.
KernelSocket == [phase : {"pending", "open", "refused", "reset"}, err : BOOLEAN,
                 data : BOOLEAN, fin : BOOLEAN]

ASSUME ConnectionAssumption ==
    /\ Fd \subseteq Nat /\ Drivers \subseteq Kinds \cup {"poll"}
    /\ Busy \subseteq Conn /\ MaxOpen \in Nat /\ NullUd \notin Conn /\ NoFd \notin Fd
    /\ NoSock \notin KernelSocket

VARIABLES
    driver,     \* what this program uses
    mem,        \* is the object allocated
    tcp,        \* its state, see Tcp
    fd,         \* Tcp::_socket
    told,       \* what its owner was told: calls of _cb_connect, or of cb_net_opened,
                \* cb_net_refused and cb_net_closed
    opens,      \* for the bound
    kern,       \* the kernel's socket behind each descriptor
    posted,     \* in the worker's inbox
    sockets,    \* the worker's list
    poller,     \* the worker's NetPoller
    pc,         \* where the worker is
    todo,       \* the sockets it has still to visit
    batch       \* the calls of cb it has still to make

ownVars    == <<mem, tcp, fd, told, opens>>
workerVars == <<posted, sockets, poller, pc, todo, batch>>
vars       == <<driver, ownVars, kern, workerVars>>

NewSock(phase) == [phase |-> phase, err |-> FALSE, data |-> FALSE, fin |-> FALSE]
Dead(k) == k # NoSock /\ k.phase \in {"refused", "reset"}

TypeOK ==
    /\ driver \in Drivers
    /\ mem \in [Conn -> {"fresh", "live", "freed"}]
    /\ tcp \in [Conn -> TcpRecord] /\ fd \in [Conn -> Fd \cup {NoFd}]
    /\ told \in [Conn -> Seq({"opened", "refused", "closed", "connected", "failed"})]
    /\ opens \in [Conn -> 0 .. MaxOpen]
    /\ kern \in [Fd -> KernelSocket \cup {NoSock}]
    /\ posted \subseteq Conn /\ sockets \subseteq Conn /\ todo \subseteq sockets
    /\ pc \in {"inbox", "walk", "batch"}
    /\ \A e \in batch : e.fd \in Fd /\ e.event \subseteq ReadWrite

Init ==
    /\ driver \in Drivers
    /\ mem = [c \in Conn |-> "fresh"] /\ tcp = [c \in Conn |-> NewTcp]
    /\ fd = [c \in Conn |-> NoFd] /\ told = [c \in Conn |-> <<>>]
    /\ opens = [c \in Conn |-> 0] /\ kern = [f \in Fd |-> NoSock]
    /\ posted = {} /\ sockets = {} /\ pc = "inbox" /\ todo = {} /\ batch = {}
    /\ poller = NewPoller(IF driver = "poll" THEN "select" ELSE driver)

------------------------------------------------------------------------------
(* The kernel (external). *)

Readable(k) == k # NoSock /\ (k.data \/ k.fin \/ k.err \/ Dead(k))
Writable(k) == k # NoSock /\ (k.err \/ Dead(k) \/ k.phase = "open")
ReadyOf(k)  == {e \in ReadWrite : IF e = "R" THEN Readable(k) ELSE Writable(k)}
Ready       == [f \in Fd |-> ReadyOf(kern[f])]

\* A nonblocking connect() is decided.
Settle(f) ==
    /\ kern[f] # NoSock /\ kern[f].phase = "pending"
    /\ \/ kern' = [kern EXCEPT ![f].phase = "open"]
       \/ kern' = [kern EXCEPT ![f].phase = "refused", ![f].err = TRUE]

\* The peer sends, ends its stream or resets the connection.
PeerActs(f) ==
    /\ kern[f] # NoSock /\ kern[f].phase = "open"
    /\ \E c \in Busy : fd[c] = f
    /\ \/ ~kern[f].fin /\ kern' = [kern EXCEPT ![f].data = TRUE]
       \/ kern' = [kern EXCEPT ![f].fin = TRUE]
       \/ kern' = [kern EXCEPT ![f].phase = "reset", ![f].err = TRUE]

Kernel(f) == (Settle(f) \/ PeerActs(f)) /\ UNCHANGED <<driver, ownVars, workerVars>>

\* ::recv() where there are no bytes: an error is taken off the socket, so that
\* is_error(), which looks for it afterwards, never finds it; the end of the stream
\* disconnects; else it would block.
NoBytes(k) ==
    IF k = NoSock THEN [k |-> k, disconnected |-> FALSE]
    ELSE [k |-> [k EXCEPT !.err = FALSE], disconnected |-> ~k.err /\ (k.fin \/ Dead(k))]

\* ::recv() until it is short: after a full chunk it is called again.
RecvAll(k) ==
    LET rest == NoBytes(k)
        last == NoBytes([k EXCEPT !.data = FALSE])
    IN  IF k = NoSock \/ ~k.data
        THEN {[k |-> rest.k, got |-> FALSE, disconnected |-> rest.disconnected]}
        ELSE {[k |-> [k EXCEPT !.data = FALSE], got |-> TRUE, disconnected |-> FALSE],
              [k |-> last.k, got |-> TRUE, disconnected |-> last.disconnected]}

\* ::send(): everything, or as much as there is room for; an error is ignored.
SendSome(k) ==
    IF k = NoSock THEN {[k |-> k, drained |-> FALSE]}
    ELSE IF k.err \/ Dead(k) THEN {[k |-> [k EXCEPT !.err = FALSE], drained |-> FALSE]}
    ELSE {[k |-> k, drained |-> d] : d \in {FALSE, k.phase = "open"}}

------------------------------------------------------------------------------
(* What one thread does to one connection without a break: its Tcp r, its   *)
(* kernel socket k, what is told of it, and whether the handler goes on.    *)

State0(c) == [r |-> tcp[c], k |-> IF fd[c] = NoFd THEN NoSock ELSE kern[fd[c]],
              told |-> told[c], on |-> TRUE, busy |-> c \in Busy]
Tell(o, what) == [o EXCEPT !.told = Append(@, what)]

\* Mutant of CloseTcp: a pending connect is dropped in silence.
CloseTcp_Silent(o) ==
    IF o.r.managed THEN [o EXCEPT !.r = Close(@)]
    ELSE [o EXCEPT !.r = Close(@), !.k = NoSock]

\* Mutant of CloseTcp: the callback is called whatever the state is.
CloseTcp_Twice(o) ==
    IF o.r.managed THEN [o EXCEPT !.r = Close(@)]
    ELSE [Tell(o, "failed") EXCEPT !.r = Close(@), !.k = NoSock]

\* Tcp::close(): a managed socket stays open for the worker; an unmanaged one tells
\* its callback that a pending connect failed and is closed.
CloseTcp(o) ==
    IF o.r.managed THEN [o EXCEPT !.r = Close(@)]
    ELSE LET p == IF o.r.state = "Connnecting" THEN Tell(o, "failed") ELSE o
         IN  [p EXCEPT !.r = Close(@), !.k = NoSock]

\* In a callback the application does nothing, sends or closes.
Reactions(o) == {o} \cup IF o.busy THEN {[o EXCEPT !.r = Send(@)], CloseTcp(o)} ELSE {}
\* ... and an engine callback may also return false.
Decline(o)   == IF o.busy THEN {[CloseTcp(o) EXCEPT !.on = FALSE]} ELSE {}

\* "Update state if connecting", with its callback; managed sockets have none.
Update(o) ==
    IF o.r.state # "Connnecting" THEN {o}
    ELSE IF o.r.managed THEN {[o EXCEPT !.r = Opened(@)]}
    ELSE Reactions(Tell([o EXCEPT !.r = Opened(@)], "connected"))

\* Mutant of DoRead: the end of the stream is nothing special.
DoRead_NoEof(o) ==
    UNION {{[u EXCEPT !.k = x.k, !.r.ibuf = @ \/ x.got] : x \in RecvAll(u.k)} : u \in Update(o)}

\* io_read()
DoRead(o) ==
    UNION {{LET read == [u EXCEPT !.k = x.k, !.r.ibuf = @ \/ x.got]
            IN  IF x.disconnected THEN CloseTcp(read) ELSE read : x \in RecvAll(u.k)}
             : u \in Update(o)}

\* io_write()
DoWrite(o) ==
    UNION {IF ~u.r.obuf THEN {u}
           ELSE {[u EXCEPT !.k = x.k, !.r = IoWrite(@, x.drained)] : x \in SendSome(u.k)}
             : u \in Update(o)}

\* The write half of the engine's event handler: cb_net_opened, io_write(),
\* cb_net_sent.
WriteHalf(o) ==
    LET opened == Tell([o EXCEPT !.r.state = "Connected"], "opened")
        before == IF o.r.state = "Connnecting" THEN Reactions(opened) \cup Decline(opened)
                  ELSE {o}
        wrote  == UNION {DoWrite(u) : u \in {v \in before : v.on}}
    IN  {u \in before : ~u.on} \cup
        UNION {IF u.r.obuf THEN {u} ELSE Reactions(u) \cup Decline(u) : u \in wrote}

\* The read half: io_read(), cb_net_recv.
ReadHalf(o) ==
    UNION {IF ~u.r.ibuf THEN {u}
           ELSE Reactions(u) \cup Decline(u) \cup Reactions([u EXCEPT !.r = Recv(@)])
             : u \in DoRead(o)}

Outcomes(c, e) ==
    LET wrote == IF "W" \in e THEN WriteHalf(State0(c)) ELSE {State0(c)}
    IN  {u \in wrote : ~u.on} \cup
        UNION {IF "R" \in e THEN ReadHalf(u) ELSE {u} : u \in {v \in wrote : v.on}}

\* o is what becomes of c.
Becomes(c, o) ==
    /\ tcp' = [tcp EXCEPT ![c] = o.r]
    /\ told' = [told EXCEPT ![c] = o.told]
    /\ fd' = [fd EXCEPT ![c] = IF o.k = NoSock THEN NoFd ELSE @]
    /\ kern' = [f \in Fd |-> IF f = fd[c] THEN o.k ELSE kern[f]]

------------------------------------------------------------------------------
(* Connecting *)

\* Socket::init(): the lowest descriptor that is free.
FreeFd(f) == kern[f] = NoSock /\ \A g \in Fd : kern[g] = NoSock => f <= g

\* Tcp::connect() of a nonblocking socket: pending, or connected at once, which the
\* callback of an unmanaged socket learns before connect() returns.  The engine's
\* connect() in another thread, or in a callback, allocates the object and posts it.
Connect(c, phase) ==
    /\ fd[c] = NoFd /\ opens[c] < MaxOpen /\ (phase = "pending" \/ c \in Busy)
    /\ mem[c] = "fresh" \/ (driver = "poll" /\ mem[c] = "live")
    /\ mem' = [mem EXCEPT ![c] = "live"]
    /\ opens' = [opens EXCEPT ![c] = @ + 1]
    /\ \E f \in Fd :
          /\ FreeFd(f)
          /\ LET begun == [r |-> [Connecting(tcp[c], phase = "open") EXCEPT
                                    !.managed = driver # "poll"],
                           k |-> NewSock(phase), told |-> <<>>, on |-> TRUE, busy |-> c \in Busy]
             IN  \E o \in IF driver = "poll" /\ phase = "open" THEN Reactions(Tell(begun, "connected"))
                          ELSE {begun} :
                    /\ tcp' = [tcp EXCEPT ![c] = o.r]
                    /\ told' = [told EXCEPT ![c] = o.told]
                    /\ fd' = [fd EXCEPT ![c] = IF o.k = NoSock THEN NoFd ELSE f]
                    /\ kern' = [kern EXCEPT ![f] = o.k]
    /\ posted' = IF driver = "poll" THEN posted ELSE posted \cup {c}
    /\ UNCHANGED <<driver, sockets, poller, pc, todo, batch>>

\* Tcp::connect() fails at once: there is no socket to be had, which leaves the state as
\* it was, or what was opened is closed again; and the engine deletes the object.
ConnectFails(c) ==
    /\ fd[c] = NoFd /\ opens[c] < MaxOpen /\ c \in Busy
    /\ mem[c] = "fresh" \/ (driver = "poll" /\ mem[c] = "live")
    /\ mem' = [mem EXCEPT ![c] = IF driver = "poll" THEN "live" ELSE "freed"]
    /\ opens' = [opens EXCEPT ![c] = @ + 1]
    /\ \E state \in {tcp[c].state, "Closed"} :
          tcp' = [tcp EXCEPT ![c] = [@ EXCEPT !.state = state, !.ibuf = FALSE, !.obuf = FALSE]]
    /\ told' = [told EXCEPT ![c] = <<>>]
    /\ UNCHANGED <<driver, fd, kern, workerVars>>

------------------------------------------------------------------------------
(* The application with a socket of its own. *)

\* Tcp::poll(): select() on the one socket, then io_read() and io_write().
TcpPoll(c) ==
    /\ driver = "poll" /\ fd[c] # NoFd
    /\ LET o == State0(c)
           e == {x \in ReadyOf(o.k) : x = "R" \/ o.r.state = "Connnecting" \/ o.r.obuf}
       IN  /\ e # {}
           /\ \E u \in IF "R" \in e THEN DoRead(o) ELSE {o} :
                 \E v \in IF "W" \in e /\ u.k # NoSock THEN DoWrite(u) ELSE {u} :
                    Becomes(c, v)
    /\ UNCHANGED <<driver, mem, opens, workerVars>>

\* Tcp::send(), recv() of everything and close().  The callback of a connect does
\* not call close() when it is told of a failure: see the README.
AppCalls(c) ==
    /\ driver = "poll" /\ mem[c] = "live" /\ c \in Busy
    /\ \E o \in {[State0(c) EXCEPT !.r = Send(@)], [State0(c) EXCEPT !.r = Recv(@)],
                 CloseTcp(State0(c))} : Becomes(c, o)
    /\ UNCHANGED <<driver, mem, opens, workerVars>>

------------------------------------------------------------------------------
(* worker_socket() *)

Adopt(c) ==
    /\ pc = "inbox" /\ c \in posted
    /\ LET pending == tcp[c].state = "Connnecting" IN
          /\ tcp' = [tcp EXCEPT ![c].evmask = @ \/ pending]
          /\ poller' = PollerAdd(poller, fd[c], IF pending THEN ReadWrite ELSE ReadOnly, c)
    /\ posted' = posted \ {c} /\ sockets' = sockets \cup {c}
    /\ UNCHANGED <<driver, mem, fd, told, opens, kern, pc, todo, batch>>

BeginWalk ==
    /\ pc = "inbox" /\ posted = {} /\ sockets # {}
    /\ pc' = "walk" /\ todo' = sockets
    /\ UNCHANGED <<driver, ownVars, kern, posted, sockets, poller, batch>>

\* Mutant of Unregister: the socket is closed first.
Unregister_Late(c) == PollerRemove(Forget(poller, fd[c]), NoFd)

\* poller.remove(), and then the descriptor is closed with the object.
Unregister(c) == Forget(PollerRemove(poller, fd[c]), fd[c])

\* Mutant of WalkEnd: the iterator stays on the erased element.
WalkEnd_Stays(c) ==
    /\ pc = "walk" /\ c \in todo /\ tcp[c].state \in {"Closing", "Refused"}
    /\ told' = [told EXCEPT ![c] = Append(@, IF tcp[c].state = "Closing" THEN "closed" ELSE "refused")]
    /\ tcp' = [tcp EXCEPT ![c].state = "Closed"]
    /\ poller' = Unregister(c)
    /\ mem' = [mem EXCEPT ![c] = "freed"]
    /\ fd' = [fd EXCEPT ![c] = NoFd] /\ kern' = [kern EXCEPT ![fd[c]] = NoSock]
    /\ sockets' = sockets \ {c}
    /\ UNCHANGED <<driver, opens, posted, pc, todo, batch>>

\* A Closing or Refused socket is reported and deleted.
WalkEnd(c) ==
    /\ pc = "walk" /\ c \in todo /\ tcp[c].state \in {"Closing", "Refused"}
    /\ told' = [told EXCEPT ![c] = Append(@, IF tcp[c].state = "Closing" THEN "closed" ELSE "refused")]
    /\ tcp' = [tcp EXCEPT ![c].state = "Closed"]
    /\ poller' = Unregister(c)
    /\ mem' = [mem EXCEPT ![c] = "freed"]
    /\ fd' = [fd EXCEPT ![c] = NoFd] /\ kern' = [kern EXCEPT ![fd[c]] = NoSock]
    /\ sockets' = sockets \ {c} /\ todo' = todo \ {c}
    /\ UNCHANGED <<driver, opens, posted, pc, batch>>

\* The interest follows the output buffer; a pending connect keeps both events.
Adjusted(c, r) == [r EXCEPT !.evmask = IF tcp[c].state = "Connected" THEN r.obuf ELSE TRUE]

\* Any other socket: it may have been idle too long, which closes it or gives the
\* application a turn.
WalkLive(c) ==
    /\ pc = "walk" /\ c \in todo /\ tcp[c].state \in {"Connnecting", "Connected"}
    /\ \/ /\ tcp[c].state = "Connected" /\ c \in Busy
          /\ Becomes(c, CloseTcp(State0(c)))
          /\ UNCHANGED poller
       \/ \E o \in IF tcp[c].state = "Connected" THEN Reactions(State0(c)) ELSE {State0(c)} :
             LET r == Adjusted(c, o.r)
             IN  /\ Becomes(c, [o EXCEPT !.r = r])
                 /\ poller' = IF r.evmask = tcp[c].evmask THEN poller
                              ELSE PollerModify(poller, fd[c],
                                                IF r.evmask THEN ReadWrite ELSE ReadOnly, c)
    /\ todo' = todo \ {c}
    /\ UNCHANGED <<driver, mem, opens, posted, sockets, pc, batch>>

\* poller.poll(): the wait.
Poll ==
    /\ pc = "walk" /\ todo = {}
    /\ batch' = Calls(poller, Ready)
    /\ poller' = Waited(poller)
    /\ pc' = IF batch' = {} THEN "inbox" ELSE "batch"
    /\ UNCHANGED <<driver, ownVars, kern, posted, sockets, todo>>

\* One call of the event handler.
Handle(e) ==
    /\ pc = "batch" /\ e \in batch
    /\ \E o \in Outcomes(e.ud, e.event) : Becomes(e.ud, o)
    /\ batch' = batch \ {e}
    /\ pc' = IF batch' = {} THEN "inbox" ELSE pc
    /\ UNCHANGED <<driver, mem, opens, posted, sockets, poller, todo>>

Worker ==
    \/ BeginWalk \/ Poll
    \/ \E c \in Conn : Adopt(c) \/ WalkEnd(c) \/ WalkLive(c)
    \/ \E e \in batch : Handle(e)

Next ==
    \/ Worker
    \/ \E c \in Conn : TcpPoll(c) \/ AppCalls(c) \/ ConnectFails(c)
                       \/ \E phase \in {"pending", "open"} : Connect(c, phase)
    \/ \E f \in Fd : Kernel(f)

Spec == Init /\ [][Next]_vars

\* The worker runs, the application keeps calling poll(), and the network decides
\* every connect().
FairSpec ==
    /\ Spec /\ WF_vars(Worker)
    /\ \A c \in Conn : WF_vars(TcpPoll(c))
    /\ \A f \in Fd : WF_vars(Settle(f) /\ UNCHANGED <<driver, ownVars, workerVars>>)

------------------------------------------------------------------------------
(* Properties *)

\* Whichever poller is used, and though descriptors are used again at once, every
\* registration and every call of cb still to be made is for a Tcp that exists and
\* owns the descriptor: no event is for a deleted object or for its successor.
EventsReachTheirOwner ==
    \A x \in Effective(poller) \cup batch :
       x.ud # NullUd => mem[x.ud] = "live" /\ fd[x.ud] = x.fd

\* At every wait the poller, with the changes it still has to hand over, watches
\* each socket of the list for exactly what _evmask says.
PollerFollowsMask ==
    \A c \in sockets :
       UNION {x.event : x \in {y \in Effective(poller) : y.ud = c}} =
          IF tcp[c].evmask THEN ReadWrite ELSE ReadOnly

\* An attempt to connect is answered at most once, a connection ends at most once
\* and after that nothing is told of it, with callbacks that send and close from
\* inside connect(), io_read(), io_write() and each other.
ToldOnce ==
    \A c \in Conn : told[c] \in {<<>>, <<"connected">>, <<"failed">>,
                                 <<"opened">>, <<"refused">>, <<"closed">>, <<"opened", "closed">>}

\* A connect() that is pending is answered: by the callback of connect(), or by
\* cb_net_opened or cb_net_refused.
ConnectIsAnswered ==
    \A c \in Conn : tcp[c].state = "Connnecting" ~> told[c] # <<>>

Ended(c) == fd[c] # NoFd /\ (Dead(kern[fd[c]]) \/ kern[fd[c]].fin)

\* A connection that was refused, was reset or has ended its stream is noticed and
\* its descriptor closed, although recv() and send() swallow the pending error and
\* is_error() sees none.
EndIsNoticed == \A c \in Conn : Ended(c) ~> ~Ended(c)
==============================================================================
