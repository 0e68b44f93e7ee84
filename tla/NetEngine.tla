------------------------------ MODULE NetEngine ------------------------------
(***************************************************************************)
(* The network engine of netengine.cpp: one control thread that starts and  *)
(* stops it (threads.cpp), a listen thread (id 0) that accepts, worker      *)
(* threads (ids 1, 2, ...) that each own a list of sockets and a poller,    *)
(* one mutex-protected inbox per thread through which Tcp pointers change   *)
(* hands, application threads that call listen() and connect(), and the     *)
(* application's callbacks, which run inside the engine's threads.          *)
(*                                                                          *)
(* One action is what a thread does between two points where another        *)
(* thread, the kernel or the application can act: an inbox access, a        *)
(* callback, a system call on the poller.  The kernel is nondeterministic:  *)
(* any registered socket may be ready, any send or recv may succeed, be     *)
(* short or fail.  The load balancer is its interface only (setup, retain,  *)
(* release); LoadBalancerRR has a module of its own.                        *)
(***************************************************************************)
EXTENDS Tcp, Integers, Sequences, FiniteSets

CONSTANTS
    Conn,           \* the Tcp objects accepted or connected during a behaviour
    Listener,       \* the Tcp objects created by listen()
    NoTcp,          \* nullptr
    App,            \* application threads that call listen() and connect()
    MaxWorker,      \* kMaxWorker: inboxes 0..MaxWorker
    MaxThreads,     \* kMaxThreads: thread slots 0..MaxThreads-1
    Sizes,          \* the arguments start() is called with
    MaxStarts,      \* bound: how often start() is called
    AppOps,         \* what application threads call: "listen", "connect"
    CbOps,          \* what callbacks call: "send", "recv", "close", "connect",
                    \* and "peer": on other sockets of the same thread too
    Timeouts,       \* _timeout # 0
    PollerFaults    \* which poller calls may fail: "init", "add"

Tcps   == Conn \cup Listener
Inbox  == 0 .. MaxWorker
Thread == 0 .. MaxThreads - 1
Poster == App \cup Thread

ASSUME EngineAssumption ==
    /\ MaxWorker \in Nat \ {0} /\ MaxThreads \in Nat \ {0, 1} /\ MaxStarts \in Nat
    /\ MaxThreads <= MaxWorker + 1
    /\ Sizes \subseteq Nat \ {0}
    /\ Conn \cap Listener = {} /\ NoTcp \notin Tcps
    /\ App \cap Thread = {}
    /\ AppOps \subseteq {"listen", "connect"}
    /\ CbOps \subseteq {"send", "recv", "close", "connect", "peer"}
    /\ Timeouts \in BOOLEAN /\ PollerFaults \subseteq {"init", "add"}

VARIABLES
    eng,        \* what the control thread is doing
    at,         \* ... and the thread slot its loop has reached
    nthreads,   \* _threads_count
    lb,         \* the balancer returns 1..lb; 0 before the first setup()
    starts,     \* number of start() calls so far
    runflag,    \* _threads[t].runflag
    pc,         \* where thread t is
    mem,        \* is the object allocated
    tcp,        \* its contents
    inbox,      \* _inbox[i]
    sockets,    \* the local list of thread t, as a set: no step depends on its order
    interest,   \* events a socket is registered for in its thread's poller, {} if none
    todo,       \* walk: sockets not visited yet; poll: sockets the batch may still name
    cur,        \* the socket thread t is handling
    ev,         \* the events of cur not handled yet
    cb,         \* the callback thread t is in
    hand,       \* the pointer p is about to post ...
    dest,       \* ... and the inbox it goes to
    load        \* retain() minus release() calls made for a connection

ctlVars  == <<eng, at, nthreads, lb, starts, runflag>>
sockVars == <<mem, tcp, interest>>
runVars  == <<todo, cur, ev, cb>>
postVars == <<hand, dest>>
vars     == <<ctlVars, pc, sockVars, inbox, sockets, runVars, postVars, load>>

ReadOnly  == {"R"}
ReadWrite == {"R", "W"}
Callback  == {"timeout", "refused", "accepted", "opened", "closed", "sent", "recv"}

TypeOK ==
    /\ eng \in {"stopped", "starting", "running", "clearing", "joining"}
    /\ at \in Thread
    /\ nthreads \in 0 .. MaxThreads
    /\ lb \in Inbox
    /\ starts \in 0 .. MaxStarts
    /\ runflag \in [Thread -> BOOLEAN]
    /\ pc \in [Thread -> {"idle", "init", "loop", "inbox", "walk", "poll", "accept",
                          "call", "write", "read", "drain", "done"}]
    /\ mem \in [Tcps -> {"fresh", "live", "freed"}]
    /\ tcp \in [Tcps -> TcpRecord]
    /\ inbox \in [Inbox -> Seq(Tcps)]
    /\ sockets \in [Thread -> SUBSET Tcps]
    /\ interest \in [Tcps -> SUBSET ReadWrite]
    /\ todo \in [Thread -> SUBSET Tcps]
    /\ cur \in [Thread -> Tcps \cup {NoTcp}]
    /\ ev \in [Thread -> SUBSET ReadWrite]
    /\ cb \in [Thread -> Callback \cup {"none"}]
    /\ hand \in [Poster -> Tcps \cup {NoTcp}]
    /\ dest \in [Poster -> Inbox]
    /\ load \in [Conn -> Int]

Init ==
    /\ eng = "stopped" /\ at = 0 /\ nthreads = 0 /\ lb = 0 /\ starts = 0
    /\ runflag = [t \in Thread |-> FALSE]
    /\ pc = [t \in Thread |-> "idle"]
    /\ mem = [s \in Tcps |-> "fresh"]
    /\ tcp = [s \in Tcps |-> NewTcp]
    /\ inbox = [i \in Inbox |-> <<>>]
    /\ sockets = [t \in Thread |-> {}]
    /\ interest = [s \in Tcps |-> {}]
    /\ todo = [t \in Thread |-> {}]
    /\ cur = [t \in Thread |-> NoTcp]
    /\ ev = [t \in Thread |-> {}]
    /\ cb = [t \in Thread |-> "none"]
    /\ hand = [p \in Poster |-> NoTcp]
    /\ dest = [p \in Poster |-> 0]
    /\ load = [c \in Conn |-> 0]

------------------------------------------------------------------------------
(* The control thread: NetEngine::start/stop on top of Threads::start/stop. *)

\* start(n) with a thread count Threads can hold.  Calling it while the engine
\* runs would assign to a joinable std::thread: the caller must not.
Start(n) ==
    /\ eng = "stopped" /\ starts < MaxStarts
    /\ n <= MaxWorker /\ n + 1 <= MaxThreads
    /\ lb' = n
    /\ nthreads' = n + 1
    /\ eng' = "starting" /\ at' = 0 /\ starts' = starts + 1
    /\ UNCHANGED <<runflag, pc, sockVars, inbox, sockets, runVars, postVars, load>>

\* start(n) that Threads::start() turns down after the balancer was set up.
StartFails(n) ==
    /\ eng \in {"stopped", "running"} /\ starts < MaxStarts
    /\ n <= MaxWorker /\ n + 1 > MaxThreads
    /\ lb' = n
    /\ starts' = starts + 1
    /\ UNCHANGED <<eng, at, nthreads, runflag, pc, sockVars, inbox, sockets, runVars,
                   postVars, load>>

\* The loop of Threads::start(), one thread at a time; earlier ones already run.
StartThread ==
    /\ eng = "starting"
    /\ runflag' = [runflag EXCEPT ![at] = TRUE]
    /\ pc' = [pc EXCEPT ![at] = "init"]
    /\ IF at + 1 = nthreads THEN eng' = "running" /\ at' = 0
                            ELSE eng' = eng /\ at' = at + 1
    /\ UNCHANGED <<nthreads, lb, starts, sockVars, inbox, sockets, runVars, postVars, load>>

Stop ==
    /\ eng = "running"
    /\ eng' = "clearing"
    /\ UNCHANGED <<at, nthreads, lb, starts, runflag, pc, sockVars, inbox, sockets,
                   runVars, postVars, load>>

\* The first loop of Threads::stop().
ClearFlag ==
    /\ eng = "clearing"
    /\ runflag' = [runflag EXCEPT ![at] = FALSE]
    /\ IF at + 1 = nthreads THEN eng' = "joining" /\ at' = 0
                            ELSE eng' = eng /\ at' = at + 1
    /\ UNCHANGED <<nthreads, lb, starts, pc, sockVars, inbox, sockets, runVars, postVars,
                   load>>

\* Mutant of Join: one thread too many.
Join_OneTooMany ==
    /\ eng = "joining"
    /\ pc[at] = "done"
    /\ pc' = [pc EXCEPT ![at] = "idle"]
    /\ IF at = nthreads THEN eng' = "stopped" /\ at' = 0 /\ nthreads' = 0
                        ELSE eng' = eng /\ at' = at + 1 /\ nthreads' = nthreads
    /\ UNCHANGED <<lb, starts, runflag, sockVars, inbox, sockets, runVars, postVars, load>>

\* The second loop of Threads::stop().
Join ==
    /\ eng = "joining"
    /\ pc[at] = "done"
    /\ pc' = [pc EXCEPT ![at] = "idle"]
    /\ IF at + 1 = nthreads THEN eng' = "stopped" /\ at' = 0 /\ nthreads' = 0
                            ELSE eng' = eng /\ at' = at + 1 /\ nthreads' = nthreads
    /\ UNCHANGED <<lb, starts, runflag, sockVars, inbox, sockets, runVars, postVars, load>>

------------------------------------------------------------------------------
(* Handing a Tcp pointer to a thread. *)

\* Allocate c as a connection that is being opened and choose its worker.  The
\* caller p holds the pointer until Post.
Connect(p, c, immediate, i) ==
    /\ c \in Conn /\ mem[c] = "fresh" /\ hand[p] = NoTcp
    /\ lb > 0 /\ i \in 1 .. lb
    /\ mem' = [mem EXCEPT ![c] = "live"]
    /\ tcp' = [tcp EXCEPT ![c] = [Connecting(NewTcp, immediate) EXCEPT !.managed = TRUE]]
    /\ load' = [load EXCEPT ![c] = @ + 1]
    /\ hand' = [hand EXCEPT ![p] = c]
    /\ dest' = [dest EXCEPT ![p] = i]
    /\ UNCHANGED <<ctlVars, pc, inbox, sockets, interest, runVars>>

AppConnect(a) ==
    /\ "connect" \in AppOps
    /\ \E c \in Conn, immediate \in BOOLEAN, i \in Inbox : Connect(a, c, immediate, i)

AppListen(a) ==
    /\ "listen" \in AppOps /\ hand[a] = NoTcp
    /\ \E l \in Listener :
          /\ mem[l] = "fresh"
          /\ mem' = [mem EXCEPT ![l] = "live"]
          /\ tcp' = [tcp EXCEPT ![l] = [Listening(NewTcp) EXCEPT !.managed = TRUE]]
          /\ hand' = [hand EXCEPT ![a] = l]
          /\ dest' = [dest EXCEPT ![a] = 0]
    /\ UNCHANGED <<ctlVars, pc, inbox, sockets, interest, runVars, load>>

\* Mutant of Post: the retry loop posts again after a success.
Post_Twice(p) ==
    /\ hand[p] # NoTcp
    /\ inbox' = [inbox EXCEPT ![dest[p]] = Append(@, hand[p])]
    /\ \/ hand' = [hand EXCEPT ![p] = NoTcp]
       \/ hand[p] \notin {inbox[dest[p]][n] : n \in DOMAIN inbox[dest[p]]} /\ hand' = hand
    /\ UNCHANGED <<ctlVars, pc, sockVars, sockets, runVars, dest, load>>

\* _inbox[i].post(conn)
Post(p) ==
    /\ hand[p] # NoTcp
    /\ inbox' = [inbox EXCEPT ![dest[p]] = Append(@, hand[p])]
    /\ hand' = [hand EXCEPT ![p] = NoTcp]
    /\ UNCHANGED <<ctlVars, pc, sockVars, sockets, runVars, dest, load>>

------------------------------------------------------------------------------
(* The main loop, common to worker_listen and worker_socket. *)

Goto(t, l) == pc' = [pc EXCEPT ![t] = l]

\* poller.init(); when it fails the thread is gone before its first loop.
ThreadInit(t) ==
    /\ pc[t] = "init"
    /\ \/ Goto(t, "loop")
       \/ "init" \in PollerFaults /\ Goto(t, "done")
    /\ UNCHANGED <<ctlVars, sockVars, inbox, sockets, runVars, postVars, load>>

\* Mutant of Loop: a thread with sockets ignores the flag.
Loop_ServesOn(t) ==
    /\ pc[t] = "loop"
    /\ Goto(t, IF runflag[t] \/ sockets[t] # {} THEN "inbox" ELSE "drain")
    /\ UNCHANGED <<ctlVars, sockVars, inbox, sockets, runVars, postVars, load>>

\* Mutant of Loop: the inbox is looked at only by a thread without sockets.
Loop_InboxWhenIdle(t) ==
    /\ pc[t] = "loop"
    /\ Goto(t, IF ~runflag[t] THEN "drain" ELSE IF sockets[t] = {} THEN "inbox" ELSE "poll")
    /\ UNCHANGED <<ctlVars, sockVars, inbox, sockets, runVars, postVars, load>>

\* while (*runflag)
Loop(t) ==
    /\ pc[t] = "loop"
    /\ Goto(t, IF runflag[t] THEN "inbox" ELSE "drain")
    /\ UNCHANGED <<ctlVars, sockVars, inbox, sockets, runVars, postVars, load>>

\* poller.add(): a failure is ignored, the socket is then in no poller.
Register(s, events) ==
    \/ interest' = [interest EXCEPT ![s] = events]
    \/ "add" \in PollerFaults /\ UNCHANGED interest

AdoptListener ==
    /\ pc[0] = "inbox" /\ inbox[0] # <<>>
    /\ LET l == Head(inbox[0]) IN
          /\ inbox' = [inbox EXCEPT ![0] = Tail(@)]
          /\ sockets' = [sockets EXCEPT ![0] = @ \cup {l}]
          /\ Register(l, ReadOnly)
    /\ UNCHANGED <<ctlVars, pc, mem, tcp, runVars, postVars, load>>

AdoptSocket(t) ==
    /\ t # 0 /\ pc[t] = "inbox" /\ inbox[t] # <<>>
    /\ LET c == Head(inbox[t])
           connecting == tcp[c].state = "Connnecting"
       IN /\ inbox' = [inbox EXCEPT ![t] = Tail(@)]
          /\ sockets' = [sockets EXCEPT ![t] = @ \cup {c}]
          /\ tcp' = [tcp EXCEPT ![c].evmask = @ \/ connecting]
          /\ Register(c, IF connecting THEN ReadWrite ELSE ReadOnly)
    /\ UNCHANGED <<ctlVars, pc, mem, runVars, postVars, load>>

Registered(t) == {s \in sockets[t] : interest[s] # {}}

\* The inbox is empty: sleep if the list is, else on to the walk (or, on the
\* listen thread, which has none, straight to the poll).
InboxDone(t) ==
    /\ pc[t] = "inbox" /\ inbox[t] = <<>>
    /\ IF sockets[t] = {} THEN Goto(t, "loop") /\ todo' = todo
       ELSE IF t = 0      THEN Goto(t, "poll") /\ todo' = [todo EXCEPT ![t] = Registered(t)]
       ELSE                    Goto(t, "walk") /\ todo' = [todo EXCEPT ![t] = sockets[t]]
    /\ UNCHANGED <<ctlVars, sockVars, inbox, sockets, cur, ev, cb, postVars, load>>

\* The application's callback f for s begins.
Call(t, f, s) ==
    /\ Goto(t, "call")
    /\ cb' = [cb EXCEPT ![t] = f]
    /\ cur' = [cur EXCEPT ![t] = s]

\* ... and ends.
EndCall(t) ==
    /\ cb' = [cb EXCEPT ![t] = "none"]
    /\ cur' = [cur EXCEPT ![t] = NoTcp]

\* Mutant of Visit: the iterator is not moved off the element.
Visit_Stays(t, c) ==
    /\ pc[t] = "walk" /\ c \in todo[t]
    /\ todo' = todo

Visit(t, c) ==
    /\ pc[t] = "walk" /\ c \in todo[t]
    /\ todo' = [todo EXCEPT ![t] = @ \ {c}]

------------------------------------------------------------------------------
(* worker_socket: the walk over the socket list before each poll. *)

\* Mutant of WalkClosing: the socket is kept until its output is gone.
WalkClosing_AfterFlush(t, c) ==
    /\ Visit(t, c) /\ tcp[c].state = "Closing"
    /\ IF tcp[c].obuf
       THEN UNCHANGED <<tcp, pc, cb, cur>>
       ELSE /\ tcp' = [tcp EXCEPT ![c].state = "Closed"]
            /\ Call(t, "closed", c)
    /\ UNCHANGED <<ctlVars, mem, interest, inbox, sockets, ev, postVars, load>>

\* Mutant of WalkClosing: what is in no poller is left alone.
WalkClosing_OnlyRegistered(t, c) ==
    /\ Visit(t, c) /\ tcp[c].state = "Closing"
    /\ IF interest[c] = {}
       THEN UNCHANGED <<tcp, pc, cb, cur>>
       ELSE /\ tcp' = [tcp EXCEPT ![c].state = "Closed"]
            /\ Call(t, "closed", c)
    /\ UNCHANGED <<ctlVars, mem, interest, inbox, sockets, ev, postVars, load>>

\* A Closing socket becomes Closed and cb_net_closed is told.
WalkClosing(t, c) ==
    /\ Visit(t, c) /\ tcp[c].state = "Closing"
    /\ tcp' = [tcp EXCEPT ![c].state = "Closed"]
    /\ Call(t, "closed", c)
    /\ UNCHANGED <<ctlVars, mem, interest, inbox, sockets, ev, postVars, load>>

\* A Refused socket becomes Closed and cb_net_refused is told.
WalkRefused(t, c) ==
    /\ Visit(t, c) /\ tcp[c].state = "Refused"
    /\ tcp' = [tcp EXCEPT ![c].state = "Closed"]
    /\ Call(t, "refused", c)
    /\ UNCHANGED <<ctlVars, mem, interest, inbox, sockets, ev, postVars, load>>

\* poller.modify(): fails, without effect, on a socket that is not registered.
Modified(s, events) ==
    [interest EXCEPT ![s] = IF @ = {} THEN {} ELSE events]

WalkConnecting(t, c) ==
    /\ Visit(t, c) /\ tcp[c].state = "Connnecting"
    /\ IF tcp[c].evmask THEN UNCHANGED <<tcp, interest>>
       ELSE /\ tcp' = [tcp EXCEPT ![c].evmask = TRUE]
            /\ interest' = Modified(c, ReadWrite)
    /\ UNCHANGED <<ctlVars, pc, mem, inbox, sockets, cur, ev, cb, postVars, load>>

\* Mutant of AdjustInterest: the poller is told, the mask is not kept.
AdjustInterest_NoMask(c) ==
    IF tcp[c].obuf = tcp[c].evmask THEN UNCHANGED <<tcp, interest>>
    ELSE tcp' = tcp /\ interest' = Modified(c, IF tcp[c].obuf THEN ReadWrite ELSE ReadOnly)

\* Mutant of AdjustInterest: write events are dropped but never asked for.
AdjustInterest_OnlyClears(c) ==
    IF tcp[c].obuf \/ ~tcp[c].evmask THEN UNCHANGED <<tcp, interest>>
    ELSE tcp' = [tcp EXCEPT ![c].evmask = FALSE] /\ interest' = Modified(c, ReadOnly)

\* Want write events exactly while there is output.
AdjustInterest(c) ==
    IF tcp[c].obuf = tcp[c].evmask THEN UNCHANGED <<tcp, interest>>
    ELSE /\ tcp' = [tcp EXCEPT ![c].evmask = tcp[c].obuf]
         /\ interest' = Modified(c, IF tcp[c].obuf THEN ReadWrite ELSE ReadOnly)

WalkConnected(t, c) ==
    /\ Visit(t, c) /\ tcp[c].state = "Connected"
    /\ AdjustInterest(c)
    /\ UNCHANGED <<ctlVars, pc, mem, inbox, sockets, cur, ev, cb, postVars, load>>

\* Mutant of WalkTimeout: the state is not looked at.
WalkTimeout_AnyState(t, c) ==
    /\ Timeouts
    /\ Visit(t, c)
    /\ Call(t, "timeout", c)
    /\ UNCHANGED <<ctlVars, sockVars, inbox, sockets, ev, postVars, load>>

\* The socket was idle too long: any connected socket may have been.
WalkTimeout(t, c) ==
    /\ Timeouts
    /\ Visit(t, c) /\ tcp[c].state = "Connected"
    /\ Call(t, "timeout", c)
    /\ UNCHANGED <<ctlVars, sockVars, inbox, sockets, ev, postVars, load>>

WalkDone(t) ==
    /\ pc[t] = "walk" /\ todo[t] = {}
    /\ Goto(t, "poll")
    /\ todo' = [todo EXCEPT ![t] = Registered(t)]
    /\ UNCHANGED <<ctlVars, sockVars, inbox, sockets, cur, ev, cb, postVars, load>>

------------------------------------------------------------------------------
(* The event batch of one poller.poll(). *)

\* A socket that is still connecting becomes writable with its first event,
\* whether the connect succeeded or was refused.
Ready(c, events) ==
    /\ events \in SUBSET interest[c] \ {{}}
    /\ tcp[c].state = "Connnecting" => "W" \in events

\* The handler's entry: straight to io_read, to io_write, or to cb_net_opened.
Event(t, c, events) ==
    /\ t # 0 /\ pc[t] = "poll" /\ c \in todo[t] /\ Ready(c, events)
    /\ todo' = [todo EXCEPT ![t] = @ \ {c}]
    /\ IF "W" \in events /\ tcp[c].state = "Connnecting"
       THEN /\ tcp' = [tcp EXCEPT ![c].state = "Connected"]
            /\ Call(t, "opened", c)
       ELSE /\ Goto(t, IF "W" \in events THEN "write" ELSE "read")
            /\ cur' = [cur EXCEPT ![t] = c]
            /\ UNCHANGED <<tcp, cb>>
    /\ ev' = [ev EXCEPT ![t] = events \ {"W"}]
    /\ UNCHANGED <<ctlVars, mem, interest, inbox, sockets, postVars, load>>

\* What follows the write half of the handler.
AfterWrite(t) ==
    IF "R" \in ev[t]
    THEN Goto(t, "read") /\ UNCHANGED cur
    ELSE Goto(t, "poll") /\ cur' = [cur EXCEPT ![t] = NoTcp]

\* io_write(), then cb_net_sent when nothing is left to send.
WriteEvent(t, drained) ==
    /\ pc[t] = "write"
    /\ tcp' = [tcp EXCEPT ![cur[t]] = IoWrite(@, drained)]
    /\ IF tcp'[cur[t]].obuf
       THEN AfterWrite(t) /\ UNCHANGED cb
       ELSE Call(t, "sent", cur[t])
    /\ UNCHANGED <<ctlVars, mem, interest, inbox, sockets, todo, ev, postVars, load>>

\* io_read(), then cb_net_recv when there is something to receive.
ReadEvent(t, got, disconnected) ==
    /\ pc[t] = "read"
    /\ tcp' = [tcp EXCEPT ![cur[t]] = IoRead(@, got, disconnected)]
    /\ ev' = [ev EXCEPT ![t] = {}]
    /\ IF tcp'[cur[t]].ibuf
       THEN Call(t, "recv", cur[t])
       ELSE Goto(t, "poll") /\ cur' = [cur EXCEPT ![t] = NoTcp] /\ UNCHANGED cb
    /\ UNCHANGED <<ctlVars, mem, interest, inbox, sockets, todo, postVars, load>>

PollDone(t) ==
    /\ pc[t] = "poll"
    /\ Goto(t, "loop")
    /\ todo' = [todo EXCEPT ![t] = {}]
    /\ UNCHANGED <<ctlVars, sockVars, inbox, sockets, cur, ev, cb, postVars, load>>

------------------------------------------------------------------------------
(* worker_listen: accepting. *)

ListenEvent(l) ==
    /\ pc[0] = "poll" /\ l \in todo[0]
    /\ todo' = [todo EXCEPT ![0] = @ \ {l}]
    /\ Goto(0, "accept")
    /\ UNCHANGED <<ctlVars, sockVars, inbox, sockets, cur, ev, cb, postVars, load>>

\* listener->accept() returns a connection.
Accept(c) ==
    /\ pc[0] = "accept" /\ hand[0] = NoTcp
    /\ mem[c] = "fresh"
    /\ mem' = [mem EXCEPT ![c] = "live"]
    /\ tcp' = [tcp EXCEPT ![c] = Accepted(NewTcp)]
    /\ Call(0, "accepted", c)
    /\ UNCHANGED <<ctlVars, interest, inbox, sockets, todo, ev, postVars, load>>

\* ... or nullptr, which ends the loop.
AcceptNone ==
    /\ pc[0] = "accept" /\ hand[0] = NoTcp
    /\ Goto(0, "poll")
    /\ UNCHANGED <<ctlVars, sockVars, inbox, sockets, runVars, postVars, load>>

------------------------------------------------------------------------------
(* Inside a callback: what the application may do before it returns. *)

InCallback(t) == pc[t] = "call" /\ hand[t] = NoTcp

\* The sockets a callback may touch without a lock.
Reach(t) == {cur[t]} \cup (IF "peer" \in CbOps THEN sockets[t] ELSE {})

CbSend(t, s) ==
    /\ "send" \in CbOps
    /\ InCallback(t) /\ s \in Reach(t) \cap Conn /\ ~tcp[s].obuf
    /\ tcp' = [tcp EXCEPT ![s] = Send(@)]
    /\ UNCHANGED <<ctlVars, pc, mem, interest, inbox, sockets, runVars, postVars, load>>

CbRecv(t, s) ==
    /\ "recv" \in CbOps
    /\ InCallback(t) /\ s \in Reach(t) /\ tcp[s].ibuf
    /\ tcp' = [tcp EXCEPT ![s] = Recv(@)]
    /\ UNCHANGED <<ctlVars, pc, mem, interest, inbox, sockets, runVars, postVars, load>>

CbClose(t, s) ==
    /\ "close" \in CbOps
    /\ InCallback(t) /\ s \in Reach(t) /\ tcp[s] # Close(tcp[s])
    /\ tcp' = [tcp EXCEPT ![s] = Close(@)]
    /\ UNCHANGED <<ctlVars, pc, mem, interest, inbox, sockets, runVars, postVars, load>>

CbConnect(t) ==
    /\ "connect" \in CbOps
    /\ InCallback(t)
    /\ \E c \in Conn, immediate \in BOOLEAN, i \in Inbox : Connect(t, c, immediate, i)

------------------------------------------------------------------------------
(* Returns from callbacks, with what the engine does next. *)

Returning(t, fs) == InCallback(t) /\ cb[t] \in fs

\* The callback returned false: the handler closes the socket.
CloseUnless(ok, s) ==
    tcp' = IF ok THEN tcp ELSE [tcp EXCEPT ![s] = Close(@)]

\* Mutant of ReturnFinal: the balancer is not told.
ReturnFinal_NoRelease(t) ==
    /\ Returning(t, {"closed", "refused"})
    /\ LET c == cur[t] IN
          /\ interest' = [interest EXCEPT ![c] = {}]
          /\ mem' = [mem EXCEPT ![c] = "freed"]
          /\ tcp' = [tcp EXCEPT ![c] = NewTcp]
          /\ sockets' = [sockets EXCEPT ![t] = @ \ {c}]
    /\ EndCall(t) /\ Goto(t, "walk")
    /\ UNCHANGED <<ctlVars, inbox, todo, ev, postVars, load>>

\* Mutant of ReturnFinal: deleted, but not erased from the list.
ReturnFinal_NoErase(t) ==
    /\ Returning(t, {"closed", "refused"})
    /\ LET c == cur[t] IN
          /\ load' = [load EXCEPT ![c] = @ - 1]
          /\ interest' = [interest EXCEPT ![c] = {}]
          /\ mem' = [mem EXCEPT ![c] = "freed"]
          /\ tcp' = [tcp EXCEPT ![c] = NewTcp]
    /\ EndCall(t) /\ Goto(t, "walk")
    /\ UNCHANGED <<ctlVars, inbox, sockets, todo, ev, postVars>>

\* Mutant of ReturnFinal: erased from the list, but not deleted.
ReturnFinal_NoDelete(t) ==
    /\ Returning(t, {"closed", "refused"})
    /\ LET c == cur[t] IN
          /\ load' = [load EXCEPT ![c] = @ - 1]
          /\ interest' = [interest EXCEPT ![c] = {}]
          /\ sockets' = [sockets EXCEPT ![t] = @ \ {c}]
    /\ EndCall(t) /\ Goto(t, "walk")
    /\ UNCHANGED <<ctlVars, mem, tcp, inbox, todo, ev, postVars>>

\* cb_net_closed or cb_net_refused returned; the result is ignored.
ReturnFinal(t) ==
    /\ Returning(t, {"closed", "refused"})
    /\ LET c == cur[t] IN
          /\ load' = [load EXCEPT ![c] = @ - 1]
          /\ interest' = [interest EXCEPT ![c] = {}]
          /\ mem' = [mem EXCEPT ![c] = "freed"]
          /\ tcp' = [tcp EXCEPT ![c] = NewTcp]
          /\ sockets' = [sockets EXCEPT ![t] = @ \ {c}]
    /\ EndCall(t) /\ Goto(t, "walk")
    /\ UNCHANGED <<ctlVars, inbox, todo, ev, postVars>>

\* After a timeout the walk adjusts the interest without looking at the state again.
ReturnTimeout(t, ok) ==
    /\ Returning(t, {"timeout"})
    /\ IF ok THEN AdjustInterest(cur[t])
             ELSE CloseUnless(ok, cur[t]) /\ UNCHANGED interest
    /\ EndCall(t) /\ Goto(t, "walk")
    /\ UNCHANGED <<ctlVars, mem, inbox, sockets, todo, ev, postVars, load>>

ReturnOpened(t, ok) ==
    /\ Returning(t, {"opened"})
    /\ CloseUnless(ok, cur[t])
    /\ cb' = [cb EXCEPT ![t] = "none"]
    /\ IF ok THEN Goto(t, "write") /\ UNCHANGED <<cur, ev>>
       ELSE /\ Goto(t, "poll")
            /\ cur' = [cur EXCEPT ![t] = NoTcp]
            /\ ev' = [ev EXCEPT ![t] = {}]
    /\ UNCHANGED <<ctlVars, mem, interest, inbox, sockets, todo, postVars, load>>

ReturnSent(t, ok) ==
    /\ Returning(t, {"sent"})
    /\ CloseUnless(ok, cur[t])
    /\ cb' = [cb EXCEPT ![t] = "none"]
    /\ IF ok THEN AfterWrite(t) /\ UNCHANGED ev
       ELSE /\ Goto(t, "poll")
            /\ cur' = [cur EXCEPT ![t] = NoTcp]
            /\ ev' = [ev EXCEPT ![t] = {}]
    /\ UNCHANGED <<ctlVars, mem, interest, inbox, sockets, todo, postVars, load>>

ReturnRecv(t, ok) ==
    /\ Returning(t, {"recv"})
    /\ CloseUnless(ok, cur[t])
    /\ EndCall(t) /\ Goto(t, "poll")
    /\ UNCHANGED <<ctlVars, mem, interest, inbox, sockets, todo, ev, postVars, load>>

\* Mutant of ReturnAccepted: a connection the callback turned down is not counted.
ReturnAccepted_CountsKept(ok, i) ==
    /\ Returning(0, {"accepted"})
    /\ i \in 1 .. lb
    /\ CloseUnless(ok, cur[0])
    /\ load' = [load EXCEPT ![cur[0]] = IF ok THEN @ + 1 ELSE @]
    /\ hand' = [hand EXCEPT ![0] = cur[0]]
    /\ dest' = [dest EXCEPT ![0] = i]
    /\ EndCall(0) /\ Goto(0, "accept")
    /\ UNCHANGED <<ctlVars, mem, interest, inbox, sockets, todo, ev>>

\* The accepted connection goes to a worker, refused by the callback or not.
ReturnAccepted(ok, i) ==
    /\ Returning(0, {"accepted"})
    /\ i \in 1 .. lb
    /\ CloseUnless(ok, cur[0])
    /\ load' = [load EXCEPT ![cur[0]] = @ + 1]
    /\ hand' = [hand EXCEPT ![0] = cur[0]]
    /\ dest' = [dest EXCEPT ![0] = i]
    /\ EndCall(0) /\ Goto(0, "accept")
    /\ UNCHANGED <<ctlVars, mem, interest, inbox, sockets, todo, ev>>

Return(t) ==
    \/ ReturnFinal(t)
    \/ \E ok \in BOOLEAN :
          \/ ReturnTimeout(t, ok) \/ ReturnOpened(t, ok)
          \/ ReturnSent(t, ok)    \/ ReturnRecv(t, ok)
          \/ t = 0 /\ \E i \in Inbox : ReturnAccepted(ok, i)

------------------------------------------------------------------------------
(* After the loop. *)

\* "Kill unprocessed sockets"
DrainInbox(t) ==
    /\ pc[t] = "drain" /\ inbox[t] # <<>>
    /\ LET s == Head(inbox[t]) IN
          /\ inbox' = [inbox EXCEPT ![t] = Tail(@)]
          /\ mem' = [mem EXCEPT ![s] = "freed"]
          /\ tcp' = [tcp EXCEPT ![s] = NewTcp]
    /\ UNCHANGED <<ctlVars, pc, interest, sockets, runVars, postVars, load>>

\* "Kill managed sockets"; the poller goes with the stack frame.
KillSockets(t) ==
    /\ pc[t] = "drain" /\ inbox[t] = <<>>
    /\ mem' = [s \in Tcps |-> IF s \in sockets[t] THEN "freed" ELSE mem[s]]
    /\ tcp' = [s \in Tcps |-> IF s \in sockets[t] THEN NewTcp ELSE tcp[s]]
    /\ interest' = [s \in Tcps |-> IF s \in sockets[t] THEN {} ELSE interest[s]]
    /\ sockets' = [sockets EXCEPT ![t] = {}]
    /\ Goto(t, "done")
    /\ UNCHANGED <<ctlVars, inbox, runVars, postVars, load>>

------------------------------------------------------------------------------

Walk(t) ==
    \/ \E c \in todo[t] : \/ WalkClosing(t, c)   \/ WalkRefused(t, c)
                          \/ WalkConnecting(t, c) \/ WalkConnected(t, c)
                          \/ WalkTimeout(t, c)
    \/ WalkDone(t)

Handle(t) ==
    \/ \E drained \in BOOLEAN : WriteEvent(t, drained)
    \/ \E got, disconnected \in BOOLEAN : ReadEvent(t, got, disconnected)

Poll(t) ==
    \/ \E c \in todo[t], events \in SUBSET ReadWrite : Event(t, c, events)
    \/ Handle(t)
    \/ t = 0 /\ \E l \in todo[0] : ListenEvent(l)
    \/ t = 0 /\ \E c \in Conn : Accept(c)
    \/ t = 0 /\ AcceptNone
    \/ PollDone(t)

\* A step of the engine's own code on thread t.
ThreadStep(t) ==
    \/ ThreadInit(t) \/ Loop(t)
    \/ t = 0 /\ AdoptListener
    \/ AdoptSocket(t) \/ InboxDone(t)
    \/ Walk(t) \/ Poll(t)
    \/ DrainInbox(t) \/ KillSockets(t)

\* A step of the application inside a callback, other than returning.
CallbackStep(t) ==
    \/ \E s \in Tcps : CbSend(t, s) \/ CbRecv(t, s) \/ CbClose(t, s)
    \/ CbConnect(t)

\* A step of a start() or stop() that is under way.
ControlStep == StartThread \/ ClearFlag \/ Join

AppStep(a) == AppListen(a) \/ AppConnect(a)

\* Nothing is left to do: the engine is stopped and start() may not be called again.
Rest ==
    /\ eng = "stopped" /\ starts = MaxStarts
    /\ UNCHANGED vars

Next ==
    \/ Rest
    \/ \E n \in Sizes : Start(n) \/ StartFails(n)
    \/ Stop
    \/ ControlStep
    \/ \E a \in App : AppStep(a)
    \/ \E p \in Poster : Post(p)
    \/ \E t \in Thread : ThreadStep(t) \/ CallbackStep(t) \/ Return(t)

Spec == Init /\ [][Next]_vars

\* The operating system schedules every thread, a mutex is granted in the end,
\* and callbacks return.  Nothing says that anybody calls start(), stop(),
\* listen() or connect(), or that a peer ever acts.
Fairness ==
    /\ WF_vars(ControlStep)
    /\ \A t \in Thread : WF_vars(ThreadStep(t)) /\ WF_vars(Return(t))
    /\ \A p \in Poster : WF_vars(Post(p))

FairSpec == Spec /\ Fairness

------------------------------------------------------------------------------
(* Safety *)

\* The ways in which the engine holds a pointer to s: in an inbox, in the list of
\* a thread, in the hand of a thread about to post it, or - on the listen thread -
\* as the accepted socket cb_net_accepted is running for.
InInbox(i, s)   == \E n \in DOMAIN inbox[i] : inbox[i][n] = s
InList(t, s)    == s \in sockets[t]
InHand(p, s)    == hand[p] = s
Accepting(t, s) == cb[t] = "accepted" /\ cur[t] = s

Held(s) ==
    \/ \E i \in Inbox : InInbox(i, s)
    \/ \E t \in Thread : InList(t, s) \/ Accepting(t, s)
    \/ \E p \in Poster : InHand(p, s)

InboxOwns(i, s) ==
    /\ \A j \in Inbox : InInbox(j, s) => j = i
    /\ \A t \in Thread : ~InList(t, s) /\ ~Accepting(t, s)
    /\ \A p \in Poster : ~InHand(p, s)

ListOwns(t, s) ==
    /\ \A u \in Thread : (InList(u, s) => u = t) /\ ~Accepting(u, s)
    /\ \A p \in Poster : ~InHand(p, s)

HandOwns(p, s) ==
    /\ \A q \in Poster : InHand(q, s) => q = p
    /\ \A t \in Thread : ~Accepting(t, s)

\* s is in exactly one place while it is allocated, and in none before and after.
Owned(s) ==
    /\ mem[s] = "live" <=> Held(s)
    /\ \A i \in Inbox : InInbox(i, s) => InboxOwns(i, s)
    /\ \A t \in Thread : InList(t, s) => ListOwns(t, s)
    /\ \A p \in Poster : InHand(p, s) => HandOwns(p, s)

NoneTwice ==
    \A i \in Inbox : \A m, n \in DOMAIN inbox[i] : inbox[i][m] = inbox[i][n] => m = n

\* The engine shares Tcp objects between threads without a lock; what makes
\* that correct is that a pointer is in exactly one place, once, while the object
\* is allocated, and in none before and after.
SingleOwner == NoneTwice /\ \A s \in Tcps : Owned(s)

\* What a thread is about to dereference - the rest of the walk, the rest of the
\* event batch, the socket a callback or an io routine runs for - is in its own
\* list (or is the socket being accepted), although callbacks close sockets and
\* the walk deletes them; and the socket in hand is not visited again.
NoDanglingUse ==
    \A t \in Thread :
        /\ todo[t] \subseteq sockets[t] \ {cur[t]}
        /\ cur[t] # NoTcp => InList(t, cur[t]) \/ Accepting(t, cur[t])

\* retain() and release() pair up: a connection on its way to a worker or owned
\* by one counts once in the balancer, and never less than nothing or twice.
LoadBalanced ==
    \A c \in Conn :
        /\ load[c] \in {0, 1}
        /\ mem[c] = "live" => load[c] = IF \E t \in Thread : Accepting(t, c) THEN 0 ELSE 1
        /\ mem[c] = "fresh" => load[c] = 0

\* The steps of a thread follow one another as its program counter says: a
\* callback runs exactly where one was called, only the listen thread accepts,
\* only workers walk and handle events, and nothing is left over after a loop.
ThreadOK ==
    \A t \in Thread :
        /\ pc[t] = "call" <=> cb[t] # "none"
        /\ pc[t] \in {"call", "write", "read"} <=> cur[t] # NoTcp
        /\ cb[t] = "accepted" <=> t = 0 /\ pc[t] = "call"
        /\ pc[t] = "accept" => t = 0
        /\ pc[t] \in {"walk", "write", "read"} => t # 0
        /\ todo[t] # {} => pc[t] \in {"walk", "poll", "accept", "call", "write", "read"}
        /\ sockets[t] # {} => pc[t] \notin {"idle", "init", "done"}

\* The loops of start() and stop() stay within the threads of this start, and
\* no other thread exists.
ControlOK ==
    /\ eng \in {"starting", "clearing", "joining"} => at < nthreads
    /\ eng \in {"running", "stopped"} => at = 0
    /\ eng = "running" => nthreads > 0
    /\ \A t \in Thread :
          \/ eng = "stopped" \/ t >= nthreads
          \/ eng = "starting" /\ t >= at
          \/ eng = "joining" /\ t < at
          => pc[t] = "idle"

\* _evmask mirrors what the poller was last told, over every path of the
\* worker: the two are kept by hand in four places.
MaskMirrorsPoller ==
    \A t \in Thread \ {0} : \A c \in Registered(t) :
        tcp[c].evmask <=> "W" \in interest[c]

------------------------------------------------------------------------------
(* Action properties *)

\* Once in the list of a worker a connection is never handed to another thread:
\* it leaves the list only to be deleted.
StaysHome ==
    [][\A t \in Thread : \A s \in sockets[t] :
          s \in sockets'[t] \/ mem'[s] = "freed"]_vars

\* A connection that is deleted while its thread serves is released: only the
\* thread that has it deletes one the balancer still counts, and only when told to
\* stop (netengine.cpp, "Kill unprocessed sockets", "Kill managed sockets").
ReleasedAtEnd ==
    [][\A c \in Conn : mem[c] = "live" /\ mem'[c] = "freed" =>
          load'[c] = 0 \/ \E t \in Thread : /\ pc[t] = "drain" /\ ~runflag[t]
                                            /\ InList(t, c) \/ InInbox(t, c)]_vars

\* netengine.h:27, start() returns "true on success, false on fail with no
\* side-effect": whatever calls of start() were turned down, a connection is placed
\* on a thread that exists.
PlacedOnRunningThread ==
    [][\A p \in Poster :
          eng = "running" /\ hand[p] = NoTcp /\ hand'[p] \in Conn => dest'[p] < nthreads]_vars

------------------------------------------------------------------------------
(* What the code says of itself and does not keep *)

\* netengine.cpp:116 and :239, "Kill unprocessed sockets": when stop() has
\* returned, the threads have deleted every connection they had or were sent.
\* A connection that the listen thread accepts late is posted to a worker that
\* has already emptied its inbox for the last time.
UnprocessedAreKilled ==
    eng = "stopped" => \A c \in Conn : mem[c] # "live"

------------------------------------------------------------------------------
(* Liveness, under Fairness *)

\* A closed connection does not linger: however it came to be Closing or Refused,
\* its worker reports it and deletes it, or stop() does.
ClosedIsReaped ==
    \A c \in Conn :
        (\E t \in Thread : c \in sockets[t] /\ tcp[c].state \in {"Closing", "Refused"})
            ~> mem[c] = "freed"

\* A connection posted to a worker is served, unless the engine stops first.
PostedIsAdopted ==
    \A c \in Conn :
        (\E i \in Inbox : InInbox(i, c) /\ i < nthreads)
            ~> ((\E t \in Thread : c \in sockets[t]) \/ eng # "running")

\* stop() returns: every thread notices its flag, whatever it is doing.
StopReturns == eng = "clearing" ~> eng = "stopped"

\* An open connection with output gets its write event requested, and one without
\* output stops asking for it (the worker would spin), even if the output was
\* queued by another socket's callback after the walk had passed.
InterestFollowsOutput ==
    \A c \in Conn :
        (c \in UNION {Registered(t) : t \in Thread} /\ tcp[c].state = "Connected")
            ~> ((tcp[c].obuf <=> "W" \in interest[c]) \/ tcp[c].state # "Connected")
==============================================================================
