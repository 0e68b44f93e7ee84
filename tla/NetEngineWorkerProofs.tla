------------------------ MODULE NetEngineWorkerProofs ------------------------
(***************************************************************************)
(* What becomes of a connection once a worker has it, proved for any        *)
(* number of connections and threads on top of the invariant IInv of        *)
(* NetEngineProofs: it stays in its list until it is deleted, the load      *)
(* balancer counts it exactly once meanwhile, and its write mask is what    *)
(* the poller was told.                                                     *)
(***************************************************************************)
EXTENDS NetEngineProofs

------------------------------------------------------------------------------
(* Deleting.  Three actions free an object, and two of them are the only ones   *)
(* that take sockets out of a list.                                             *)

Deletes(t) == ReturnFinal(t) \/ DrainInbox(t) \/ KillSockets(t)

\* A step that deletes nothing.
Keeps ==
    /\ \A s \in Tcps : mem'[s] = "freed" => mem[s] = "freed"
    /\ \A t \in Thread : sockets[t] \subseteq sockets'[t]

LEMMA ConnectKeeps ==
    ASSUME TypeOK, NEW p, NEW c, NEW x, NEW i, Connect(p, c, x, i)
    PROVE  Keeps
<1>1. c \in Tcps /\ mem' = [mem EXCEPT ![c] = "live"] /\ sockets' = sockets
  BY DEF Connect, Tcps
<1>2. QED
  BY <1>1 DEF TypeOK, Keeps

LEMMA ThreadKeeps ==
    ASSUME TypeOK, NEW t \in Thread,
           ThreadStep(t) \/ CallbackStep(t) \/ Return(t), ~Deletes(t)
    PROVE  Keeps
<1> USE DEF sockVars, Deletes
<1>0. UNCHANGED <<mem, sockets>> => Keeps
  BY DEF Keeps
<1>1. CASE ThreadInit(t) \/ Loop(t) \/ InboxDone(t)
  BY <1>0, <1>1 DEF ThreadInit, Loop, InboxDone
<1>2. CASE (t = 0 /\ AdoptListener) \/ AdoptSocket(t)
  <2>1. mem' = mem /\ \E x : sockets' = [sockets EXCEPT ![t] = @ \cup {x}]
    BY <1>2 DEF AdoptListener, AdoptSocket
  <2>2. QED
    BY <2>1 DEF TypeOK, Keeps
<1>3. CASE Walk(t)
  BY <1>0, <1>3 DEF Walk, WalkClosing, WalkRefused, WalkConnecting, WalkConnected,
                    WalkTimeout, WalkDone
<1>4. CASE Poll(t)
  <2>1. ASSUME t = 0, NEW c \in Conn, Accept(c) PROVE Keeps
    <3>1. c \in Tcps /\ mem' = [mem EXCEPT ![c] = "live"] /\ sockets' = sockets
      BY <2>1 DEF Accept, Tcps
    <3>2. QED
      BY <3>1 DEF TypeOK, Keeps
  <2>2. QED
    BY <1>0, <1>4, <2>1
    DEF Poll, Handle, Event, WriteEvent, ReadEvent, ListenEvent, AcceptNone, PollDone
<1>5. CASE CallbackStep(t)
  BY <1>0, <1>5, ConnectKeeps DEF CallbackStep, CbSend, CbRecv, CbClose, CbConnect
<1>6. CASE Return(t)
  BY <1>0, <1>6 DEF Return, ReturnTimeout, ReturnOpened, ReturnSent, ReturnRecv, ReturnAccepted
<1>7. QED
  BY <1>1, <1>2, <1>3, <1>4, <1>5, <1>6 DEF ThreadStep

LEMMA OnlyDeletes ==
    ASSUME TypeOK, [Next]_vars, \A t \in Thread : ~Deletes(t)
    PROVE  Keeps
<1> USE DEF sockVars
<1>0. UNCHANGED <<mem, sockets>> => Keeps
  BY DEF Keeps
<1>1. CASE \/ UNCHANGED vars
           \/ Rest
           \/ \E n \in Sizes : Start(n) \/ StartFails(n)
           \/ Stop
           \/ ControlStep
           \/ \E p \in Poster : Post(p)
  BY <1>0, <1>1 DEF vars, Rest, Start, StartFails, Stop, ControlStep, StartThread, ClearFlag,
                    Join, Post
<1>2. ASSUME NEW a \in App, AppListen(a) PROVE Keeps
  <2>1. \E l \in Tcps : mem' = [mem EXCEPT ![l] = "live"] /\ sockets' = sockets
    BY <1>2 DEF AppListen, Tcps
  <2>2. QED
    BY <2>1 DEF TypeOK, Keeps
<1>3. ASSUME NEW a \in App, AppConnect(a) PROVE Keeps
  BY <1>3, ConnectKeeps DEF AppConnect
<1>4. ASSUME NEW t \in Thread, ThreadStep(t) \/ CallbackStep(t) \/ Return(t) PROVE Keeps
  BY <1>4, ThreadKeeps
<1>5. QED
  BY <1>1, <1>2, <1>3, <1>4 DEF Next, AppStep

\* The socket whose last callback returns is in the list of its thread, alive.
LEMMA FinalSocket ==
    ASSUME TypeOK, ThreadOK, SingleOwner, NoDanglingUse, NEW t \in Thread, ReturnFinal(t)
    PROVE  /\ cur[t] \in Tcps /\ cur[t] \in sockets[t] /\ mem[cur[t]] = "live"
           /\ \A u \in Thread : ~Accepting(u, cur[t])
           /\ \A u \in Thread \ {t} : cur[t] \notin sockets[u]
<1>1. cb[t] \in {"closed", "refused"} /\ pc[t] = "call"
  BY DEF ReturnFinal, Returning, InCallback
<1>2. cur[t] \in sockets[t] /\ cur[t] \in Tcps
  BY <1>1 DEF TypeOK, ThreadOK, NoDanglingUse, InList, Accepting
<1>3. Owned(cur[t]) /\ InList(t, cur[t])
  BY <1>2 DEF SingleOwner, InList
<1>4. ListOwns(t, cur[t]) /\ mem[cur[t]] = "live"
  BY <1>3, OwnedElsewhere
<1>5. QED
  BY <1>2, <1>4 DEF ListOwns, InList

------------------------------------------------------------------------------
\* Once in the list of a worker a connection leaves it only to be deleted
\* (worker_socket erases what it deletes, and nothing else).
THEOREM StaysHomeAlways == Spec => StaysHome
<1> DEFINE Home == \A t \in Thread : \A s \in sockets[t] :
                      s \in sockets'[t] \/ mem'[s] = "freed"
<1>1. IInv /\ [Next]_vars => [Home]_vars
  <2> SUFFICES ASSUME IInv, [Next]_vars PROVE Home
    OBVIOUS
  <2>1. TypeOK /\ ThreadOK /\ SingleOwner /\ NoDanglingUse
    BY DEF IInv
  <2>2. CASE \A t \in Thread : ~Deletes(t)
    BY <2>1, <2>2, OnlyDeletes DEF Keeps
  <2>3. ASSUME NEW t \in Thread, ReturnFinal(t) PROVE Home
    <3>1. /\ cur[t] \in Tcps
          /\ mem' = [mem EXCEPT ![cur[t]] = "freed"]
          /\ sockets' = [sockets EXCEPT ![t] = @ \ {cur[t]}]
      BY <2>1, <2>3, FinalSocket DEF ReturnFinal
    <3>2. QED
      BY <2>1, <3>1 DEF TypeOK
  <2>4. ASSUME NEW t \in Thread, DrainInbox(t) PROVE Home
    BY <2>4 DEF DrainInbox
  <2>5. ASSUME NEW t \in Thread, KillSockets(t) PROVE Home
    <3>1. /\ \A s \in sockets[t] : mem'[s] = "freed"
          /\ \A u \in Thread \ {t} : sockets'[u] = sockets[u]
      BY <2>1, <2>5 DEF TypeOK, KillSockets
    <3>2. QED
      BY <3>1
  <2>6. QED
    BY <2>2, <2>3, <2>4, <2>5 DEF Deletes
<1>2. QED
  BY <1>1, IInvAlways, PTL DEF Spec, StaysHome

------------------------------------------------------------------------------
(* Counting.  LoadBalanced is inductive once SingleOwner is known: retain() is   *)
(* called where a connection stops being fresh or accepting, release() where a  *)
(* socket of a list is deleted.                                                 *)

\* Nothing that is counted, and nothing that counts, changes.
LEMMA SameLoad ==
    ASSUME LoadBalanced, UNCHANGED load,
           \A c \in Conn : mem'[c] = mem[c] \/ mem'[c] = "freed",
           \A t \in Thread : \A c \in Tcps : Accepting(t, c)' <=> Accepting(t, c)
    PROVE  LoadBalanced'
BY DEF LoadBalanced, Tcps

LEMMA ConnectLoad ==
    ASSUME TypeOK, SingleOwner, LoadBalanced, NEW p, NEW c, NEW x, NEW i, Connect(p, c, x, i)
    PROVE  LoadBalanced'
<1>1. /\ c \in Conn /\ c \in Tcps /\ mem[c] = "fresh"
      /\ mem' = [mem EXCEPT ![c] = "live"]
      /\ load' = [load EXCEPT ![c] = @ + 1]
      /\ UNCHANGED <<cb, cur>>
  BY DEF Connect, runVars, Tcps
<1>2. \A t \in Thread : ~Accepting(t, c)
  BY <1>1, OwnedElsewhere DEF SingleOwner, Held
<1>3. mem'[c] = "live" /\ load'[c] = 1
  BY <1>1 DEF TypeOK, LoadBalanced
<1>4. \A d \in Conn \ {c} : mem'[d] = mem[d] /\ load'[d] = load[d]
  BY <1>1 DEF TypeOK, Tcps
<1>5. \A t \in Thread : \A d \in Conn : Accepting(t, d)' <=> Accepting(t, d)
  BY <1>1 DEF Accepting
<1>6. QED
  BY <1>2, <1>3, <1>4, <1>5 DEF LoadBalanced

LEMMA AcceptLoad ==
    ASSUME TypeOK, ThreadOK, LoadBalanced, 0 \in Thread, NEW c \in Conn, Accept(c)
    PROVE  LoadBalanced'
<1>1. /\ c \in Tcps /\ mem[c] = "fresh"
      /\ mem' = [mem EXCEPT ![c] = "live"]
      /\ cb' = [cb EXCEPT ![0] = "accepted"] /\ cur' = [cur EXCEPT ![0] = c]
      /\ UNCHANGED load
  BY DEF Accept, Call, Tcps
<1>2. \A d \in Conn : ~Accepting(0, d)
  BY DEF ThreadOK, Accept, Accepting
<1>3. mem'[c] = "live" /\ load'[c] = 0 /\ Accepting(0, c)'
  BY <1>1 DEF TypeOK, LoadBalanced, Accepting
<1>4. \A d \in Conn \ {c} : /\ mem'[d] = mem[d] /\ load'[d] = load[d]
                            /\ \A t \in Thread : Accepting(t, d)' <=> Accepting(t, d)
  BY <1>1, <1>2 DEF TypeOK, Tcps, Accepting
<1>5. QED
  BY <1>3, <1>4 DEF LoadBalanced

LEMMA AcceptedLoad ==
    ASSUME TypeOK, ThreadOK, SingleOwner, NoDanglingUse, LoadBalanced, 0 \in Thread,
           NEW ok, NEW i, ReturnAccepted(ok, i)
    PROVE  LoadBalanced'
<1>1. /\ cb[0] = "accepted" /\ pc[0] = "call"
      /\ cb' = [cb EXCEPT ![0] = "none"]
      /\ load' = [load EXCEPT ![cur[0]] = @ + 1]
      /\ mem' = mem
      /\ \A u \in Thread \ {0} : cb'[u] = cb[u] /\ cur'[u] = cur[u]
  BY DEF ReturnAccepted, Returning, InCallback, EndCall, TypeOK
<1>2. \A d \in Conn : ~Accepting(0, d)' /\ (Accepting(0, d) <=> d = cur[0])
  BY <1>1 DEF TypeOK, Accepting
<1>3. \A t \in Thread \ {0} : \A d \in Conn : ~Accepting(t, d) /\ ~Accepting(t, d)'
  BY <1>1 DEF ThreadOK, Accepting
<1>4. \A d \in Conn : load[d] \in Int
                      /\ load'[d] = IF d = cur[0] THEN load[d] + 1 ELSE load[d]
  BY <1>1 DEF TypeOK
<1>5. \A d \in Conn : d = cur[0] => mem[d] = "live"
  BY <1>1, <1>2, OwnedElsewhere DEF SingleOwner, Tcps
<1>6. QED
  BY <1>1, <1>2, <1>3, <1>4, <1>5 DEF LoadBalanced

LEMMA FinalLoad ==
    ASSUME TypeOK, ThreadOK, SingleOwner, NoDanglingUse, LoadBalanced, NEW t \in Thread,
           ReturnFinal(t)
    PROVE  /\ LoadBalanced'
           /\ cur[t] \in Conn => load'[cur[t]] = 0
<1>1. /\ cur[t] \in Tcps /\ mem[cur[t]] = "live"
      /\ \A u \in Thread : ~Accepting(u, cur[t])
  BY FinalSocket
<1>2. /\ load' = [load EXCEPT ![cur[t]] = @ - 1]
      /\ mem' = [mem EXCEPT ![cur[t]] = "freed"]
      /\ cb[t] # "accepted" /\ cb'[t] # "accepted"
      /\ \A u \in Thread \ {t} : cb'[u] = cb[u] /\ cur'[u] = cur[u]
  BY DEF ReturnFinal, Returning, EndCall, TypeOK
<1>3. \A u \in Thread : \A s \in Tcps : Accepting(u, s)' <=> Accepting(u, s)
  BY <1>2, StillAccepting
<1>4. \A d \in Conn : /\ load[d] \in Int
                      /\ d = cur[t] => load[d] = 1 /\ load'[d] = 0 /\ mem'[d] = "freed"
                      /\ d # cur[t] => load'[d] = load[d] /\ mem'[d] = mem[d]
  BY <1>1, <1>2 DEF TypeOK, LoadBalanced, Tcps
<1>5. QED
  BY <1>3, <1>4 DEF LoadBalanced, Tcps

\* Steps in which no socket starts or ends being accepted.
LEMMA QuietLoad ==
    ASSUME TypeOK, ThreadOK, LoadBalanced, NEW t \in Thread,
           \/ ThreadInit(t) \/ Loop(t) \/ InboxDone(t)
           \/ (t = 0 /\ AdoptListener) \/ AdoptSocket(t) \/ DrainInbox(t) \/ KillSockets(t)
           \/ Walk(t)
           \/ \E c \in todo[t], events \in SUBSET ReadWrite : Event(t, c, events)
           \/ Handle(t) \/ PollDone(t)
           \/ (t = 0 /\ \E l \in todo[0] : ListenEvent(l)) \/ (t = 0 /\ AcceptNone)
           \/ \E s \in Tcps : CbSend(t, s) \/ CbRecv(t, s) \/ CbClose(t, s)
           \/ \E ok \in BOOLEAN : \/ ReturnTimeout(t, ok) \/ ReturnOpened(t, ok)
                                 \/ ReturnSent(t, ok) \/ ReturnRecv(t, ok)
    PROVE  LoadBalanced'
<1> USE DEF sockVars, runVars
<1>1. CASE \/ ThreadInit(t) \/ Loop(t) \/ InboxDone(t)
           \/ WalkDone(t) \/ PollDone(t)
           \/ \E c \in todo[t] : WalkConnecting(t, c) \/ WalkConnected(t, c)
           \/ (t = 0 /\ AdoptListener) \/ AdoptSocket(t)
           \/ (t = 0 /\ \E l \in todo[0] : ListenEvent(l)) \/ (t = 0 /\ AcceptNone)
           \/ \E s \in Tcps : CbSend(t, s) \/ CbRecv(t, s) \/ CbClose(t, s)
  <2>1. UNCHANGED <<mem, load, cb, cur>>
    BY <1>1 DEF ThreadInit, Loop, InboxDone, WalkDone, PollDone, WalkConnecting, WalkConnected,
                AdoptListener, AdoptSocket, ListenEvent, AcceptNone, CbSend, CbRecv, CbClose
  <2>2. QED
    BY <2>1, SameLoad DEF Accepting
<1>2. CASE DrainInbox(t) \/ KillSockets(t)
  <2>1. UNCHANGED <<load, cb, cur>>
    BY <1>2 DEF DrainInbox, KillSockets
  <2>2. \A c \in Conn : mem'[c] = mem[c] \/ mem'[c] = "freed"
    <3>1. \E S : \A s \in Tcps : mem'[s] = IF s \in S THEN "freed" ELSE mem[s]
      <4>1. CASE DrainInbox(t)
        <5>1. \A s \in Tcps : mem'[s] = IF s \in {Head(inbox[t])} THEN "freed" ELSE mem[s]
          BY <4>1 DEF DrainInbox, TypeOK
        <5>2. QED
          BY <5>1
      <4>2. CASE KillSockets(t)
        BY <4>2 DEF KillSockets
      <4>3. QED
        BY <1>2, <4>1, <4>2
    <3>2. QED
      BY <3>1 DEF Tcps
  <2>3. QED
    BY <2>1, <2>2, SameLoad DEF Accepting
<1>3. CASE \/ \E c \in todo[t] : WalkClosing(t, c) \/ WalkRefused(t, c) \/ WalkTimeout(t, c)
           \/ \E c \in todo[t], events \in SUBSET ReadWrite : Event(t, c, events)
           \/ Handle(t)
           \/ \E ok \in BOOLEAN : \/ ReturnTimeout(t, ok) \/ ReturnOpened(t, ok)
                                 \/ ReturnSent(t, ok) \/ ReturnRecv(t, ok)
  <2> USE DEF postVars, Call, EndCall, Visit, Returning, InCallback
  <2>1. cb[t] # "accepted" /\ UNCHANGED <<mem, load>>
    BY <1>3 DEF ThreadOK, WalkClosing, WalkRefused, WalkTimeout, Event, Handle, WriteEvent,
                ReadEvent, ReturnTimeout, ReturnOpened, ReturnSent, ReturnRecv
  <2>2. /\ cb' = cb \/ \E f \in {"closed", "refused", "timeout", "opened", "sent", "recv", "none"} :
                          cb' = [cb EXCEPT ![t] = f]
        /\ cur' = cur \/ \E x : cur' = [cur EXCEPT ![t] = x]
    BY <1>3 DEF WalkClosing, WalkRefused, WalkTimeout, Event, Handle, WriteEvent, ReadEvent,
                AfterWrite, ReturnTimeout, ReturnOpened, ReturnSent, ReturnRecv
  <2>3. cb'[t] # "accepted" /\ \A u \in Thread \ {t} : cb'[u] = cb[u] /\ cur'[u] = cur[u]
    BY <2>1, <2>2 DEF TypeOK
  <2>4. QED
    BY <2>1, <2>3, StillAccepting, SameLoad
<1>4. QED
  BY <1>1, <1>2, <1>3 DEF Walk

LEMMA LoadBalancedStep ==
    IInv /\ LoadBalanced /\ [Next]_vars => LoadBalanced'
<1> SUFFICES ASSUME TypeOK, ThreadOK, SingleOwner, NoDanglingUse, LoadBalanced, [Next]_vars
             PROVE  LoadBalanced'
  BY DEF IInv
<1> USE DEF sockVars, runVars
<1>0. 0 \in Thread
  BY EngineAssumption DEF Thread
<1>1. CASE \/ UNCHANGED vars
           \/ Rest
           \/ \E n \in Sizes : Start(n) \/ StartFails(n)
           \/ Stop
           \/ ControlStep
           \/ \E p \in Poster : Post(p)
  <2>1. UNCHANGED <<mem, load, cb, cur>>
    BY <1>1 DEF vars, Rest, Start, StartFails, Stop, ControlStep, StartThread, ClearFlag,
                Join, Post
  <2>2. QED
    BY <2>1, SameLoad DEF Accepting
<1>2. ASSUME NEW a \in App, AppListen(a) PROVE LoadBalanced'
  <2>1. UNCHANGED <<load, cb, cur>> /\ \E l \in Listener : mem' = [mem EXCEPT ![l] = "live"]
    BY <1>2 DEF AppListen
  <2>2. \A c \in Conn : mem'[c] = mem[c]
    BY <2>1, EngineAssumption DEF TypeOK, Tcps
  <2>3. QED
    BY <2>1, <2>2, SameLoad DEF Accepting
<1>3. ASSUME NEW a \in App, AppConnect(a) PROVE LoadBalanced'
  BY <1>3, ConnectLoad DEF AppConnect
<1>4. ASSUME NEW t \in Thread, CbConnect(t) PROVE LoadBalanced'
  BY <1>4, ConnectLoad DEF CbConnect
<1>5. ASSUME NEW t \in Thread, ThreadStep(t) PROVE LoadBalanced'
  BY <1>0, <1>5, QuietLoad, AcceptLoad DEF ThreadStep, Poll
<1>6. ASSUME NEW t \in Thread, CallbackStep(t) PROVE LoadBalanced'
  BY <1>4, <1>6, QuietLoad DEF CallbackStep
<1>7. ASSUME NEW t \in Thread, Return(t) PROVE LoadBalanced'
  BY <1>0, <1>7, QuietLoad, FinalLoad, AcceptedLoad DEF Return
<1>8. QED
  BY <1>1, <1>2, <1>3, <1>5, <1>6, <1>7 DEF Next, AppStep

\* retain() and release() pair up: the balancer counts a connection on its way to
\* a worker, or owned by one, exactly once.
THEOREM LoadBalancedAlways == Spec => []LoadBalanced
<1>1. Init => LoadBalanced
  BY DEF Init, LoadBalanced, Tcps
<1>2. QED
  BY <1>1, IInvAlways, LoadBalancedStep, PTL DEF Spec

\* A thread empties its inbox and its list only after it saw its flag cleared.
DrainsStopped == \A t \in Thread : pc[t] = "drain" => ~runflag[t]

LEMMA DrainsStoppedStep ==
    TypeOK /\ DrainsStopped /\ [Next]_vars => DrainsStopped'
<1> SUFFICES ASSUME TypeOK, DrainsStopped, [Next]_vars PROVE DrainsStopped'
  OBVIOUS
<1> USE DEF ctlVars, sockVars, runVars, TypeOK, DrainsStopped, Goto
<1>1. CASE UNCHANGED <<pc, runflag>>
  BY <1>1
<1>2. CASE StartThread
  BY <1>2 DEF StartThread
<1>3. CASE ClearFlag
  BY <1>3 DEF ClearFlag
<1>4. CASE Join
  BY <1>4 DEF Join
<1>5. ASSUME NEW t \in Thread, Loop(t) PROVE DrainsStopped'
  BY <1>5 DEF Loop
<1>6. ASSUME NEW t \in Thread, NEW l, l # "drain", runflag' = runflag,
             pc' = [pc EXCEPT ![t] = l]
      PROVE  DrainsStopped'
  BY <1>6
<1>7. ASSUME NEW t \in Thread, ThreadStep(t) PROVE DrainsStopped'
  <2>1. Loop(t) \/ /\ runflag' = runflag
                   /\ pc' = pc \/ \E l : l # "drain" /\ pc' = [pc EXCEPT ![t] = l]
    <3>1. CASE ThreadInit(t) \/ Loop(t) \/ (t = 0 /\ AdoptListener) \/ AdoptSocket(t)
               \/ InboxDone(t) \/ DrainInbox(t) \/ KillSockets(t)
      BY <3>1 DEF ThreadInit, AdoptListener, AdoptSocket, InboxDone, DrainInbox, KillSockets
    <3>2. CASE Walk(t)
      BY <3>2 DEF Walk, WalkClosing, WalkRefused, WalkConnecting, WalkConnected, WalkTimeout,
                  WalkDone, Call
    <3>3. CASE Poll(t)
      BY <3>3 DEF Poll, Handle, Event, WriteEvent, AfterWrite, ReadEvent, ListenEvent, Accept,
                  AcceptNone, PollDone, Call
    <3>4. QED
      BY <1>7, <3>1, <3>2, <3>3 DEF ThreadStep
  <2>2. QED
    BY <1>1, <1>5, <1>6, <2>1
<1>8. ASSUME NEW t \in Thread, Return(t) PROVE DrainsStopped'
  <2>1. runflag' = runflag /\ \E l : l # "drain" /\ (pc' = [pc EXCEPT ![t] = l])
    <3>1. CASE ReturnFinal(t)
      BY <3>1 DEF ReturnFinal
    <3>2. CASE \E ok \in BOOLEAN : \/ ReturnTimeout(t, ok) \/ ReturnOpened(t, ok)
                                   \/ ReturnSent(t, ok) \/ ReturnRecv(t, ok)
      BY <3>2 DEF ReturnTimeout, ReturnOpened, ReturnSent, ReturnRecv, AfterWrite
    <3>3. CASE t = 0 /\ \E ok \in BOOLEAN : \E i \in Inbox : ReturnAccepted(ok, i)
      BY <3>3 DEF ReturnAccepted
    <3>4. QED
      BY <1>8, <3>1, <3>2, <3>3 DEF Return
  <2>2. QED
    BY <1>6, <2>1
<1>9. CASE \/ UNCHANGED vars \/ Rest \/ Stop
           \/ \E n \in Sizes : Start(n) \/ StartFails(n)
           \/ \E a \in App : AppStep(a)
           \/ \E p \in Poster : Post(p)
           \/ \E t \in Thread : CallbackStep(t)
  BY <1>1, <1>9
  DEF vars, Rest, Stop, Start, StartFails, AppStep, AppListen, AppConnect, Connect, Post,
      CallbackStep, CbSend, CbRecv, CbClose, CbConnect
<1>10. QED
  BY <1>2, <1>3, <1>4, <1>7, <1>8, <1>9 DEF Next, ControlStep

\* A connection that is deleted while its thread serves was released: only the thread
\* that has it deletes one the balancer still counts, when it stops.
THEOREM ReleasedAtEndAlways == Spec => ReleasedAtEnd
<1> DEFINE Released == \A c \in Conn : mem[c] = "live" /\ mem'[c] = "freed" =>
                          load'[c] = 0 \/ \E t \in Thread : /\ pc[t] = "drain" /\ ~runflag[t]
                                                            /\ InList(t, c) \/ InInbox(t, c)
<1>1. IInv /\ LoadBalanced /\ DrainsStopped /\ [Next]_vars => [Released]_vars
  <2> SUFFICES ASSUME IInv, LoadBalanced, DrainsStopped, [Next]_vars PROVE Released
    OBVIOUS
  <2>1. TypeOK /\ ThreadOK /\ SingleOwner /\ NoDanglingUse
    BY DEF IInv
  <2>2. CASE \A t \in Thread : ~Deletes(t)
    BY <2>1, <2>2, OnlyDeletes DEF Keeps, Tcps
  <2>3. ASSUME NEW t \in Thread, ReturnFinal(t) PROVE Released
    <3>1. mem' = [mem EXCEPT ![cur[t]] = "freed"]
      BY <2>3 DEF ReturnFinal
    <3>2. \A c \in Conn : mem[c] = "live" /\ mem'[c] = "freed" => c = cur[t]
      BY <2>1, <3>1 DEF TypeOK, Tcps
    <3>3. QED
      BY <2>1, <2>3, <3>2, FinalLoad
  <2>4. ASSUME NEW t \in Thread, DrainInbox(t) \/ KillSockets(t) PROVE Released
    <3>1. pc[t] = "drain" /\ ~runflag[t]
      BY <2>4 DEF DrainInbox, KillSockets, DrainsStopped
    <3>2. ASSUME NEW c \in Conn, mem[c] = "live", mem'[c] = "freed"
          PROVE  InList(t, c) \/ InInbox(t, c)
      <4>1. CASE DrainInbox(t)
        <5>1. mem' = [mem EXCEPT ![Head(inbox[t])] = "freed"] /\ inbox[t] # <<>>
          BY <4>1 DEF DrainInbox
        <5>2. c = Head(inbox[t]) /\ mem \in [Tcps -> {"fresh", "live", "freed"}]
          BY <2>1, <3>2, <5>1 DEF TypeOK, Tcps
        <5>3. QED
          <6>1. t \in Inbox
            BY EngineAssumption DEF Thread, Inbox
          <6>2. inbox[t] \in Seq(Tcps)
            BY <2>1, <6>1 DEF TypeOK
          <6>3. 1 \in DOMAIN inbox[t] /\ inbox[t][1] = c
            BY <5>1, <5>2, <6>2
          <6>4. QED
            BY <6>3 DEF InInbox
      <4>2. CASE KillSockets(t)
        BY <2>1, <3>2, <4>2 DEF KillSockets, InList, TypeOK, Tcps
      <4>3. QED
        BY <2>4, <4>1, <4>2
    <3>3. QED
      BY <3>1, <3>2
  <2>5. QED
    BY <2>2, <2>3, <2>4 DEF Deletes
<1>2. Init => DrainsStopped
  BY DEF Init, DrainsStopped
<1>3. IInv => TypeOK
  BY DEF IInv
<1>4. QED
  BY <1>1, <1>2, <1>3, IInvAlways, LoadBalancedAlways, DrainsStoppedStep, PTL
  DEF Spec, ReleasedAtEnd

------------------------------------------------------------------------------
(* The write mask.  What is not in a list is in no poller and has an empty mask  *)
(* - Adopt relies on it - and everywhere else the two change together.          *)

Listed(s) == \E t \in Thread : InList(t, s)

Mirrors(s) == interest[s] # {} => (tcp[s].evmask <=> "W" \in interest[s])

MaskOf(s) == Mirrors(s) /\ (~Listed(s) => interest[s] = {} /\ ~tcp[s].evmask)

MaskOK == \A s \in Tcps : MaskOf(s)

\* No method of Tcp touches the mask.
LEMMA MaskKept ==
    ASSUME NEW r \in TcpRecord, NEW x \in BOOLEAN, NEW y \in BOOLEAN
    PROVE  /\ ~NewTcp.evmask /\ ~Connecting(NewTcp, x).evmask
           /\ ~Listening(NewTcp).evmask /\ ~Accepted(NewTcp).evmask
           /\ Close(r).evmask = r.evmask
           /\ Send(r).evmask = r.evmask
           /\ Recv(r).evmask = r.evmask
           /\ IoWrite(r, x).evmask = r.evmask
           /\ IoRead(r, x, y).evmask = r.evmask
<1>1. /\ ~NewTcp.evmask /\ ~Connecting(NewTcp, x).evmask
      /\ ~Listening(NewTcp).evmask /\ ~Accepted(NewTcp).evmask
      /\ Send(r).evmask = r.evmask
      /\ Recv(r).evmask = r.evmask
  BY DEF TcpRecord, NewTcp, Connecting, Listening, Accepted, Send, Recv
<1>2. ASSUME NEW q \in TcpRecord PROVE Close(q).evmask = q.evmask
  BY DEF TcpRecord, Close
<1>3. Opened(r) \in TcpRecord /\ Opened(r).evmask = r.evmask
  BY DEF TcpRecord, State, Opened
<1>4. IoWrite(r, x).evmask = r.evmask
  BY <1>3 DEF TcpRecord, IoWrite
<1>5. /\ [Opened(r) EXCEPT !.ibuf = @ \/ x] \in TcpRecord
      /\ [Opened(r) EXCEPT !.ibuf = @ \/ x].evmask = r.evmask
  BY <1>3 DEF TcpRecord
<1>6. IoRead(r, x, y).evmask = r.evmask
  BY <1>2, <1>5 DEF IoRead
<1>7. QED
  BY <1>1, <1>2, <1>4, <1>6

\* A step on one object s: for every other one mask, interest and lists stay.
LEMMA MaskStep ==
    ASSUME MaskOK, NEW s \in Tcps, MaskOf(s)',
           \A r \in Tcps \ {s} : /\ tcp'[r] = tcp[r] /\ interest'[r] = interest[r]
                                 /\ Listed(r)' <=> Listed(r)
    PROVE  MaskOK'
BY DEF MaskOK, MaskOf, Mirrors

\* A step on the contents of one object that leaves its mask.
LEMMA MaskSame ==
    ASSUME TypeOK, MaskOK, NEW s \in Tcps, NEW r, r.evmask = tcp[s].evmask,
           tcp' = tcp \/ tcp' = [tcp EXCEPT ![s] = r], UNCHANGED <<interest, sockets>>
    PROVE  MaskOK'
<1>1. \A q \in Tcps : tcp'[q].evmask = tcp[q].evmask
  BY DEF TypeOK
<1>2. QED
  BY <1>1 DEF MaskOK, MaskOf, Mirrors, Listed, InList

\* An object that has been nowhere is put to use.
LEMMA MaskFresh ==
    ASSUME TypeOK, MaskOK, SingleOwner, NEW s \in Tcps, mem[s] = "fresh",
           NEW r, ~r.evmask, tcp' = [tcp EXCEPT ![s] = r], UNCHANGED <<interest, sockets>>
    PROVE  MaskOK'
<1>1. ~Listed(s)
  BY OwnedElsewhere DEF SingleOwner, Held, Listed
<1>2. interest'[s] = {} /\ ~tcp'[s].evmask
  BY <1>1 DEF TypeOK, MaskOK, MaskOf
<1>3. MaskOf(s)'
  BY <1>2 DEF MaskOf, Mirrors
<1>4. QED
  BY <1>3, MaskStep DEF TypeOK, Listed, InList

LEMMA MaskConnect ==
    ASSUME TypeOK, MaskOK, SingleOwner, NEW p, NEW c, NEW x \in BOOLEAN, NEW i,
           Connect(p, c, x, i)
    PROVE  MaskOK'
<1>1. ~[Connecting(NewTcp, x) EXCEPT !.managed = TRUE].evmask
  BY DEF Connecting, NewTcp
<1>2. QED
  BY <1>1, MaskFresh DEF Connect, Tcps

\* The walk tells the poller and keeps the mask in one go.
LEMMA MaskAdjusted ==
    ASSUME TypeOK, MaskOK, NEW c \in Tcps, Listed(c), NEW x \in BOOLEAN,
           tcp' = [tcp EXCEPT ![c].evmask = x],
           interest' = Modified(c, IF x THEN ReadWrite ELSE ReadOnly), UNCHANGED sockets
    PROVE  MaskOK'
<1>1. /\ tcp'[c].evmask = x
      /\ interest'[c] = {} \/ interest'[c] = IF x THEN ReadWrite ELSE ReadOnly
  BY DEF TypeOK, TcpRecord, Modified
<1>2. MaskOf(c)'
  BY <1>1 DEF MaskOf, Mirrors, Listed, InList, ReadWrite, ReadOnly
<1>3. QED
  BY <1>2, MaskStep DEF TypeOK, Modified, Listed, InList

LEMMA MaskAdjust ==
    ASSUME TypeOK, MaskOK, NEW c \in Tcps, Listed(c), AdjustInterest(c), UNCHANGED sockets
    PROVE  MaskOK'
<1>1. CASE tcp[c].obuf = tcp[c].evmask
  BY <1>1 DEF AdjustInterest, MaskOK, MaskOf, Mirrors, Listed, InList
<1>2. CASE tcp[c].obuf # tcp[c].evmask
  <2>1. tcp[c].obuf \in BOOLEAN
    BY DEF TypeOK, TcpRecord
  <2>2. QED
    BY <1>2, <2>1, MaskAdjusted DEF AdjustInterest
<1>3. QED
  BY <1>1, <1>2

LEMMA MaskAdopt ==
    ASSUME TypeOK, MaskOK, SingleOwner, NEW t \in Thread,
           (t = 0 /\ AdoptListener) \/ AdoptSocket(t)
    PROVE  MaskOK'
<1>1. t \in Inbox /\ inbox[t] # <<>>
  BY EngineAssumption DEF Thread, Inbox, AdoptListener, AdoptSocket
<1>2. PICK x \in Tcps : x = Head(inbox[t])
  BY <1>1 DEF TypeOK
<1>3. interest[x] = {} /\ ~tcp[x].evmask
  <2>1. inbox' = [inbox EXCEPT ![t] = Tail(@)]
    BY DEF AdoptListener, AdoptSocket
  <2>2. ~Listed(x)
    BY <1>1, <1>2, <2>1, HeadLeaves DEF Listed
  <2>3. QED
    BY <2>2 DEF MaskOK, MaskOf
<1>4. sockets' = [sockets EXCEPT ![t] = @ \cup {x}]
  BY <1>2 DEF AdoptListener, AdoptSocket
<1>5. Listed(x)' /\ \A s \in Tcps \ {x} : Listed(s)' <=> Listed(s)
  BY <1>4 DEF TypeOK, Listed, InList
<1>6. \E m \in BOOLEAN : /\ (tcp' = tcp /\ m = FALSE) \/ tcp' = [tcp EXCEPT ![x].evmask = m]
                         /\ Register(x, IF m THEN ReadWrite ELSE ReadOnly)
  <2>1. CASE t = 0 /\ AdoptListener
    BY <1>2, <2>1 DEF AdoptListener
  <2>2. CASE AdoptSocket(t)
    <3>1. tcp[x].evmask = FALSE
      BY <1>3 DEF TypeOK, TcpRecord
    <3> DEFINE m == tcp[x].state = "Connnecting"
    <3>2. tcp' = [tcp EXCEPT ![x].evmask = m] /\ m \in BOOLEAN
      BY <1>2, <2>2, <3>1 DEF AdoptSocket
    <3>3. Register(x, IF m THEN ReadWrite ELSE ReadOnly)
      BY <1>2, <2>2 DEF AdoptSocket
    <3>4. QED
      BY <3>2, <3>3
  <2>3. QED
    BY <2>1, <2>2
<1>7. PICK m \in BOOLEAN : /\ (tcp' = tcp /\ m = FALSE) \/ tcp' = [tcp EXCEPT ![x].evmask = m]
                           /\ Register(x, IF m THEN ReadWrite ELSE ReadOnly)
  BY <1>6
<1>8. Mirrors(x)'
  <2>1. tcp'[x].evmask <=> m
    BY <1>3, <1>7 DEF TypeOK, TcpRecord
  <2>2. interest'[x] = {} \/ interest'[x] = IF m THEN ReadWrite ELSE ReadOnly
    BY <1>3, <1>7 DEF TypeOK, Register
  <2>3. QED
    BY <2>1, <2>2 DEF Mirrors, ReadOnly, ReadWrite
<1>9. \A s \in Tcps \ {x} : tcp'[s] = tcp[s] /\ interest'[s] = interest[s]
  BY <1>7 DEF TypeOK, Register
<1>10. QED
  BY <1>5, <1>8, <1>9, MaskStep DEF MaskOf

\* A deleted object is in no list, in no poller and has an empty mask.
LEMMA MaskDelete ==
    ASSUME TypeOK, ThreadOK, MaskOK, SingleOwner, NoDanglingUse, NEW t \in Thread, Deletes(t)
    PROVE  MaskOK'
<1>0. ~NewTcp.evmask
  BY DEF NewTcp
<1>1. CASE ReturnFinal(t)
  <2>1. PICK c \in Tcps : c = cur[t] /\ \A u \in Thread \ {t} : c \notin sockets[u]
    BY <1>1, FinalSocket
  <2>2. /\ interest' = [interest EXCEPT ![c] = {}]
        /\ tcp' = [tcp EXCEPT ![c] = NewTcp]
        /\ sockets' = [sockets EXCEPT ![t] = @ \ {c}]
    BY <1>1, <2>1 DEF ReturnFinal
  <2>3. MaskOf(c)'
    BY <1>0, <2>2 DEF TypeOK, MaskOf, Mirrors
  <2>4. \A s \in Tcps \ {c} : Listed(s)' <=> Listed(s)
    BY <2>2 DEF TypeOK, Listed, InList
  <2>5. QED
    BY <2>2, <2>3, <2>4, MaskStep DEF TypeOK
<1>2. CASE DrainInbox(t)
  <2>1. t \in Inbox /\ inbox[t] # <<>>
    BY <1>2, EngineAssumption DEF Thread, Inbox, DrainInbox
  <2>2. PICK x \in Tcps : x = Head(inbox[t])
    BY <2>1 DEF TypeOK
  <2>3. /\ inbox' = [inbox EXCEPT ![t] = Tail(@)]
        /\ tcp' = [tcp EXCEPT ![x] = NewTcp]
        /\ UNCHANGED <<interest, sockets>>
    BY <1>2, <2>2 DEF DrainInbox
  <2>4. ~Listed(x)
    BY <2>1, <2>2, <2>3, HeadLeaves DEF Listed
  <2>5. interest'[x] = {} /\ ~tcp'[x].evmask
    BY <1>0, <2>3, <2>4 DEF TypeOK, MaskOK, MaskOf
  <2>6. MaskOf(x)'
    BY <2>5 DEF MaskOf, Mirrors
  <2>7. QED
    BY <2>3, <2>6, MaskStep DEF TypeOK, Listed, InList
<1>3. CASE KillSockets(t)
  <2>1. /\ \A s \in Tcps : /\ tcp'[s] = IF s \in sockets[t] THEN NewTcp ELSE tcp[s]
                           /\ interest'[s] = IF s \in sockets[t] THEN {} ELSE interest[s]
        /\ sockets' = [sockets EXCEPT ![t] = {}]
    BY <1>3 DEF KillSockets
  <2>2. ASSUME NEW s \in Tcps PROVE MaskOf(s)'
    <3>1. CASE s \in sockets[t]
      BY <1>0, <2>1, <3>1 DEF MaskOf, Mirrors
    <3>2. CASE s \notin sockets[t]
      <4>1. Listed(s)' <=> Listed(s)
        BY <2>1, <3>2 DEF TypeOK, Listed, InList
      <4>2. QED
        BY <2>1, <3>2, <4>1 DEF MaskOK, MaskOf, Mirrors
    <3>3. QED
      BY <3>1, <3>2
  <2>3. QED
    BY <2>2 DEF MaskOK
<1>4. QED
  BY <1>1, <1>2, <1>3 DEF Deletes

LEMMA MaskWalk ==
    ASSUME TypeOK, ThreadOK, MaskOK, NoDanglingUse, NEW t \in Thread, Walk(t)
    PROVE  MaskOK'
<1>1. \A c \in todo[t] : c \in Tcps /\ Listed(c)
  BY DEF TypeOK, NoDanglingUse, Listed, InList
<1>2. ASSUME NEW c \in todo[t], WalkClosing(t, c) \/ WalkRefused(t, c) PROVE MaskOK'
  <2>1. [tcp[c] EXCEPT !.state = "Closed"].evmask = tcp[c].evmask
    BY <1>1 DEF TypeOK, TcpRecord
  <2>2. /\ tcp' = [tcp EXCEPT ![c] = [tcp[c] EXCEPT !.state = "Closed"]]
        /\ UNCHANGED <<interest, sockets>>
    BY <1>2 DEF WalkClosing, WalkRefused
  <2>3. QED
    BY <1>1, <2>1, <2>2, MaskSame
<1>3. ASSUME NEW c \in todo[t], WalkConnecting(t, c) PROVE MaskOK'
  <2>1. CASE tcp[c].evmask
    BY <1>3, <2>1 DEF WalkConnecting, MaskOK, MaskOf, Mirrors, Listed, InList
  <2>2. CASE ~tcp[c].evmask
    BY <1>1, <1>3, <2>2, MaskAdjusted DEF WalkConnecting
  <2>3. QED
    BY <2>1, <2>2
<1>4. ASSUME NEW c \in todo[t], WalkConnected(t, c) PROVE MaskOK'
  BY <1>1, <1>4, MaskAdjust DEF WalkConnected
<1>5. ASSUME UNCHANGED <<tcp, interest, sockets>> PROVE MaskOK'
  BY <1>5 DEF MaskOK, MaskOf, Mirrors, Listed, InList
<1>6. QED
  BY <1>2, <1>3, <1>4, <1>5 DEF Walk, WalkTimeout, WalkDone, sockVars

LEMMA MaskPoll ==
    ASSUME TypeOK, ThreadOK, MaskOK, SingleOwner, NEW t \in Thread, Poll(t)
    PROVE  MaskOK'
<1>0. ASSUME UNCHANGED <<tcp, interest, sockets>> PROVE MaskOK'
  BY <1>0 DEF MaskOK, MaskOf, Mirrors, Listed, InList
<1>1. ASSUME NEW c \in todo[t], NEW events, Event(t, c, events) PROVE MaskOK'
  <2>1. c \in Tcps /\ [tcp[c] EXCEPT !.state = "Connected"].evmask = tcp[c].evmask
    BY DEF TypeOK, TcpRecord
  <2>2. /\ tcp' = tcp \/ tcp' = [tcp EXCEPT ![c] = [tcp[c] EXCEPT !.state = "Connected"]]
        /\ UNCHANGED <<interest, sockets>>
    BY <1>1 DEF Event
  <2>3. QED
    BY <2>1, <2>2, MaskSame
<1>2. ASSUME pc[t] \in {"write", "read"} PROVE cur[t] \in Tcps /\ tcp[cur[t]] \in TcpRecord
  BY <1>2 DEF TypeOK, ThreadOK
<1>3. ASSUME NEW drained \in BOOLEAN, WriteEvent(t, drained) PROVE MaskOK'
  <2>1. cur[t] \in Tcps /\ IoWrite(tcp[cur[t]], drained).evmask = tcp[cur[t]].evmask
    BY <1>2, <1>3, MaskKept DEF WriteEvent
  <2>2. QED
    BY <1>3, <2>1, MaskSame DEF WriteEvent
<1>4. ASSUME NEW got \in BOOLEAN, NEW disconnected \in BOOLEAN, ReadEvent(t, got, disconnected)
      PROVE  MaskOK'
  <2>1. cur[t] \in Tcps /\ IoRead(tcp[cur[t]], got, disconnected).evmask = tcp[cur[t]].evmask
    BY <1>2, <1>4, MaskKept DEF ReadEvent
  <2>2. QED
    BY <1>4, <2>1, MaskSame DEF ReadEvent
<1>5. ASSUME t = 0, NEW c \in Conn, Accept(c) PROVE MaskOK'
  <2>1. ~Accepted(NewTcp).evmask
    BY DEF Accepted, NewTcp
  <2>2. QED
    BY <1>5, <2>1, MaskFresh DEF Accept, Tcps
<1>6. QED
  BY <1>0, <1>1, <1>3, <1>4, <1>5 DEF Poll, Handle, ListenEvent, AcceptNone, PollDone, sockVars

LEMMA MaskApplication ==
    ASSUME TypeOK, MaskOK, SingleOwner,
           (\E a \in App : AppStep(a)) \/ (\E t \in Thread : CallbackStep(t))
    PROVE  MaskOK'
<1>1. ASSUME NEW a \in App, AppListen(a) PROVE MaskOK'
  <2>1. ~[Listening(NewTcp) EXCEPT !.managed = TRUE].evmask
    BY DEF Listening, NewTcp
  <2>2. QED
    BY <1>1, <2>1, MaskFresh DEF AppListen, Tcps
<1>2. ASSUME NEW a \in App, AppConnect(a) PROVE MaskOK'
  BY <1>2, MaskConnect DEF AppConnect
<1>3. ASSUME NEW t \in Thread, CbConnect(t) PROVE MaskOK'
  BY <1>3, MaskConnect DEF CbConnect
<1>4. ASSUME NEW t \in Thread, NEW s \in Tcps, CbSend(t, s) \/ CbRecv(t, s) \/ CbClose(t, s)
      PROVE  MaskOK'
  <2>1. tcp[s] \in TcpRecord
    BY DEF TypeOK
  <2>2. /\ Send(tcp[s]).evmask = tcp[s].evmask
        /\ Recv(tcp[s]).evmask = tcp[s].evmask
        /\ Close(tcp[s]).evmask = tcp[s].evmask
    BY <2>1, MaskKept
  <2>3. QED
    BY <1>4, <2>2, MaskSame DEF CbSend, CbRecv, CbClose
<1>5. QED
  BY <1>1, <1>2, <1>3, <1>4 DEF AppStep, CallbackStep

LEMMA MaskReturn ==
    ASSUME TypeOK, ThreadOK, MaskOK, SingleOwner, NoDanglingUse, NEW t \in Thread, Return(t)
    PROVE  MaskOK'
<1>1. cur[t] \in Tcps /\ tcp[cur[t]] \in TcpRecord
  BY DEF TypeOK, ThreadOK, Return, ReturnFinal, ReturnTimeout, ReturnOpened, ReturnSent,
         ReturnRecv, ReturnAccepted, Returning, InCallback
<1>2. ASSUME NEW ok, CloseUnless(ok, cur[t]), UNCHANGED <<interest, sockets>> PROVE MaskOK'
  <2>1. Close(tcp[cur[t]]).evmask = tcp[cur[t]].evmask
    BY <1>1, MaskKept
  <2>2. QED
    BY <1>1, <1>2, <2>1, MaskSame DEF CloseUnless
<1>3. CASE ReturnFinal(t)
  BY <1>3, MaskDelete DEF Deletes
<1>4. ASSUME NEW ok, ReturnTimeout(t, ok) PROVE MaskOK'
  <2>1. Listed(cur[t])
    BY <1>1, <1>4, EngineAssumption
    DEF ReturnTimeout, Returning, NoDanglingUse, Listed, Accepting, Tcps
  <2>2. QED
    BY <1>1, <1>2, <1>4, <2>1, MaskAdjust DEF ReturnTimeout
<1>5. QED
  BY <1>2, <1>3, <1>4 DEF Return, ReturnOpened, ReturnSent, ReturnRecv, ReturnAccepted

LEMMA MaskOKStep ==
    IInv /\ MaskOK /\ [Next]_vars => MaskOK'
<1> SUFFICES ASSUME TypeOK, ThreadOK, SingleOwner, NoDanglingUse, MaskOK, [Next]_vars
             PROVE  MaskOK'
  BY DEF IInv
<1>1. ASSUME UNCHANGED <<tcp, interest, sockets>> PROVE MaskOK'
  BY <1>1 DEF MaskOK, MaskOf, Mirrors, Listed, InList
<1>2. CASE \/ UNCHANGED vars
           \/ Rest
           \/ \E n \in Sizes : Start(n) \/ StartFails(n)
           \/ Stop
           \/ ControlStep
           \/ \E p \in Poster : Post(p)
  BY <1>1, <1>2 DEF vars, sockVars, Rest, Start, StartFails, Stop, ControlStep, StartThread,
                    ClearFlag, Join, Post
<1>3. ASSUME NEW t \in Thread, ThreadStep(t) PROVE MaskOK'
  BY <1>1, <1>3, MaskAdopt, MaskDelete, MaskWalk, MaskPoll
  DEF ThreadStep, ThreadInit, Loop, InboxDone, Deletes, sockVars
<1>4. QED
  BY <1>2, <1>3, MaskApplication, MaskReturn DEF Next

\* _evmask mirrors what the poller was last told, over every path of the worker.
THEOREM MaskMirrorsPollerAlways == Spec => []MaskMirrorsPoller
<1>1. Init => MaskOK
  BY DEF Init, MaskOK, MaskOf, Mirrors, NewTcp
<1>2. MaskOK /\ TypeOK => MaskMirrorsPoller
  BY DEF MaskOK, MaskOf, Mirrors, MaskMirrorsPoller, Registered, TypeOK
<1>3. IInv => TypeOK
  BY DEF IInv
<1>4. QED
  BY <1>1, <1>2, <1>3, IInvAlways, MaskOKStep, PTL DEF Spec
==============================================================================
