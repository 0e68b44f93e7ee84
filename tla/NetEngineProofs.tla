--------------------------- MODULE NetEngineProofs ---------------------------
(***************************************************************************)
(* Proofs about NetEngine, for any number of connections, listeners,        *)
(* application threads, inboxes and threads.                                *)
(***************************************************************************)
EXTENDS NetEngine, TLAPS

------------------------------------------------------------------------------
(* The operators on a Tcp object return Tcp objects. *)

LEMMA TcpOperators ==
    ASSUME NEW r \in TcpRecord, NEW x \in BOOLEAN, NEW y \in BOOLEAN
    PROVE  /\ NewTcp \in TcpRecord
           /\ Listening(r) \in TcpRecord
           /\ Connecting(r, x) \in TcpRecord
           /\ Accepted(r) \in TcpRecord
           /\ Close(r) \in TcpRecord
           /\ Send(r) \in TcpRecord
           /\ Recv(r) \in TcpRecord
           /\ Opened(r) \in TcpRecord
           /\ IoWrite(r, x) \in TcpRecord
           /\ IoRead(r, x, y) \in TcpRecord
<1>1. /\ NewTcp \in TcpRecord
      /\ Listening(r) \in TcpRecord
      /\ Connecting(r, x) \in TcpRecord
      /\ Accepted(r) \in TcpRecord
      /\ Send(r) \in TcpRecord
      /\ Recv(r) \in TcpRecord
  BY DEF TcpRecord, State, NewTcp, Listening, Connecting, Accepted, Send, Recv
<1>2. ASSUME NEW q \in TcpRecord PROVE Close(q) \in TcpRecord
  BY DEF TcpRecord, State, Close
<1>3. Opened(r) \in TcpRecord
  BY DEF TcpRecord, State, Opened
<1>4. IoWrite(r, x) \in TcpRecord
  BY <1>3 DEF TcpRecord, IoWrite
<1>5. [Opened(r) EXCEPT !.ibuf = @ \/ x] \in TcpRecord
  BY <1>3 DEF TcpRecord
<1>6. IoRead(r, x, y) \in TcpRecord
  BY <1>2, <1>5 DEF IoRead
<1>7. QED
  BY <1>1, <1>2, <1>3, <1>4, <1>6

LEMMA TcpFields ==
    ASSUME NEW r \in TcpRecord, NEW x \in BOOLEAN
    PROVE  /\ [r EXCEPT !.managed = x] \in TcpRecord
           /\ [r EXCEPT !.evmask = x] \in TcpRecord
           /\ \A st \in State : [r EXCEPT !.state = st] \in TcpRecord
BY DEF TcpRecord, State

------------------------------------------------------------------------------
(* Type correctness.  ControlOK is needed with it: the loops of start() and     *)
(* stop() index the thread slots.                                               *)

LEMMA TypeInit == Init => TypeOK /\ ControlOK
BY EngineAssumption, TcpOperators
DEF Init, TypeOK, ControlOK, Inbox, Thread, Poster, NewTcp, TcpRecord, State

Label == {"idle", "init", "loop", "inbox", "walk", "poll", "accept",
          "call", "write", "read", "drain", "done"}

\* A thread goes from one label to another.
LEMMA LabelType ==
    ASSUME TypeOK, NEW t \in Thread, NEW l \in Label, pc' = [pc EXCEPT ![t] = l]
    PROVE  pc' \in [Thread -> Label]
<1>1. pc \in [Thread -> Label]
  BY DEF TypeOK, Label
<1>2. QED
  BY <1>1

LEMMA ControlType ==
    ASSUME TypeOK, ControlOK,
           (\E n \in Sizes : Start(n) \/ StartFails(n)) \/ Stop \/ ControlStep
    PROVE  TypeOK' /\ ControlOK'
<1> USE EngineAssumption DEF ctlVars, sockVars, runVars, postVars, Inbox, Thread
<1>1. ASSUME NEW n \in Sizes, Start(n) PROVE TypeOK' /\ ControlOK'
  BY <1>1 DEF TypeOK, ControlOK, Start
<1>2. ASSUME NEW n \in Sizes, StartFails(n) PROVE TypeOK' /\ ControlOK'
  BY <1>2 DEF TypeOK, ControlOK, StartFails
<1>3. CASE StartThread
  <2>1. /\ runflag' \in [Thread -> BOOLEAN]
        /\ pc' \in [Thread -> {"idle", "init", "loop", "inbox", "walk", "poll", "accept",
                             "call", "write", "read", "drain", "done"}]
        /\ at' \in Thread
    BY <1>3 DEF TypeOK, ControlOK, StartThread
  <2>2. TypeOK'
    BY <1>3, <2>1 DEF TypeOK, StartThread
  <2>3. ControlOK'
    BY <1>3 DEF TypeOK, ControlOK, StartThread
  <2>4. QED
    BY <2>2, <2>3
<1>4. CASE Stop
  <2>1. TypeOK'
    BY <1>4 DEF TypeOK, Stop
  <2>2. ControlOK'
    BY <1>4 DEF TypeOK, ControlOK, Stop
  <2>3. QED
    BY <2>1, <2>2
<1>5. CASE ClearFlag
  <2>1. TypeOK'
    <3>1. /\ runflag' \in [Thread -> BOOLEAN] /\ at' \in Thread
          /\ eng' \in {"stopped", "starting", "running", "clearing", "joining"}
      BY <1>5 DEF TypeOK, ControlOK, ClearFlag
    <3>2. QED
      BY <1>5, <3>1 DEF TypeOK, ClearFlag
  <2>2. ControlOK'
    BY <1>5 DEF TypeOK, ControlOK, ClearFlag
  <2>3. QED
    BY <2>1, <2>2
<1>6. CASE Join
  <2>a. /\ pc' \in [Thread -> {"idle", "init", "loop", "inbox", "walk", "poll", "accept",
                             "call", "write", "read", "drain", "done"}]
        /\ at' \in Thread
        /\ nthreads' \in 0 .. MaxThreads
    BY <1>6 DEF TypeOK, ControlOK, Join
  <2>1. TypeOK'
    BY <1>6, <2>a DEF TypeOK, Join
  <2>b. \A u \in Thread : pc'[u] = IF u = at THEN "idle" ELSE pc[u]
    BY <1>6 DEF TypeOK, Join
  <2>2. CASE at + 1 = nthreads
    BY <1>6, <2>2, <2>b DEF TypeOK, ControlOK, Join
  <2>3. CASE at + 1 # nthreads
    <3>1. at' = at + 1 /\ UNCHANGED <<eng, nthreads>> /\ eng = "joining" /\ at + 1 < nthreads
      BY <1>6, <2>3 DEF TypeOK, ControlOK, Join
    <3>2. at \in Nat /\ nthreads \in Nat /\ Thread \subseteq Nat
      BY DEF TypeOK
    <3>3. ControlOK'
      BY <2>b, <3>1, <3>2 DEF ControlOK
    <3>4. QED
      BY <2>1, <3>3
  <2>4. QED
    BY <2>1, <2>2, <2>3
<1>7. QED
  BY <1>1, <1>2, <1>3, <1>4, <1>5, <1>6 DEF ControlStep

LEMMA ConnectType ==
    ASSUME TypeOK, ControlOK, NEW p \in Poster, NEW c, NEW x \in BOOLEAN, NEW i \in Inbox,
           Connect(p, c, x, i)
    PROVE  TypeOK' /\ ControlOK'
<1>1. [Connecting(NewTcp, x) EXCEPT !.managed = TRUE] \in TcpRecord
  <2>1. NewTcp \in TcpRecord
    BY DEF NewTcp, TcpRecord, State
  <2>2. QED
    BY <2>1, TcpOperators, TcpFields
<1>2. TypeOK'
  BY <1>1 DEF TypeOK, Connect, ctlVars, runVars, Tcps
<1>3. ControlOK'
  BY DEF ControlOK, Connect, ctlVars
<1>4. QED
  BY <1>2, <1>3

LEMMA PostingType ==
    ASSUME TypeOK, ControlOK,
           (\E a \in App : AppStep(a)) \/ (\E p \in Poster : Post(p))
    PROVE  TypeOK' /\ ControlOK'
<1> USE EngineAssumption, TcpOperators DEF ctlVars, sockVars, runVars, postVars, Tcps, Poster
<1>1. ASSUME NEW a \in App, AppListen(a) PROVE TypeOK' /\ ControlOK'
  <2>1. [Listening(NewTcp) EXCEPT !.managed = TRUE] \in TcpRecord
    <3>1. NewTcp \in TcpRecord
      BY TcpOperators DEF NewTcp, TcpRecord, State
    <3>2. QED
      BY <3>1, TcpOperators, TcpFields
  <2>2. /\ mem' \in [Tcps -> {"fresh", "live", "freed"}]
        /\ tcp' \in [Tcps -> TcpRecord]
    BY <1>1, <2>1 DEF TypeOK, AppListen
  <2>3. hand' \in [Poster -> Tcps \cup {NoTcp}] /\ dest' \in [Poster -> Inbox]
    BY <1>1 DEF TypeOK, AppListen, Inbox
  <2>4. TypeOK'
    BY <1>1, <2>2, <2>3 DEF TypeOK, AppListen
  <2>5. ControlOK'
    BY <1>1 DEF ControlOK, AppListen
  <2>6. QED
    BY <2>4, <2>5
<1>2. ASSUME NEW a \in App, AppConnect(a) PROVE TypeOK' /\ ControlOK'
  BY <1>2, ConnectType DEF AppConnect
<1>3. ASSUME NEW p \in Poster, Post(p) PROVE TypeOK' /\ ControlOK'
  <2>1. hand[p] \in Tcps /\ dest[p] \in Inbox
    BY <1>3 DEF TypeOK, Post
  <2>2. Append(inbox[dest[p]], hand[p]) \in Seq(Tcps)
    BY <2>1 DEF TypeOK
  <2>3. QED
    BY <1>3, <2>1, <2>2 DEF TypeOK, ControlOK, Post
<1>4. QED
  BY <1>1, <1>2, <1>3 DEF AppStep

\* No step of a thread creates or ends a thread.
LEMMA ControlKept ==
    ASSUME TypeOK, ControlOK, NEW t \in Thread, pc[t] # "idle", NEW l, l # "idle",
           pc' = pc \/ Goto(t, l), UNCHANGED ctlVars
    PROVE  ControlOK'
BY DEF TypeOK, ControlOK, ctlVars, Goto

\* What the poller is told is a set of events.
LEMMA InterestType ==
    ASSUME TypeOK, NEW s, NEW events \in {ReadOnly, ReadWrite},
           Register(s, events) \/ interest' = Modified(s, events)
    PROVE  interest' \in [Tcps -> SUBSET ReadWrite]
<1>1. events \in SUBSET ReadWrite /\ {} \in SUBSET ReadWrite
  BY DEF ReadOnly, ReadWrite
<1>2. QED
  BY <1>1 DEF TypeOK, Register, Modified

LEMMA AdoptType ==
    ASSUME TypeOK, ControlOK, NEW t \in Thread,
           ThreadInit(t) \/ Loop(t) \/ (t = 0 /\ AdoptListener) \/ AdoptSocket(t) \/ InboxDone(t)
           \/ DrainInbox(t) \/ KillSockets(t)
    PROVE  TypeOK' /\ ControlOK'
<1> USE EngineAssumption DEF ctlVars, sockVars, runVars, postVars, Thread, Inbox
<1>1. CASE ThreadInit(t)
  <2>1. TypeOK'
    BY <1>1 DEF TypeOK, ThreadInit, Goto
  <2>2. ControlOK'
    BY <1>1, ControlKept DEF ThreadInit
  <2>3. QED
    BY <2>1, <2>2
<1>2. CASE Loop(t)
  <2>1. TypeOK'
    BY <1>2 DEF TypeOK, Loop, Goto
  <2>2. ControlOK'
    BY <1>2, ControlKept DEF Loop
  <2>3. QED
    BY <2>1, <2>2
<1>3. ASSUME NEW i \in Inbox, inbox[i] # <<>>
      PROVE  Head(inbox[i]) \in Tcps /\ Tail(inbox[i]) \in Seq(Tcps)
  BY <1>3 DEF TypeOK
<1>4. CASE t = 0 /\ AdoptListener
  <2>1. Head(inbox[0]) \in Tcps /\ Tail(inbox[0]) \in Seq(Tcps)
    BY <1>3, <1>4 DEF AdoptListener
  <2>a. sockets' \in [Thread -> SUBSET Tcps]
    BY <1>4, <2>1 DEF TypeOK, AdoptListener
  <2>b. interest' \in [Tcps -> SUBSET ReadWrite]
    BY <1>4, InterestType DEF AdoptListener
  <2>2. TypeOK'
    BY <1>4, <2>1, <2>a, <2>b DEF TypeOK, AdoptListener
  <2>3. ControlOK'
    BY <1>4, ControlKept DEF AdoptListener
  <2>4. QED
    BY <2>2, <2>3
<1>5. CASE AdoptSocket(t)
  <2> DEFINE c == Head(inbox[t])
  <2>1. t \in Inbox
    OBVIOUS
  <2>2. c \in Tcps /\ Tail(inbox[t]) \in Seq(Tcps)
    BY <1>3, <1>5, <2>1 DEF AdoptSocket
  <2>3. tcp[c] \in TcpRecord
    BY <2>2 DEF TypeOK
  <2>4. (tcp[c].evmask \/ tcp[c].state = "Connnecting") \in BOOLEAN
    BY <2>3 DEF TcpRecord
  <2>5. tcp' \in [Tcps -> TcpRecord]
    BY <1>5, <2>3, <2>4, TcpFields DEF TypeOK, AdoptSocket
  <2>a. sockets' \in [Thread -> SUBSET Tcps]
    BY <1>5, <2>2 DEF TypeOK, AdoptSocket
  <2>b. interest' \in [Tcps -> SUBSET ReadWrite]
    BY <1>5, InterestType DEF AdoptSocket
  <2>6. TypeOK'
    BY <1>5, <2>1, <2>2, <2>5, <2>a, <2>b DEF TypeOK, AdoptSocket
  <2>7. ControlOK'
    BY <1>5, ControlKept DEF AdoptSocket
  <2>8. QED
    BY <2>6, <2>7
<1>6. CASE InboxDone(t)
  <2>1. Registered(t) \in SUBSET Tcps /\ sockets[t] \in SUBSET Tcps
    BY DEF TypeOK, Registered
  <2>0. todo \in [Thread -> SUBSET Tcps]
    BY DEF TypeOK
  <2>a. todo' \in [Thread -> SUBSET Tcps]
    BY <1>6, <2>0, <2>1 DEF InboxDone
  <2>b. \E l \in {"loop", "poll", "walk"} : pc' = [pc EXCEPT ![t] = l]
    BY <1>6 DEF InboxDone, Goto
  <2>c. pc' \in [Thread -> Label]
    BY <2>b, LabelType DEF Label
  <2>d. TypeOK'
    BY <1>6, <2>a, <2>c DEF TypeOK, InboxDone, Label
  <2>2. ControlOK'
    BY <1>6, ControlKept DEF InboxDone
  <2>3. QED
    BY <2>d, <2>2
<1>7. CASE DrainInbox(t)
  <2>1. t \in Inbox
    OBVIOUS
  <2>2. Head(inbox[t]) \in Tcps /\ Tail(inbox[t]) \in Seq(Tcps)
    BY <1>3, <1>7, <2>1 DEF DrainInbox
  <2>3. NewTcp \in TcpRecord
    BY DEF NewTcp, TcpRecord, State
  <2>4. TypeOK'
    BY <1>7, <2>1, <2>2, <2>3 DEF TypeOK, DrainInbox
  <2>5. ControlOK'
    BY <1>7, ControlKept DEF DrainInbox
  <2>6. QED
    BY <2>4, <2>5
<1>8. CASE KillSockets(t)
  <2>1. NewTcp \in TcpRecord
    BY DEF NewTcp, TcpRecord, State
  <2>2. TypeOK'
    BY <1>8, <2>1 DEF TypeOK, KillSockets, Goto
  <2>3. ControlOK'
    BY <1>8, ControlKept DEF KillSockets
  <2>4. QED
    BY <2>2, <2>3
<1>9. QED
  BY <1>1, <1>2, <1>4, <1>5, <1>6, <1>7, <1>8

\* AdjustInterest keeps the types of both variables it may change.
LEMMA AdjustType ==
    ASSUME TypeOK, NEW c \in Tcps, AdjustInterest(c)
    PROVE  tcp' \in [Tcps -> TcpRecord] /\ interest' \in [Tcps -> SUBSET ReadWrite]
<1>1. tcp[c] \in TcpRecord /\ tcp[c].obuf \in BOOLEAN
  BY DEF TypeOK, TcpRecord
<1>2. CASE tcp[c].obuf = tcp[c].evmask
  BY <1>2 DEF TypeOK, AdjustInterest
<1>3. CASE tcp[c].obuf # tcp[c].evmask
  <2>1. tcp' \in [Tcps -> TcpRecord]
    <3>1. [tcp[c] EXCEPT !.evmask = tcp[c].obuf] \in TcpRecord
      BY <1>1, TcpFields
    <3>2. tcp' = [tcp EXCEPT ![c] = [tcp[c] EXCEPT !.evmask = tcp[c].obuf]]
      BY <1>3 DEF AdjustInterest
    <3>3. QED
      BY <3>1, <3>2 DEF TypeOK
  <2>2. interest' \in [Tcps -> SUBSET ReadWrite]
    BY <1>3, InterestType DEF AdjustInterest
  <2>3. QED
    BY <2>1, <2>2
<1>4. QED
  BY <1>2, <1>3

LEMMA WalkType ==
    ASSUME TypeOK, ControlOK, NEW t \in Thread, Walk(t)
    PROVE  TypeOK' /\ ControlOK'
<1> USE DEF ctlVars, sockVars, runVars, postVars
<1>1. \A c \in todo[t] : c \in Tcps /\ tcp[c] \in TcpRecord
  BY DEF TypeOK
<1>2. ASSUME NEW c \in todo[t], Visit(t, c)
      PROVE  todo' \in [Thread -> SUBSET Tcps] /\ pc[t] # "idle"
  BY <1>2 DEF TypeOK, Visit
<1>3. ASSUME NEW c \in todo[t], NEW st \in State
      PROVE  [tcp EXCEPT ![c].state = st] \in [Tcps -> TcpRecord]
  BY <1>1, TcpFields DEF TypeOK
<1>4. ASSUME NEW c \in todo[t], WalkClosing(t, c) PROVE TypeOK' /\ ControlOK'
  <2>1. tcp' \in [Tcps -> TcpRecord]
    BY <1>3, <1>4 DEF WalkClosing, State
  <2>2. TypeOK'
    BY <1>1, <1>2, <1>4, <2>1 DEF TypeOK, WalkClosing, Call, Goto, Callback
  <2>3. ControlOK'
    BY <1>2, <1>4, ControlKept DEF WalkClosing, Call
  <2>4. QED
    BY <2>2, <2>3
<1>5. ASSUME NEW c \in todo[t], WalkRefused(t, c) PROVE TypeOK' /\ ControlOK'
  <2>1. tcp' \in [Tcps -> TcpRecord]
    BY <1>3, <1>5 DEF WalkRefused, State
  <2>2. TypeOK'
    BY <1>1, <1>2, <1>5, <2>1 DEF TypeOK, WalkRefused, Call, Goto, Callback
  <2>3. ControlOK'
    BY <1>2, <1>5, ControlKept DEF WalkRefused, Call
  <2>4. QED
    BY <2>2, <2>3
<1>6. ASSUME NEW c \in todo[t], WalkConnecting(t, c) PROVE TypeOK' /\ ControlOK'
  <2>0. c \in Tcps /\ tcp \in [Tcps -> TcpRecord] /\ [tcp[c] EXCEPT !.evmask = TRUE] \in TcpRecord
    BY <1>1, TcpFields DEF TypeOK
  <2>1. tcp' \in [Tcps -> TcpRecord]
    BY <1>6, <2>0 DEF WalkConnecting
  <2>2. interest' \in [Tcps -> SUBSET ReadWrite]
    BY <1>6, InterestType DEF TypeOK, WalkConnecting
  <2>3. TypeOK'
    BY <1>2, <1>6, <2>1, <2>2 DEF TypeOK, WalkConnecting
  <2>4. ControlOK'
    BY <1>2, <1>6, ControlKept DEF WalkConnecting
  <2>5. QED
    BY <2>3, <2>4
<1>7. ASSUME NEW c \in todo[t], WalkConnected(t, c) PROVE TypeOK' /\ ControlOK'
  <2>1. tcp' \in [Tcps -> TcpRecord] /\ interest' \in [Tcps -> SUBSET ReadWrite]
    BY <1>1, <1>7, AdjustType DEF WalkConnected
  <2>2. TypeOK'
    BY <1>2, <1>7, <2>1 DEF TypeOK, WalkConnected
  <2>3. ControlOK'
    BY <1>2, <1>7, ControlKept DEF WalkConnected
  <2>4. QED
    BY <2>2, <2>3
<1>8. ASSUME NEW c \in todo[t], WalkTimeout(t, c) PROVE TypeOK' /\ ControlOK'
  <2>1. TypeOK'
    BY <1>1, <1>2, <1>8 DEF TypeOK, WalkTimeout, Call, Goto, Callback
  <2>2. ControlOK'
    BY <1>2, <1>8, ControlKept DEF WalkTimeout, Call
  <2>3. QED
    BY <2>1, <2>2
<1>9. CASE WalkDone(t)
  <2>1. Registered(t) \in SUBSET Tcps
    BY DEF TypeOK, Registered
  <2>2. TypeOK'
    BY <1>9, <2>1 DEF TypeOK, WalkDone, Goto
  <2>3. ControlOK'
    BY <1>9, ControlKept DEF WalkDone
  <2>4. QED
    BY <2>2, <2>3
<1>10. QED
  BY <1>4, <1>5, <1>6, <1>7, <1>8, <1>9 DEF Walk

LEMMA PollType ==
    ASSUME TypeOK, ControlOK, NEW t \in Thread, Poll(t)
    PROVE  TypeOK' /\ ControlOK'
<1> USE DEF ctlVars, sockVars, runVars, postVars
<1>1. ASSUME NEW c \in todo[t], NEW events \in SUBSET ReadWrite, Event(t, c, events)
      PROVE  TypeOK' /\ ControlOK'
  <2>1. c \in Tcps /\ tcp[c] \in TcpRecord
    BY DEF TypeOK
  <2>2. tcp' \in [Tcps -> TcpRecord]
    BY <1>1, <2>1, TcpFields DEF TypeOK, Event, State
  <2>3. todo' \in [Thread -> SUBSET Tcps] /\ ev' \in [Thread -> SUBSET ReadWrite]
    BY <1>1 DEF TypeOK, Event
  <2>0. \E l \in {"call", "write", "read"} : pc' = [pc EXCEPT ![t] = l]
    BY <1>1 DEF Event, Call, Goto
  <2>a. pc' \in [Thread -> Label]
    BY <2>0, LabelType DEF Label
  <2>b. cb' \in [Thread -> Callback \cup {"none"}]
    BY <1>1 DEF TypeOK, Event, Call, Callback
  <2>c. cur' \in [Thread -> Tcps \cup {NoTcp}]
    BY <1>1, <2>1 DEF TypeOK, Event, Call
  <2>4. TypeOK'
    BY <1>1, <2>2, <2>3, <2>a, <2>b, <2>c DEF TypeOK, Event, Label
  <2>5. ControlOK'
    BY <1>1, ControlKept DEF Event, Call
  <2>6. QED
    BY <2>4, <2>5
<1>2. cur[t] \in Tcps => tcp[cur[t]] \in TcpRecord
  BY DEF TypeOK
<1>3. ASSUME NEW drained \in BOOLEAN, WriteEvent(t, drained) PROVE TypeOK' /\ ControlOK'
  <2>1. tcp' \in [Tcps -> TcpRecord]
    BY <1>2, <1>3, TcpOperators DEF TypeOK, WriteEvent
  <2>0. \E l \in {"call", "read", "poll"} : pc' = [pc EXCEPT ![t] = l]
    BY <1>3 DEF WriteEvent, AfterWrite, Call, Goto
  <2>a. pc' \in [Thread -> Label]
    BY <2>0, LabelType DEF Label
  <2>b. cb' \in [Thread -> Callback \cup {"none"}]
    BY <1>3 DEF TypeOK, WriteEvent, Call, Callback
  <2>2. cur' \in [Thread -> Tcps \cup {NoTcp}]
    BY <1>3 DEF TypeOK, WriteEvent, AfterWrite, Call
  <2>3. TypeOK'
    BY <1>3, <2>1, <2>2, <2>a, <2>b DEF TypeOK, WriteEvent, Label
  <2>4. ControlOK'
    BY <1>3, ControlKept DEF WriteEvent, AfterWrite, Call
  <2>5. QED
    BY <2>3, <2>4
<1>4. ASSUME NEW got \in BOOLEAN, NEW disconnected \in BOOLEAN, ReadEvent(t, got, disconnected)
      PROVE  TypeOK' /\ ControlOK'
  <2>1. tcp' \in [Tcps -> TcpRecord]
    BY <1>2, <1>4, TcpOperators DEF TypeOK, ReadEvent
  <2>0. \E l \in {"call", "poll"} : pc' = [pc EXCEPT ![t] = l]
    BY <1>4 DEF ReadEvent, Call, Goto
  <2>a. pc' \in [Thread -> Label]
    BY <2>0, LabelType DEF Label
  <2>b. cb' \in [Thread -> Callback \cup {"none"}]
    BY <1>4 DEF TypeOK, ReadEvent, Call, Callback
  <2>2. cur' \in [Thread -> Tcps \cup {NoTcp}]
    BY <1>4 DEF TypeOK, ReadEvent, Call
  <2>3. ev' \in [Thread -> SUBSET ReadWrite]
    BY <1>4 DEF TypeOK, ReadEvent
  <2>4. TypeOK'
    BY <1>4, <2>1, <2>2, <2>a, <2>b, <2>3 DEF TypeOK, ReadEvent, Label
  <2>5. ControlOK'
    BY <1>4, ControlKept DEF ReadEvent, Call
  <2>6. QED
    BY <2>4, <2>5
<1>5. ASSUME t = 0, NEW l \in todo[0], ListenEvent(l) PROVE TypeOK' /\ ControlOK'
  <2>1. TypeOK'
    BY <1>5 DEF TypeOK, ListenEvent, Goto
  <2>2. ControlOK'
    BY <1>5, ControlKept DEF ListenEvent
  <2>3. QED
    BY <2>1, <2>2
<1>6. ASSUME t = 0, NEW c \in Conn, Accept(c) PROVE TypeOK' /\ ControlOK'
  <2>1. NewTcp \in TcpRecord
    BY DEF NewTcp, TcpRecord, State
  <2>2. tcp' \in [Tcps -> TcpRecord]
    BY <1>6, <2>1, TcpOperators DEF TypeOK, Accept
  <2>3. TypeOK'
    BY <1>6, <2>2 DEF TypeOK, Accept, Call, Goto, Callback, Tcps
  <2>4. ControlOK'
    BY <1>6, ControlKept DEF Accept, Call
  <2>5. QED
    BY <2>3, <2>4
<1>7. CASE t = 0 /\ AcceptNone
  <2>1. TypeOK'
    BY <1>7 DEF TypeOK, AcceptNone, Goto
  <2>2. ControlOK'
    BY <1>7, ControlKept DEF AcceptNone
  <2>3. QED
    BY <2>1, <2>2
<1>8. CASE PollDone(t)
  <2>1. TypeOK'
    BY <1>8 DEF TypeOK, PollDone, Goto
  <2>2. ControlOK'
    BY <1>8, ControlKept DEF PollDone
  <2>3. QED
    BY <2>1, <2>2
<1>9. QED
  BY <1>1, <1>3, <1>4, <1>5, <1>6, <1>7, <1>8 DEF Poll, Handle

LEMMA CallbackType ==
    ASSUME TypeOK, ControlOK, NEW t \in Thread, CallbackStep(t)
    PROVE  TypeOK' /\ ControlOK'
<1> USE DEF ctlVars, sockVars, runVars, postVars
<1>1. ASSUME NEW s \in Tcps, CbSend(t, s) \/ CbRecv(t, s) \/ CbClose(t, s)
      PROVE  TypeOK' /\ ControlOK'
  <2>1. tcp[s] \in TcpRecord
    BY DEF TypeOK
  <2>2. tcp' \in [Tcps -> TcpRecord]
    BY <1>1, <2>1, TcpOperators DEF TypeOK, CbSend, CbRecv, CbClose
  <2>3. QED
    BY <1>1, <2>2 DEF TypeOK, ControlOK, CbSend, CbRecv, CbClose
<1>2. CASE CbConnect(t)
  <2>1. PICK c \in Conn, x \in BOOLEAN, i \in Inbox : Connect(t, c, x, i)
    BY <1>2 DEF CbConnect
  <2>2. QED
    BY <2>1, ConnectType DEF Poster
<1>3. QED
  BY <1>1, <1>2 DEF CallbackStep

\* Counting a connection up or down.
LEMMA LoadType ==
    ASSUME TypeOK, NEW c
    PROVE  /\ [load EXCEPT ![c] = @ + 1] \in [Conn -> Int]
           /\ [load EXCEPT ![c] = @ - 1] \in [Conn -> Int]
<1>1. CASE c \in Conn
  <2>1. load[c] + 1 \in Int /\ load[c] - 1 \in Int
    BY <1>1 DEF TypeOK
  <2>2. QED
    BY <2>1 DEF TypeOK
<1>2. CASE c \notin Conn
  BY <1>2 DEF TypeOK
<1>3. QED
  BY <1>1, <1>2

LEMMA ReturnType ==
    ASSUME TypeOK, ControlOK, NEW t \in Thread, Return(t)
    PROVE  TypeOK' /\ ControlOK'
<1> USE DEF ctlVars, sockVars, runVars, postVars
<1>1. cur[t] \in Tcps => tcp[cur[t]] \in TcpRecord
  BY DEF TypeOK
<1>2. ASSUME NEW ok \in BOOLEAN, NEW u \in Thread, CloseUnless(ok, cur[u])
      PROVE  tcp' \in [Tcps -> TcpRecord]
  <2>1. cur[u] \in Tcps => Close(tcp[cur[u]]) \in TcpRecord
    BY TcpOperators DEF TypeOK
  <2>2. QED
    BY <1>2, <2>1 DEF TypeOK, CloseUnless
<1>3. CASE ReturnFinal(t)
  <2>1. NewTcp \in TcpRecord
    BY DEF NewTcp, TcpRecord, State
  <2>a. /\ sockets' \in [Thread -> SUBSET Tcps]
        /\ interest' \in [Tcps -> SUBSET ReadWrite]
        /\ tcp' \in [Tcps -> TcpRecord]
    BY <1>3, <2>1 DEF TypeOK, ReturnFinal
  <2>b. load' \in [Conn -> Int]
    BY <1>3, LoadType DEF ReturnFinal
  <2>2. TypeOK'
    BY <1>3, <2>a, <2>b DEF TypeOK, ReturnFinal, EndCall, Goto
  <2>3. ControlOK'
    BY <1>3, ControlKept DEF ReturnFinal, Returning, InCallback
  <2>4. QED
    BY <2>2, <2>3
<1>4. ASSUME NEW ok \in BOOLEAN, ReturnTimeout(t, ok) PROVE TypeOK' /\ ControlOK'
  <2>1. tcp' \in [Tcps -> TcpRecord] /\ interest' \in [Tcps -> SUBSET ReadWrite]
    <3>1. CASE ok /\ cur[t] \in Tcps
      BY <1>4, <3>1, AdjustType DEF ReturnTimeout
    <3>2. CASE ok /\ cur[t] \notin Tcps
      BY <1>4, <3>2 DEF TypeOK, ReturnTimeout, AdjustInterest, Modified
    <3>3. CASE ~ok
      BY <1>2, <1>4, <3>3 DEF TypeOK, ReturnTimeout
    <3>4. QED
      BY <3>1, <3>2, <3>3
  <2>2. TypeOK'
    BY <1>4, <2>1 DEF TypeOK, ReturnTimeout, EndCall, Goto
  <2>3. ControlOK'
    BY <1>4, ControlKept DEF ReturnTimeout, Returning, InCallback
  <2>4. QED
    BY <2>2, <2>3
<1>5. ASSUME NEW ok \in BOOLEAN, ReturnOpened(t, ok) PROVE TypeOK' /\ ControlOK'
  <2>1. tcp' \in [Tcps -> TcpRecord]
    BY <1>2, <1>5 DEF ReturnOpened
  <2>2. TypeOK'
    BY <1>5, <2>1 DEF TypeOK, ReturnOpened, Goto
  <2>3. ControlOK'
    BY <1>5, ControlKept DEF ReturnOpened, Returning, InCallback
  <2>4. QED
    BY <2>2, <2>3
<1>6. ASSUME NEW ok \in BOOLEAN, ReturnSent(t, ok) PROVE TypeOK' /\ ControlOK'
  <2>1. tcp' \in [Tcps -> TcpRecord]
    BY <1>2, <1>6 DEF ReturnSent
  <2>2. TypeOK'
    BY <1>6, <2>1 DEF TypeOK, ReturnSent, AfterWrite, Goto
  <2>3. ControlOK'
    BY <1>6, ControlKept DEF ReturnSent, AfterWrite, Returning, InCallback
  <2>4. QED
    BY <2>2, <2>3
<1>7. ASSUME NEW ok \in BOOLEAN, ReturnRecv(t, ok) PROVE TypeOK' /\ ControlOK'
  <2>1. tcp' \in [Tcps -> TcpRecord]
    BY <1>2, <1>7 DEF ReturnRecv
  <2>2. TypeOK'
    BY <1>7, <2>1 DEF TypeOK, ReturnRecv, EndCall, Goto
  <2>3. ControlOK'
    BY <1>7, ControlKept DEF ReturnRecv, Returning, InCallback
  <2>4. QED
    BY <2>2, <2>3
<1>8. ASSUME t = 0, NEW ok \in BOOLEAN, NEW i \in Inbox, ReturnAccepted(ok, i)
      PROVE  TypeOK' /\ ControlOK'
  <2>1. tcp' \in [Tcps -> TcpRecord]
    BY <1>2, <1>8 DEF ReturnAccepted
  <2>a. hand' \in [Poster -> Tcps \cup {NoTcp}] /\ dest' \in [Poster -> Inbox]
    BY <1>8 DEF TypeOK, ReturnAccepted
  <2>b. load' \in [Conn -> Int]
    BY <1>8, LoadType DEF ReturnAccepted
  <2>2. TypeOK'
    BY <1>8, <2>1, <2>a, <2>b DEF TypeOK, ReturnAccepted, EndCall, Goto
  <2>3. ControlOK'
    BY <1>8, ControlKept DEF ReturnAccepted, Returning, InCallback
  <2>4. QED
    BY <2>2, <2>3
<1>9. QED
  BY <1>3, <1>4, <1>5, <1>6, <1>7, <1>8 DEF Return

LEMMA TypeStep == TypeOK /\ ControlOK /\ [Next]_vars => TypeOK' /\ ControlOK'
<1> SUFFICES ASSUME TypeOK, ControlOK, [Next]_vars
             PROVE  TypeOK' /\ ControlOK'
  OBVIOUS
<1>1. CASE UNCHANGED vars
  BY <1>1 DEF TypeOK, ControlOK, vars, ctlVars, sockVars, runVars, postVars
<1>2. CASE Rest
  BY <1>1, <1>2 DEF Rest
<1>3. ASSUME NEW t \in Thread, ThreadStep(t) PROVE TypeOK' /\ ControlOK'
  BY <1>3, AdoptType, WalkType, PollType DEF ThreadStep
<1>4. QED
  BY <1>1, <1>2, <1>3, ControlType, PostingType, CallbackType, ReturnType DEF Next

\* Every variable keeps its type, for any number of connections, listeners,
\* application threads, workers and inboxes (netengine.cpp, threads.cpp, tcp.cpp).
THEOREM TypeCorrect == Spec => []TypeOK
<1>1. Spec => [](TypeOK /\ ControlOK)
  BY TypeInit, TypeStep, PTL DEF Spec
<1>2. QED
  BY <1>1, PTL

------------------------------------------------------------------------------
(* Where a thread is, and what it holds there: ThreadOK is inductive with the  *)
(* types.                                                                      *)

LEMMA ThreadInitially == Init => ThreadOK
BY EngineAssumption DEF Init, ThreadOK, Thread

\* A step that leaves the local state of every thread alone.
LEMMA ThreadUnchanged ==
    ASSUME ThreadOK, UNCHANGED <<pc, cb, cur, todo, sockets>>
    PROVE  ThreadOK'
BY DEF ThreadOK

LEMMA ControlThread ==
    ASSUME TypeOK, ControlOK, ThreadOK,
           (\E n \in Sizes : Start(n) \/ StartFails(n)) \/ Stop \/ ControlStep
    PROVE  ThreadOK'
<1> USE DEF ctlVars, sockVars, runVars, postVars
<1>1. ASSUME NEW n \in Sizes, Start(n) \/ StartFails(n) PROVE ThreadOK'
  BY <1>1, ThreadUnchanged DEF Start, StartFails
<1>2. CASE Stop \/ ClearFlag
  BY <1>2, ThreadUnchanged DEF Stop, ClearFlag
<1>3. CASE StartThread
  <2>1. at \in Thread /\ pc[at] = "idle"
    BY <1>3 DEF TypeOK, ControlOK, StartThread, Thread
  <2>2. QED
    BY <1>3, <2>1 DEF TypeOK, ThreadOK, StartThread
<1>4. CASE Join
  <2>1. at \in Thread /\ pc[at] = "done"
    BY <1>4 DEF TypeOK, Join
  <2>2. QED
    BY <1>4, <2>1 DEF TypeOK, ThreadOK, Join
<1>5. QED
  BY <1>1, <1>2, <1>3, <1>4 DEF ControlStep

LEMMA PostingThread ==
    ASSUME ThreadOK,
           \/ \E a \in App : AppStep(a)
           \/ \E p \in Poster : Post(p)
           \/ \E t \in Thread : CallbackStep(t)
    PROVE  ThreadOK'
<1> USE DEF ctlVars, sockVars, runVars, postVars
<1>1. ASSUME NEW p, NEW c, NEW x, NEW i, Connect(p, c, x, i) PROVE ThreadOK'
  BY <1>1, ThreadUnchanged DEF Connect
<1>2. ASSUME NEW a \in App, AppStep(a) PROVE ThreadOK'
  BY <1>1, <1>2, ThreadUnchanged DEF AppStep, AppListen, AppConnect
<1>3. ASSUME NEW p \in Poster, Post(p) PROVE ThreadOK'
  BY <1>3, ThreadUnchanged DEF Post
<1>4. ASSUME NEW t \in Thread, CallbackStep(t) PROVE ThreadOK'
  BY <1>1, <1>4, ThreadUnchanged DEF CallbackStep, CbSend, CbRecv, CbClose, CbConnect
<1>5. QED
  BY <1>2, <1>3, <1>4

LEMMA AdoptThread ==
    ASSUME TypeOK, ThreadOK, NEW t \in Thread,
           ThreadInit(t) \/ Loop(t) \/ (t = 0 /\ AdoptListener) \/ AdoptSocket(t) \/ InboxDone(t)
           \/ DrainInbox(t) \/ KillSockets(t)
    PROVE  ThreadOK'
<1> USE DEF ctlVars, sockVars, runVars, postVars, TypeOK, ThreadOK, Goto
<1>1. CASE ThreadInit(t)
  BY <1>1 DEF ThreadInit
<1>2. CASE Loop(t)
  BY <1>2 DEF Loop
<1>3. CASE t = 0 /\ AdoptListener
  BY <1>3 DEF AdoptListener
<1>4. CASE AdoptSocket(t)
  BY <1>4 DEF AdoptSocket
<1>5. CASE InboxDone(t)
  <2>1. pc[t] = "inbox" /\ cb' = cb /\ cur' = cur /\ sockets' = sockets
    BY <1>5 DEF InboxDone
  <2>2. CASE sockets[t] = {}
    <3>1. pc' = [pc EXCEPT ![t] = "loop"] /\ todo' = todo
      BY <1>5, <2>2 DEF InboxDone
    <3>2. QED
      BY <2>1, <3>1
  <2>3. CASE sockets[t] # {} /\ t = 0
    <3>1. pc' = [pc EXCEPT ![t] = "poll"] /\ todo' = [todo EXCEPT ![t] = Registered(t)]
      BY <1>5, <2>3 DEF InboxDone
    <3>2. QED
      BY <2>1, <2>3, <3>1
  <2>4. CASE sockets[t] # {} /\ t # 0
    <3>1. pc' = [pc EXCEPT ![t] = "walk"] /\ todo' = [todo EXCEPT ![t] = sockets[t]]
      BY <1>5, <2>4 DEF InboxDone
    <3>2. QED
      BY <2>1, <2>4, <3>1
  <2>5. QED
    BY <2>2, <2>3, <2>4
<1>6. CASE DrainInbox(t)
  BY <1>6 DEF DrainInbox
<1>7. CASE KillSockets(t)
  BY <1>7 DEF KillSockets
<1>8. QED
  BY <1>1, <1>2, <1>3, <1>4, <1>5, <1>6, <1>7

LEMMA WalkThread ==
    ASSUME TypeOK, ThreadOK, NEW t \in Thread, Walk(t)
    PROVE  ThreadOK'
<1> USE EngineAssumption
    DEF ctlVars, sockVars, runVars, postVars, TypeOK, ThreadOK, Goto, Call, Visit
<1>1. ASSUME NEW c \in todo[t], WalkClosing(t, c) \/ WalkRefused(t, c) \/ WalkTimeout(t, c)
      PROVE  ThreadOK'
  <2>1. c # NoTcp /\ pc[t] = "walk"
    BY <1>1 DEF WalkClosing, WalkRefused, WalkTimeout
  <2>2. \E f \in {"closed", "refused", "timeout"} :
           /\ pc' = [pc EXCEPT ![t] = "call"]
           /\ cb' = [cb EXCEPT ![t] = f]
           /\ cur' = [cur EXCEPT ![t] = c]
           /\ todo' = [todo EXCEPT ![t] = @ \ {c}]
           /\ sockets' = sockets
    BY <1>1 DEF WalkClosing, WalkRefused, WalkTimeout
  <2>3. QED
    BY <2>1, <2>2
<1>2. ASSUME NEW c \in todo[t], WalkConnecting(t, c) \/ WalkConnected(t, c) PROVE ThreadOK'
  <2>1. /\ pc[t] = "walk"
        /\ todo' = [todo EXCEPT ![t] = @ \ {c}]
        /\ UNCHANGED <<pc, cb, cur, sockets>>
    BY <1>2 DEF WalkConnecting, WalkConnected
  <2>2. QED
    BY <2>1
<1>3. CASE WalkDone(t)
  BY <1>3 DEF WalkDone
<1>4. QED
  BY <1>1, <1>2, <1>3 DEF Walk

LEMMA PollThread ==
    ASSUME TypeOK, ThreadOK, NEW t \in Thread, Poll(t)
    PROVE  ThreadOK'
<1> USE EngineAssumption
    DEF ctlVars, sockVars, runVars, postVars, TypeOK, ThreadOK, Goto, Call
<1>1. ASSUME NEW c \in todo[t], NEW events \in SUBSET ReadWrite, Event(t, c, events)
      PROVE  ThreadOK'
  <2>1. c # NoTcp /\ t # 0 /\ pc[t] = "poll"
    BY <1>1 DEF Event
  <2>2. CASE "W" \in events /\ tcp[c].state = "Connnecting"
    <3>1. /\ pc' = [pc EXCEPT ![t] = "call"]
          /\ cb' = [cb EXCEPT ![t] = "opened"]
          /\ cur' = [cur EXCEPT ![t] = c]
          /\ todo' = [todo EXCEPT ![t] = @ \ {c}]
          /\ sockets' = sockets
      BY <1>1, <2>2 DEF Event
    <3>2. QED
      BY <2>1, <3>1
  <2>3. CASE ~("W" \in events /\ tcp[c].state = "Connnecting")
    <3>1. /\ \E l \in {"write", "read"} : pc' = [pc EXCEPT ![t] = l]
          /\ cb' = cb
          /\ cur' = [cur EXCEPT ![t] = c]
          /\ todo' = [todo EXCEPT ![t] = @ \ {c}]
          /\ sockets' = sockets
      BY <1>1, <2>3 DEF Event
    <3>2. QED
      BY <2>1, <3>1
  <2>4. QED
    BY <2>2, <2>3
<1>2. ASSUME NEW drained \in BOOLEAN, WriteEvent(t, drained) PROVE ThreadOK'
  <2>1. t # 0 /\ pc[t] = "write" /\ cur[t] # NoTcp /\ cb[t] = "none"
    BY <1>2 DEF WriteEvent
  <2>2. todo' = todo /\ sockets' = sockets
    BY <1>2 DEF WriteEvent
  <2>3. CASE tcp'[cur[t]].obuf /\ "R" \in ev[t]
    <3>1. pc' = [pc EXCEPT ![t] = "read"] /\ cur' = cur /\ cb' = cb
      BY <1>2, <2>3 DEF WriteEvent, AfterWrite
    <3>2. QED
      BY <2>1, <2>2, <3>1
  <2>4. CASE tcp'[cur[t]].obuf /\ "R" \notin ev[t]
    <3>1. pc' = [pc EXCEPT ![t] = "poll"] /\ cur' = [cur EXCEPT ![t] = NoTcp] /\ cb' = cb
      BY <1>2, <2>4 DEF WriteEvent, AfterWrite
    <3>2. QED
      BY <2>1, <2>2, <3>1
  <2>5. CASE ~tcp'[cur[t]].obuf
    <3>1. /\ pc' = [pc EXCEPT ![t] = "call"]
          /\ cur' = [cur EXCEPT ![t] = cur[t]]
          /\ cb' = [cb EXCEPT ![t] = "sent"]
      BY <1>2, <2>5 DEF WriteEvent
    <3>2. QED
      BY <2>1, <2>2, <3>1
  <2>6. QED
    BY <2>3, <2>4, <2>5
<1>3. ASSUME NEW got \in BOOLEAN, NEW disconnected \in BOOLEAN, ReadEvent(t, got, disconnected)
      PROVE  ThreadOK'
  <2>1. t # 0 /\ pc[t] = "read" /\ cur[t] # NoTcp /\ cb[t] = "none"
    BY <1>3 DEF ReadEvent
  <2>2. todo' = todo /\ sockets' = sockets
    BY <1>3 DEF ReadEvent
  <2>3. CASE tcp'[cur[t]].ibuf
    <3>1. /\ pc' = [pc EXCEPT ![t] = "call"]
          /\ cur' = [cur EXCEPT ![t] = cur[t]]
          /\ cb' = [cb EXCEPT ![t] = "recv"]
      BY <1>3, <2>3 DEF ReadEvent
    <3>2. QED
      BY <2>1, <2>2, <3>1
  <2>4. CASE ~tcp'[cur[t]].ibuf
    <3>1. pc' = [pc EXCEPT ![t] = "poll"] /\ cur' = [cur EXCEPT ![t] = NoTcp] /\ cb' = cb
      BY <1>3, <2>4 DEF ReadEvent
    <3>2. QED
      BY <2>1, <2>2, <3>1
  <2>5. QED
    BY <2>3, <2>4
<1>4. ASSUME t = 0, NEW l \in todo[0], ListenEvent(l) PROVE ThreadOK'
  BY <1>4 DEF ListenEvent
<1>5. ASSUME t = 0, NEW c \in Conn, Accept(c) PROVE ThreadOK'
  <2>1. c # NoTcp
    BY DEF Tcps
  <2>2. QED
    BY <1>5, <2>1 DEF Accept
<1>6. CASE t = 0 /\ AcceptNone
  BY <1>6 DEF AcceptNone
<1>7. CASE PollDone(t)
  BY <1>7 DEF PollDone
<1>8. QED
  BY <1>1, <1>2, <1>3, <1>4, <1>5, <1>6, <1>7 DEF Poll, Handle

LEMMA ReturnThread ==
    ASSUME TypeOK, ThreadOK, NEW t \in Thread, Return(t)
    PROVE  ThreadOK'
<1> USE DEF ctlVars, sockVars, runVars, postVars, TypeOK, ThreadOK, Goto, EndCall,
            Returning, InCallback
<1>1. CASE ReturnFinal(t)
  BY <1>1 DEF ReturnFinal
<1>2. ASSUME NEW ok \in BOOLEAN, ReturnTimeout(t, ok) PROVE ThreadOK'
  BY <1>2 DEF ReturnTimeout
<1>3. ASSUME NEW ok \in BOOLEAN, ReturnOpened(t, ok) PROVE ThreadOK'
  BY <1>3 DEF ReturnOpened
<1>4. ASSUME NEW ok \in BOOLEAN, ReturnSent(t, ok) PROVE ThreadOK'
  BY <1>4 DEF ReturnSent, AfterWrite
<1>5. ASSUME NEW ok \in BOOLEAN, ReturnRecv(t, ok) PROVE ThreadOK'
  BY <1>5 DEF ReturnRecv
<1>6. ASSUME t = 0, NEW ok \in BOOLEAN, NEW i \in Inbox, ReturnAccepted(ok, i)
      PROVE  ThreadOK'
  BY <1>6 DEF ReturnAccepted
<1>7. QED
  BY <1>1, <1>2, <1>3, <1>4, <1>5, <1>6 DEF Return

LEMMA ThreadOKStep == TypeOK /\ ControlOK /\ ThreadOK /\ [Next]_vars => ThreadOK'
<1> SUFFICES ASSUME TypeOK, ControlOK, ThreadOK, [Next]_vars
             PROVE  ThreadOK'
  OBVIOUS
<1>1. CASE UNCHANGED vars \/ Rest
  BY <1>1, ThreadUnchanged DEF vars, Rest, ctlVars, sockVars, runVars, postVars
<1>2. ASSUME NEW t \in Thread, ThreadStep(t) PROVE ThreadOK'
  BY <1>2, AdoptThread, WalkThread, PollThread DEF ThreadStep
<1>3. QED
  BY <1>1, <1>2, ControlThread, PostingThread, ReturnThread DEF Next

------------------------------------------------------------------------------
(* Ownership.  A Tcp pointer moves from one place to another; each place excludes *)
(* the others.  The lemmas below say what is left of the ownership of s when it   *)
(* stays, when it arrives and when it is gone, so that a step only has to say     *)
(* which pointer it moves.                                                        *)

LEMMA OwnedElsewhere ==
    ASSUME NEW s, Owned(s)
    PROVE  /\ mem[s] # "live" => ~Held(s)
           /\ \A i \in Inbox : InInbox(i, s) => InboxOwns(i, s) /\ mem[s] = "live"
           /\ \A t \in Thread : InList(t, s) =>
                 ListOwns(t, s) /\ mem[s] = "live" /\ \A i \in Inbox : ~InInbox(i, s)
           /\ \A p \in Poster : InHand(p, s) =>
                 /\ HandOwns(p, s) /\ mem[s] = "live"
                 /\ \A i \in Inbox : ~InInbox(i, s)
                 /\ \A t \in Thread : ~InList(t, s)
           /\ \A t \in Thread : Accepting(t, s) =>
                 /\ mem[s] = "live"
                 /\ \A i \in Inbox : ~InInbox(i, s)
                 /\ \A u \in Thread : ~InList(u, s)
                 /\ \A p \in Poster : ~InHand(p, s)
BY DEF Owned, Held, InboxOwns, ListOwns, HandOwns

\* s stays where it is.
LEMMA OwnedStays ==
    ASSUME NEW s, Owned(s), mem'[s] = mem[s],
           \A i \in Inbox : InInbox(i, s)' <=> InInbox(i, s),
           \A t \in Thread : InList(t, s)' <=> InList(t, s),
           \A t \in Thread : Accepting(t, s)' <=> Accepting(t, s),
           \A p \in Poster : InHand(p, s)' <=> InHand(p, s)
    PROVE  Owned(s)'
BY DEF Owned, Held, InboxOwns, ListOwns, HandOwns

\* s is gone, or was never there.
LEMMA OwnedNowhere ==
    ASSUME NEW s, mem'[s] # "live",
           \A i \in Inbox : ~InInbox(i, s)',
           \A t \in Thread : ~InList(t, s)' /\ ~Accepting(t, s)',
           \A p \in Poster : ~InHand(p, s)'
    PROVE  Owned(s)'
BY DEF Owned, Held

\* s has arrived in the hand of p, in inbox i, in the list of t, or is being accepted.
LEMMA OwnedInHand ==
    ASSUME NEW s, NEW p \in Poster, mem'[s] = "live",
           \A i \in Inbox : ~InInbox(i, s)',
           \A t \in Thread : ~InList(t, s)' /\ ~Accepting(t, s)',
           \A q \in Poster : InHand(q, s)' <=> q = p
    PROVE  Owned(s)'
BY DEF Owned, Held, HandOwns

LEMMA OwnedInInbox ==
    ASSUME NEW s, NEW i \in Inbox, mem'[s] = "live",
           \A j \in Inbox : InInbox(j, s)' <=> j = i,
           \A t \in Thread : ~InList(t, s)' /\ ~Accepting(t, s)',
           \A p \in Poster : ~InHand(p, s)'
    PROVE  Owned(s)'
BY DEF Owned, Held, InboxOwns

LEMMA OwnedInList ==
    ASSUME NEW s, NEW t \in Thread, mem'[s] = "live",
           \A i \in Inbox : ~InInbox(i, s)',
           \A u \in Thread : (InList(u, s)' <=> u = t) /\ ~Accepting(u, s)',
           \A p \in Poster : ~InHand(p, s)'
    PROVE  Owned(s)'
BY DEF Owned, Held, ListOwns

LEMMA OwnedAccepting ==
    ASSUME NEW s, NEW t \in Thread, mem'[s] = "live", Accepting(t, s)',
           \A i \in Inbox : ~InInbox(i, s)',
           \A u \in Thread : ~InList(u, s)',
           \A p \in Poster : ~InHand(p, s)'
    PROVE  Owned(s)'
BY DEF Owned, Held

\* What MessageQueue::post() and get() do to a queue without repetitions.
LEMMA QueueAppend ==
    ASSUME NEW q \in Seq(Tcps), NEW x \in Tcps,
           \A m, n \in DOMAIN q : q[m] = q[n] => m = n
    PROVE  /\ \A s : (\E n \in DOMAIN Append(q, x) : Append(q, x)[n] = s)
                     <=> (\E n \in DOMAIN q : q[n] = s) \/ s = x
           /\ (\A n \in DOMAIN q : q[n] # x) =>
                \A m, n \in DOMAIN Append(q, x) : Append(q, x)[m] = Append(q, x)[n] => m = n
<1>1. /\ DOMAIN Append(q, x) = 1 .. Len(q) + 1
      /\ \A n \in 1 .. Len(q) : Append(q, x)[n] = q[n]
      /\ Append(q, x)[Len(q) + 1] = x
      /\ DOMAIN q = 1 .. Len(q) /\ Len(q) \in Nat
  OBVIOUS
<1>2. ASSUME NEW s
      PROVE  (\E n \in DOMAIN Append(q, x) : Append(q, x)[n] = s)
                <=> (\E n \in DOMAIN q : q[n] = s) \/ s = x
  BY <1>1
<1>3. ASSUME \A n \in DOMAIN q : q[n] # x,
             NEW m \in DOMAIN Append(q, x), NEW n \in DOMAIN Append(q, x),
             Append(q, x)[m] = Append(q, x)[n]
      PROVE  m = n
  BY <1>1, <1>3
<1>4. QED
  BY <1>2, <1>3

LEMMA QueueTail ==
    ASSUME NEW q \in Seq(Tcps), q # <<>>,
           \A m, n \in DOMAIN q : q[m] = q[n] => m = n
    PROVE  /\ \A s : (\E n \in DOMAIN Tail(q) : Tail(q)[n] = s)
                     <=> (\E n \in DOMAIN q : q[n] = s) /\ s # Head(q)
           /\ \A m, n \in DOMAIN Tail(q) : Tail(q)[m] = Tail(q)[n] => m = n
           /\ \E n \in DOMAIN q : q[n] = Head(q)
<1>1. /\ DOMAIN Tail(q) = 1 .. Len(q) - 1
      /\ \A n \in 1 .. Len(q) - 1 : Tail(q)[n] = q[n + 1]
      /\ Head(q) = q[1]
      /\ DOMAIN q = 1 .. Len(q) /\ Len(q) \in Nat \ {0}
  OBVIOUS
<1>2. ASSUME NEW s, NEW n \in DOMAIN Tail(q), Tail(q)[n] = s
      PROVE  (\E k \in DOMAIN q : q[k] = s) /\ s # Head(q)
  <2>1. n + 1 \in DOMAIN q /\ n + 1 # 1 /\ 1 \in DOMAIN q /\ q[n + 1] = s
    BY <1>1, <1>2
  <2>2. QED
    BY <1>1, <2>1
<1>3. ASSUME NEW s, NEW n \in DOMAIN q, q[n] = s, s # Head(q)
      PROVE  \E k \in DOMAIN Tail(q) : Tail(q)[k] = s
  <2>1. n - 1 \in DOMAIN Tail(q) /\ Tail(q)[n - 1] = s
    BY <1>1, <1>3
  <2>2. QED
    BY <2>1
<1>4. ASSUME NEW m \in DOMAIN Tail(q), NEW n \in DOMAIN Tail(q), Tail(q)[m] = Tail(q)[n]
      PROVE  m = n
  <2>1. m + 1 \in DOMAIN q /\ n + 1 \in DOMAIN q /\ q[m + 1] = q[n + 1]
    BY <1>1, <1>4
  <2>2. m + 1 = n + 1 /\ m \in Int /\ n \in Int
    BY <1>1, <2>1
  <2>3. QED
    BY <2>2
<1>5. QED
  BY <1>1, <1>2, <1>3, <1>4

\* A step that moves no pointer.
LEMMA NothingMoves ==
    ASSUME SingleOwner, UNCHANGED <<mem, inbox, sockets, hand>>,
           \A t \in Thread : \A s \in Tcps : Accepting(t, s)' <=> Accepting(t, s)
    PROVE  SingleOwner'
<1>1. NoneTwice'
  BY DEF SingleOwner, NoneTwice
<1>2. ASSUME NEW s \in Tcps PROVE Owned(s)'
  BY OwnedStays DEF SingleOwner, InInbox, InList, InHand
<1>3. QED
  BY <1>1, <1>2 DEF SingleOwner

\* Only a step into or out of cb_net_accepted changes what is being accepted.
LEMMA StillAccepting ==
    ASSUME NEW t \in Thread, cb[t] # "accepted", cb'[t] # "accepted",
           \A u \in Thread \ {t} : cb'[u] = cb[u] /\ cur'[u] = cur[u]
    PROVE  \A u \in Thread : \A s \in Tcps : Accepting(u, s)' <=> Accepting(u, s)
BY DEF Accepting

LEMMA ControlOwner ==
    ASSUME SingleOwner,
           (\E n \in Sizes : Start(n) \/ StartFails(n)) \/ Stop \/ ControlStep
    PROVE  SingleOwner'
<1>1. UNCHANGED <<mem, inbox, sockets, hand, cb, cur>>
  BY DEF Start, StartFails, Stop, ControlStep, StartThread, ClearFlag, Join,
         sockVars, runVars, postVars
<1>2. QED
  BY <1>1, NothingMoves DEF Accepting

\* connect() and listen(): a fresh object goes to the hand of the caller.
LEMMA FreshToHand ==
    ASSUME TypeOK, SingleOwner, NEW p \in Poster, NEW c \in Tcps, mem[c] = "fresh",
           hand[p] = NoTcp,
           mem' = [mem EXCEPT ![c] = "live"], hand' = [hand EXCEPT ![p] = c],
           UNCHANGED <<inbox, sockets, cb, cur>>
    PROVE  SingleOwner'
<1>1. NoneTwice'
  BY DEF SingleOwner, NoneTwice
<1>2. ~Held(c)
  BY OwnedElsewhere DEF SingleOwner
<1>3. Owned(c)'
  <2>1. mem'[c] = "live"
    BY DEF TypeOK
  <2>2. \A q \in Poster : InHand(q, c)' <=> q = p
    BY <1>2 DEF TypeOK, InHand, Held
  <2>3. /\ \A i \in Inbox : ~InInbox(i, c)'
        /\ \A t \in Thread : ~InList(t, c)' /\ ~Accepting(t, c)'
    BY <1>2 DEF Held, InInbox, InList, Accepting
  <2>4. QED
    BY <2>1, <2>2, <2>3, OwnedInHand
<1>4. ASSUME NEW s \in Tcps, s # c PROVE Owned(s)'
  <2>1. mem'[s] = mem[s]
    BY <1>4 DEF TypeOK
  <2>2. \A q \in Poster : InHand(q, s)' <=> InHand(q, s)
    BY <1>4, EngineAssumption DEF TypeOK, InHand
  <2>3. QED
    BY <2>1, <2>2, OwnedStays DEF SingleOwner, InInbox, InList, Accepting
<1>5. QED
  BY <1>1, <1>3, <1>4 DEF SingleOwner

LEMMA ConnectOwner ==
    ASSUME TypeOK, SingleOwner, NEW p \in Poster, NEW c, NEW x, NEW i, Connect(p, c, x, i)
    PROVE  SingleOwner'
BY FreshToHand DEF Connect, ctlVars, runVars, Tcps

LEMMA PostOwner ==
    ASSUME TypeOK, SingleOwner, NEW p \in Poster, Post(p)
    PROVE  SingleOwner'
<1>1. PICK x \in Tcps : x = hand[p] /\ x # NoTcp
  BY EngineAssumption DEF TypeOK, Post
<1>2. PICK i \in Inbox : i = dest[p]
  BY DEF TypeOK
<1>3. /\ inbox' = [inbox EXCEPT ![i] = Append(@, x)]
      /\ hand' = [hand EXCEPT ![p] = NoTcp]
      /\ UNCHANGED <<mem, sockets, cb, cur>>
  BY <1>1, <1>2 DEF Post, sockVars, runVars
<1>4. /\ InHand(p, x) /\ HandOwns(p, x) /\ mem[x] = "live"
      /\ \A j \in Inbox : ~InInbox(j, x)
      /\ \A t \in Thread : ~InList(t, x) /\ ~Accepting(t, x)
  <2>1. InHand(p, x)
    BY <1>1 DEF InHand
  <2>2. QED
    BY <1>1, <2>1, OwnedElsewhere DEF SingleOwner, HandOwns
<1>5. /\ inbox[i] \in Seq(Tcps)
      /\ \A m, n \in DOMAIN inbox[i] : inbox[i][m] = inbox[i][n] => m = n
  BY DEF TypeOK, SingleOwner, NoneTwice
<1>6. /\ inbox'[i] = Append(inbox[i], x)
      /\ \A j \in Inbox \ {i} : inbox'[j] = inbox[j]
  BY <1>3 DEF TypeOK
<1>7. NoneTwice'
  <2>1. \A n \in DOMAIN inbox[i] : inbox[i][n] # x
    BY <1>4 DEF InInbox
  <2>2. \A m, n \in DOMAIN inbox'[i] : inbox'[i][m] = inbox'[i][n] => m = n
    BY <1>5, <1>6, <2>1, QueueAppend
  <2>3. QED
    BY <1>6, <2>2 DEF SingleOwner, NoneTwice
<1>8. Owned(x)'
  <2>1. \A j \in Inbox : InInbox(j, x)' <=> j = i
    BY <1>4, <1>5, <1>6, QueueAppend DEF InInbox
  <2>2. \A q \in Poster : ~InHand(q, x)'
    BY <1>1, <1>3, <1>4 DEF TypeOK, InHand, HandOwns
  <2>3. /\ mem'[x] = "live"
        /\ \A t \in Thread : ~InList(t, x)' /\ ~Accepting(t, x)'
    BY <1>3, <1>4 DEF InList, Accepting
  <2>4. QED
    BY <2>1, <2>2, <2>3, OwnedInInbox
<1>9. ASSUME NEW s \in Tcps, s # x PROVE Owned(s)'
  <2>1. \A j \in Inbox : InInbox(j, s)' <=> InInbox(j, s)
    <3>1. InInbox(i, s)' <=> InInbox(i, s)
      BY <1>5, <1>6, <1>9, QueueAppend DEF InInbox
    <3>2. QED
      BY <1>6, <3>1 DEF InInbox
  <2>2. \A q \in Poster : InHand(q, s)' <=> InHand(q, s)
    BY <1>1, <1>3, <1>9, EngineAssumption DEF TypeOK, InHand
  <2>3. QED
    BY <1>3, <2>1, <2>2, OwnedStays DEF SingleOwner, InList, Accepting
<1>10. QED
  BY <1>7, <1>8, <1>9 DEF SingleOwner

\* get(): the first pointer of an inbox is then in no place at all.
LEMMA HeadLeaves ==
    ASSUME TypeOK, SingleOwner, NEW i \in Inbox, inbox[i] # <<>>,
           NEW x \in Tcps, x = Head(inbox[i]),
           inbox' = [inbox EXCEPT ![i] = Tail(@)]
    PROVE  /\ NoneTwice'
           /\ \A j \in Inbox : ~InInbox(j, x)'
           /\ \A s \in Tcps \ {x} : \A j \in Inbox : InInbox(j, s)' <=> InInbox(j, s)
           /\ mem[x] = "live"
           /\ \A t \in Thread : ~InList(t, x) /\ ~Accepting(t, x)
           /\ \A p \in Poster : ~InHand(p, x)
<1>1. /\ inbox[i] \in Seq(Tcps)
      /\ \A m, n \in DOMAIN inbox[i] : inbox[i][m] = inbox[i][n] => m = n
  BY DEF TypeOK, SingleOwner, NoneTwice
<1>2. /\ inbox'[i] = Tail(inbox[i])
      /\ \A j \in Inbox \ {i} : inbox'[j] = inbox[j]
  BY DEF TypeOK
<1>3. InInbox(i, x)
  BY <1>1, QueueTail DEF InInbox
<1>4. InboxOwns(i, x) /\ mem[x] = "live"
  BY <1>3, OwnedElsewhere DEF SingleOwner
<1>5. \A s \in Tcps : InInbox(i, s)' <=> InInbox(i, s) /\ s # x
  <2>1. ASSUME NEW s \in Tcps
        PROVE  (\E n \in DOMAIN Tail(inbox[i]) : Tail(inbox[i])[n] = s)
                  <=> (\E n \in DOMAIN inbox[i] : inbox[i][n] = s) /\ s # Head(inbox[i])
    BY <1>1, QueueTail
  <2>2. QED
    BY <1>2, <2>1 DEF InInbox
<1>6. \A s \in Tcps : \A j \in Inbox \ {i} : InInbox(j, s)' <=> InInbox(j, s)
  BY <1>2 DEF InInbox
<1>7. NoneTwice'
  <2>1. \A m, n \in DOMAIN inbox'[i] : inbox'[i][m] = inbox'[i][n] => m = n
    BY <1>1, <1>2, QueueTail
  <2>2. QED
    BY <1>2, <2>1 DEF SingleOwner, NoneTwice
<1>8. QED
  BY <1>4, <1>5, <1>6, <1>7 DEF InboxOwns

LEMMA AdoptOwner ==
    ASSUME TypeOK, SingleOwner, NEW t \in Thread,
           (t = 0 /\ AdoptListener) \/ AdoptSocket(t)
    PROVE  SingleOwner'
<1>1. t \in Inbox
  BY EngineAssumption DEF Thread, Inbox
<1>2. inbox[t] # <<>>
  BY DEF AdoptListener, AdoptSocket
<1>3. PICK x \in Tcps : x = Head(inbox[t])
  BY <1>1, <1>2 DEF TypeOK
<1>4. /\ inbox' = [inbox EXCEPT ![t] = Tail(@)]
      /\ sockets' = [sockets EXCEPT ![t] = @ \cup {x}]
      /\ UNCHANGED <<mem, hand, cb, cur>>
  BY <1>3 DEF AdoptListener, AdoptSocket, runVars, postVars
<1>5. Owned(x)'
  <2>1. /\ mem'[x] = "live"
        /\ \A j \in Inbox : ~InInbox(j, x)'
        /\ \A u \in Thread : ~InList(u, x) /\ ~Accepting(u, x)'
        /\ \A p \in Poster : ~InHand(p, x)'
    BY <1>1, <1>2, <1>3, <1>4, HeadLeaves DEF InHand, Accepting
  <2>2. \A u \in Thread : InList(u, x)' <=> u = t
    BY <1>4, <2>1 DEF TypeOK, InList
  <2>3. QED
    BY <2>1, <2>2, OwnedInList
<1>6. ASSUME NEW s \in Tcps, s # x PROVE Owned(s)'
  <2>1. \A j \in Inbox : InInbox(j, s)' <=> InInbox(j, s)
    BY <1>1, <1>2, <1>3, <1>4, <1>6, HeadLeaves
  <2>2. \A u \in Thread : InList(u, s)' <=> InList(u, s)
    BY <1>4, <1>6 DEF TypeOK, InList
  <2>3. QED
    BY <1>4, <2>1, <2>2, OwnedStays DEF SingleOwner, InHand, Accepting
<1>7. NoneTwice'
  BY <1>1, <1>2, <1>3, <1>4, HeadLeaves
<1>8. QED
  BY <1>5, <1>6, <1>7 DEF SingleOwner

LEMMA DrainOwner ==
    ASSUME TypeOK, SingleOwner, NEW t \in Thread, DrainInbox(t)
    PROVE  SingleOwner'
<1>1. t \in Inbox
  BY EngineAssumption DEF Thread, Inbox
<1>2. inbox[t] # <<>>
  BY DEF DrainInbox
<1>3. PICK x \in Tcps : x = Head(inbox[t])
  BY <1>1, <1>2 DEF TypeOK
<1>4. /\ inbox' = [inbox EXCEPT ![t] = Tail(@)]
      /\ mem' = [mem EXCEPT ![x] = "freed"]
      /\ UNCHANGED <<sockets, hand, cb, cur>>
  BY <1>3 DEF DrainInbox, runVars, postVars
<1>5. Owned(x)'
  <2>1. /\ \A j \in Inbox : ~InInbox(j, x)'
        /\ \A u \in Thread : ~InList(u, x)' /\ ~Accepting(u, x)'
        /\ \A p \in Poster : ~InHand(p, x)'
    BY <1>1, <1>2, <1>3, <1>4, HeadLeaves DEF InHand, InList, Accepting
  <2>2. mem'[x] # "live"
    BY <1>4 DEF TypeOK
  <2>3. QED
    BY <2>1, <2>2, OwnedNowhere
<1>6. ASSUME NEW s \in Tcps, s # x PROVE Owned(s)'
  <2>1. \A j \in Inbox : InInbox(j, s)' <=> InInbox(j, s)
    BY <1>1, <1>2, <1>3, <1>4, <1>6, HeadLeaves
  <2>2. mem'[s] = mem[s]
    BY <1>4, <1>6 DEF TypeOK
  <2>3. QED
    BY <1>4, <2>1, <2>2, OwnedStays DEF SingleOwner, InHand, InList, Accepting
<1>7. NoneTwice'
  BY <1>1, <1>2, <1>3, <1>4, HeadLeaves
<1>8. QED
  BY <1>5, <1>6, <1>7 DEF SingleOwner

\* A set of sockets of one list is deleted and leaves it.
LEMMA ListLeaves ==
    ASSUME TypeOK, SingleOwner, NEW t \in Thread, NEW S \in SUBSET sockets[t],
           \A s \in Tcps : mem'[s] = IF s \in S THEN "freed" ELSE mem[s],
           \A u \in Thread : sockets'[u] = IF u = t THEN sockets[t] \ S ELSE sockets[u],
           UNCHANGED <<inbox, hand>>,
           \A u \in Thread : \A s \in Tcps : Accepting(u, s)' <=> Accepting(u, s)
    PROVE  SingleOwner'
<1>1. NoneTwice'
  BY DEF SingleOwner, NoneTwice
<1>2. ASSUME NEW s \in S PROVE Owned(s)'
  <2>1. s \in Tcps /\ InList(t, s)
    BY DEF TypeOK, InList
  <2>2. ListOwns(t, s) /\ \A i \in Inbox : ~InInbox(i, s)
    BY <2>1, OwnedElsewhere DEF SingleOwner
  <2>3. /\ mem'[s] # "live"
        /\ \A i \in Inbox : ~InInbox(i, s)'
        /\ \A u \in Thread : ~InList(u, s)' /\ ~Accepting(u, s)'
        /\ \A p \in Poster : ~InHand(p, s)'
    BY <2>1, <2>2 DEF ListOwns, InInbox, InList, InHand
  <2>4. QED
    BY <2>3, OwnedNowhere
<1>3. ASSUME NEW s \in Tcps \ S PROVE Owned(s)'
  <2>1. \A u \in Thread : InList(u, s)' <=> InList(u, s)
    BY DEF InList
  <2>2. QED
    BY <2>1, OwnedStays DEF SingleOwner, InInbox, InHand
<1>4. QED
  BY <1>1, <1>2, <1>3 DEF SingleOwner

LEMMA KillOwner ==
    ASSUME TypeOK, SingleOwner, NEW t \in Thread, KillSockets(t)
    PROVE  SingleOwner'
<1>1. PICK S \in SUBSET sockets[t] : S = sockets[t]
  OBVIOUS
<1>2. /\ \A s \in Tcps : mem'[s] = IF s \in S THEN "freed" ELSE mem[s]
      /\ \A u \in Thread : sockets'[u] = IF u = t THEN sockets[t] \ S ELSE sockets[u]
      /\ UNCHANGED <<inbox, hand, cb, cur>>
  BY <1>1 DEF TypeOK, KillSockets, runVars, postVars
<1>3. QED
  BY <1>2, ListLeaves DEF Accepting

LEMMA FinalOwner ==
    ASSUME TypeOK, SingleOwner, ThreadOK, NoDanglingUse, NEW t \in Thread, ReturnFinal(t)
    PROVE  SingleOwner'
<1>1. cb[t] # "accepted" /\ pc[t] = "call"
  BY DEF ReturnFinal, Returning, InCallback
<1>2. PICK c \in sockets[t] : c = cur[t]
  BY <1>1 DEF ThreadOK, NoDanglingUse, InList, Accepting
<1>3. /\ \A s \in Tcps : mem'[s] = IF s \in {c} THEN "freed" ELSE mem[s]
      /\ \A u \in Thread : sockets'[u] = IF u = t THEN sockets[t] \ {c} ELSE sockets[u]
      /\ UNCHANGED <<inbox, hand>>
      /\ cb'[t] # "accepted"
      /\ \A u \in Thread \ {t} : cb'[u] = cb[u] /\ cur'[u] = cur[u]
  BY <1>2 DEF TypeOK, ReturnFinal, EndCall, postVars
<1>4. \A u \in Thread : \A s \in Tcps : Accepting(u, s)' <=> Accepting(u, s)
  BY <1>1, <1>3, StillAccepting
<1>5. {c} \in SUBSET sockets[t]
  OBVIOUS
<1>6. QED
  BY <1>3, <1>4, <1>5, ListLeaves

\* A fresh object is accepted.
LEMMA AcceptOwner ==
    ASSUME TypeOK, SingleOwner, ThreadOK, 0 \in Thread, NEW c \in Conn, Accept(c)
    PROVE  SingleOwner'
<1>1. c \in Tcps /\ ~Held(c)
  BY OwnedElsewhere DEF SingleOwner, Tcps, Accept
<1>2. /\ mem' = [mem EXCEPT ![c] = "live"]
      /\ cb' = [cb EXCEPT ![0] = "accepted"] /\ cur' = [cur EXCEPT ![0] = c]
      /\ UNCHANGED <<inbox, sockets, hand>>
  BY DEF Accept, Call, postVars
<1>3. cb[0] = "none"
  BY DEF ThreadOK, Accept, TypeOK
<1>4. NoneTwice'
  BY <1>2 DEF SingleOwner, NoneTwice
<1>5. Owned(c)'
  <2>1. mem'[c] = "live" /\ Accepting(0, c)'
    BY <1>1, <1>2 DEF TypeOK, Accepting
  <2>2. /\ \A i \in Inbox : ~InInbox(i, c)'
        /\ \A u \in Thread : ~InList(u, c)'
        /\ \A p \in Poster : ~InHand(p, c)'
    BY <1>1, <1>2 DEF Held, InInbox, InList, InHand
  <2>3. QED
    BY <2>1, <2>2, OwnedAccepting
<1>6. ASSUME NEW s \in Tcps, s # c PROVE Owned(s)'
  <2>1. mem'[s] = mem[s]
    BY <1>2, <1>6 DEF TypeOK
  <2>2. \A u \in Thread : Accepting(u, s)' <=> Accepting(u, s)
    BY <1>2, <1>3, <1>6 DEF TypeOK, Accepting
  <2>3. QED
    BY <1>2, <2>1, <2>2, OwnedStays DEF SingleOwner, InInbox, InList, InHand
<1>7. QED
  BY <1>4, <1>5, <1>6 DEF SingleOwner

\* The accepted object goes to the hand of the listen thread.
LEMMA AcceptedOwner ==
    ASSUME TypeOK, SingleOwner, ThreadOK, NoDanglingUse, 0 \in Thread,
           NEW ok, NEW i, ReturnAccepted(ok, i)
    PROVE  SingleOwner'
<1>1. cb[0] = "accepted" /\ pc[0] = "call" /\ hand[0] = NoTcp
  BY DEF ReturnAccepted, Returning, InCallback
<1>2. PICK c \in Tcps : c = cur[0]
  BY <1>1 DEF ThreadOK, TypeOK
<1>3. /\ hand' = [hand EXCEPT ![0] = c]
      /\ cb' = [cb EXCEPT ![0] = "none"] /\ cur' = [cur EXCEPT ![0] = NoTcp]
      /\ UNCHANGED <<mem, inbox, sockets>>
  BY <1>2 DEF ReturnAccepted, EndCall
<1>4. /\ mem[c] = "live"
      /\ \A j \in Inbox : ~InInbox(j, c)
      /\ \A u \in Thread : ~InList(u, c)
      /\ \A p \in Poster : ~InHand(p, c)
  <2>1. Accepting(0, c)
    BY <1>1, <1>2 DEF Accepting
  <2>2. QED
    BY <2>1, OwnedElsewhere DEF SingleOwner
<1>5. \A u \in Thread \ {0} : cb[u] # "accepted"
  BY DEF ThreadOK
<1>6. NoneTwice'
  BY <1>3 DEF SingleOwner, NoneTwice
<1>7. Owned(c)'
  <2>1. \A u \in Thread : ~Accepting(u, c)'
    BY <1>3, <1>5 DEF TypeOK, Accepting
  <2>2. 0 \in Poster /\ \A p \in Poster : InHand(p, c)' <=> p = 0
    BY <1>3, <1>4 DEF TypeOK, InHand, Poster
  <2>3. QED
    BY <1>3, <1>4, <2>1, <2>2, OwnedInHand DEF InInbox, InList
<1>8. ASSUME NEW s \in Tcps, s # c PROVE Owned(s)'
  <2>1. \A u \in Thread : Accepting(u, s)' <=> Accepting(u, s)
    BY <1>2, <1>3, <1>5, <1>8 DEF TypeOK, Accepting
  <2>2. \A p \in Poster : InHand(p, s)' <=> InHand(p, s)
    BY <1>1, <1>3, <1>8, EngineAssumption DEF TypeOK, InHand
  <2>3. QED
    BY <1>3, <2>1, <2>2, OwnedStays DEF SingleOwner, InInbox, InList
<1>9. QED
  BY <1>6, <1>7, <1>8 DEF SingleOwner

\* The steps of the main loop that move no pointer.
LEMMA LoopOwner ==
    ASSUME TypeOK, SingleOwner, NEW t \in Thread,
           ThreadInit(t) \/ Loop(t) \/ InboxDone(t) \/ WalkDone(t) \/ PollDone(t)
           \/ (\E c \in todo[t] : WalkConnecting(t, c) \/ WalkConnected(t, c))
           \/ (t = 0 /\ \E l \in todo[0] : ListenEvent(l)) \/ (t = 0 /\ AcceptNone)
    PROVE  SingleOwner'
<1>1. UNCHANGED <<mem, inbox, sockets, hand, cb, cur>>
  BY DEF ThreadInit, Loop, InboxDone, WalkDone, PollDone, WalkConnecting, WalkConnected,
         ListenEvent, AcceptNone, sockVars, runVars, postVars
<1>2. QED
  BY <1>1, NothingMoves DEF Accepting

\* The steps of a worker into a callback, through the event handler and out again.
LEMMA HandlerOwner ==
    ASSUME TypeOK, SingleOwner, ThreadOK, NEW t \in Thread,
           \/ \E c \in todo[t] : WalkClosing(t, c) \/ WalkRefused(t, c) \/ WalkTimeout(t, c)
           \/ \E c \in todo[t], events \in SUBSET ReadWrite : Event(t, c, events)
           \/ Handle(t)
           \/ \E ok \in BOOLEAN : \/ ReturnTimeout(t, ok) \/ ReturnOpened(t, ok)
                                 \/ ReturnSent(t, ok) \/ ReturnRecv(t, ok)
    PROVE  SingleOwner'
<1> USE DEF sockVars, postVars, Call, EndCall, Visit, Returning, InCallback
<1>1. UNCHANGED <<mem, inbox, sockets, hand>>
  BY DEF WalkClosing, WalkRefused, WalkTimeout, Event, Handle, WriteEvent, ReadEvent,
         ReturnTimeout, ReturnOpened, ReturnSent, ReturnRecv
<1>2. cb[t] # "accepted"
  BY DEF ThreadOK, TypeOK, WalkClosing, WalkRefused, WalkTimeout, Event, Handle, WriteEvent,
         ReadEvent, ReturnTimeout, ReturnOpened, ReturnSent, ReturnRecv
<1>3. /\ \E f : (cb' = [cb EXCEPT ![t] = f] /\ f # "accepted") \/ cb' = cb
      /\ \E c : cur' = [cur EXCEPT ![t] = c] \/ cur' = cur
  BY DEF WalkClosing, WalkRefused, WalkTimeout, Event, Handle, WriteEvent, AfterWrite,
         ReadEvent, ReturnTimeout, ReturnOpened, ReturnSent, ReturnRecv
<1>4. /\ cb'[t] # "accepted"
      /\ \A u \in Thread \ {t} : cb'[u] = cb[u] /\ cur'[u] = cur[u]
  BY <1>2, <1>3 DEF TypeOK
<1>5. QED
  BY <1>1, <1>2, <1>4, StillAccepting, NothingMoves

LEMMA AppOwner ==
    ASSUME TypeOK, SingleOwner,
           \/ \E a \in App : AppStep(a)
           \/ \E p \in Poster : Post(p)
           \/ \E t \in Thread : CallbackStep(t)
    PROVE  SingleOwner'
<1> USE DEF Poster
<1>1. ASSUME NEW a \in App, AppListen(a) PROVE SingleOwner'
  <2>1. PICK l \in Listener : /\ mem[l] = "fresh"
                             /\ mem' = [mem EXCEPT ![l] = "live"]
                             /\ hand' = [hand EXCEPT ![a] = l]
    BY <1>1 DEF AppListen
  <2>2. QED
    BY <1>1, <2>1, FreshToHand DEF AppListen, ctlVars, runVars, Tcps
<1>2. ASSUME NEW a \in App, AppConnect(a) PROVE SingleOwner'
  BY <1>2, ConnectOwner DEF AppConnect
<1>3. ASSUME NEW t \in Thread, CbConnect(t) PROVE SingleOwner'
  BY <1>3, ConnectOwner DEF CbConnect
<1>4. ASSUME NEW t \in Thread, NEW s \in Tcps, CbSend(t, s) \/ CbRecv(t, s) \/ CbClose(t, s)
      PROVE  SingleOwner'
  <2>1. UNCHANGED <<mem, inbox, sockets, hand, cb, cur>>
    BY <1>4 DEF CbSend, CbRecv, CbClose, runVars, postVars
  <2>2. QED
    BY <2>1, NothingMoves DEF Accepting
<1>5. QED
  BY <1>1, <1>2, <1>3, <1>4, PostOwner DEF AppStep, CallbackStep

LEMMA SingleOwnerStep ==
    TypeOK /\ ThreadOK /\ NoDanglingUse /\ SingleOwner /\ [Next]_vars => SingleOwner'
<1> SUFFICES ASSUME TypeOK, ThreadOK, NoDanglingUse, SingleOwner, [Next]_vars
             PROVE  SingleOwner'
  OBVIOUS
<1>1. CASE UNCHANGED vars \/ Rest
  <2>1. UNCHANGED <<mem, inbox, sockets, hand, cb, cur>>
    BY <1>1 DEF vars, Rest, sockVars, runVars, postVars
  <2>2. QED
    BY <2>1, NothingMoves DEF Accepting
<1>2. ASSUME NEW t \in Thread, ThreadStep(t) PROVE SingleOwner'
  BY <1>2, AdoptOwner, DrainOwner, KillOwner, AcceptOwner, LoopOwner, HandlerOwner
  DEF ThreadStep, Walk, Poll
<1>3. ASSUME NEW t \in Thread, Return(t) PROVE SingleOwner'
  BY <1>3, FinalOwner, AcceptedOwner, HandlerOwner DEF Return
<1>4. QED
  BY <1>1, <1>2, <1>3, ControlOwner, AppOwner DEF Next

------------------------------------------------------------------------------
(* What a thread is about to use is its own.                                   *)

\* A step of other parties leaves the sockets of a thread to it.
LEMMA UseUnchanged ==
    ASSUME NoDanglingUse, UNCHANGED <<cb, cur, todo, sockets>>
    PROVE  NoDanglingUse'
BY DEF NoDanglingUse, InList, Accepting

\* A step of thread t concerns its own sockets only.
LEMMA UseByThread ==
    ASSUME NoDanglingUse, NEW t \in Thread,
           \A u \in Thread \ {t} : /\ cb'[u] = cb[u] /\ cur'[u] = cur[u]
                                   /\ todo'[u] = todo[u] /\ sockets'[u] = sockets[u],
           todo'[t] \subseteq sockets'[t] \ {cur'[t]},
           cur'[t] # NoTcp => cur'[t] \in sockets'[t] \/ cb'[t] = "accepted"
    PROVE  NoDanglingUse'
BY DEF NoDanglingUse, InList, Accepting

\* Outside callbacks and event handlers a thread holds no socket, and in them it
\* holds one of its own.
LEMMA InUse ==
    ASSUME TypeOK, ThreadOK, NoDanglingUse, NEW t \in Thread
    PROVE  /\ todo[t] \subseteq sockets[t] \ {cur[t]}
           /\ sockets[t] \subseteq Tcps /\ NoTcp \notin sockets[t]
           /\ pc[t] \notin {"call", "write", "read"} => cur[t] = NoTcp
           /\ cur[t] # NoTcp => cur[t] \in sockets[t] \/ cb[t] = "accepted"
           /\ pc[t] \in {"inbox", "drain", "loop", "init"} => todo[t] = {}
BY EngineAssumption DEF TypeOK, ThreadOK, NoDanglingUse, InList, Accepting

LEMMA AdoptUse ==
    ASSUME TypeOK, ThreadOK, NoDanglingUse, NEW t \in Thread,
           ThreadInit(t) \/ Loop(t) \/ (t = 0 /\ AdoptListener) \/ AdoptSocket(t) \/ InboxDone(t)
           \/ DrainInbox(t) \/ KillSockets(t)
    PROVE  NoDanglingUse'
<1> USE DEF sockVars, runVars
<1>1. CASE ThreadInit(t) \/ Loop(t) \/ DrainInbox(t)
  BY <1>1, UseUnchanged DEF ThreadInit, Loop, DrainInbox
<1>2. CASE (t = 0 /\ AdoptListener) \/ AdoptSocket(t)
  <2>1. PICK x : sockets' = [sockets EXCEPT ![t] = @ \cup {x}]
    BY <1>2 DEF AdoptListener, AdoptSocket
  <2>2. UNCHANGED <<cb, cur, todo>> /\ pc[t] = "inbox"
    BY <1>2 DEF AdoptListener, AdoptSocket
  <2>3. todo[t] = {} /\ cur[t] = NoTcp
    BY <2>2, InUse
  <2>4. QED
    BY <2>1, <2>2, <2>3, UseByThread DEF TypeOK
<1>3. CASE InboxDone(t)
  <2>1. UNCHANGED <<cb, cur, sockets>> /\ pc[t] = "inbox"
    BY <1>3 DEF InboxDone
  <2>2. todo[t] = {} /\ cur[t] = NoTcp /\ NoTcp \notin sockets[t]
    BY <2>1, InUse
  <2>3. \E S \in SUBSET sockets[t] : todo' = [todo EXCEPT ![t] = S]
    <3>1. Registered(t) \in SUBSET sockets[t]
      BY DEF Registered
    <3>2. todo' = todo => todo' = [todo EXCEPT ![t] = {}]
      BY <2>2 DEF TypeOK
    <3>3. QED
      BY <1>3, <3>1, <3>2 DEF InboxDone
  <2>4. QED
    BY <2>1, <2>2, <2>3, UseByThread DEF TypeOK
<1>4. CASE KillSockets(t)
  <2>1. UNCHANGED <<cb, cur, todo>> /\ pc[t] = "drain" /\ sockets' = [sockets EXCEPT ![t] = {}]
    BY <1>4 DEF KillSockets
  <2>2. todo[t] = {} /\ cur[t] = NoTcp
    BY <2>1, InUse
  <2>3. QED
    BY <2>1, <2>2, UseByThread DEF TypeOK
<1>5. QED
  BY <1>1, <1>2, <1>3, <1>4

\* Taking the next socket from the walk or from the batch.
LEMMA NextUse ==
    ASSUME TypeOK, ThreadOK, NoDanglingUse, NEW t \in Thread, NEW c \in todo[t],
           pc[t] \notin {"call", "write", "read"},
           todo' = [todo EXCEPT ![t] = @ \ {c}], sockets' = sockets,
           cur' = cur \/ cur' = [cur EXCEPT ![t] = c],
           cb' = cb \/ \E f : cb' = [cb EXCEPT ![t] = f]
    PROVE  NoDanglingUse'
<1>1. todo[t] \subseteq sockets[t] /\ NoTcp \notin sockets[t] /\ cur[t] = NoTcp
  BY InUse
<1>2. todo'[t] = todo[t] \ {c} /\ cur'[t] \in {NoTcp, c}
  BY <1>1 DEF TypeOK
<1>3. \A u \in Thread \ {t} : /\ cb'[u] = cb[u] /\ cur'[u] = cur[u]
                            /\ todo'[u] = todo[u] /\ sockets'[u] = sockets[u]
  BY DEF TypeOK
<1>4. QED
  BY <1>1, <1>2, <1>3, UseByThread

\* The socket in use stays in use, or the thread lets go of it.
LEMMA LetGo ==
    ASSUME TypeOK, ThreadOK, NoDanglingUse, NEW t \in Thread, cb[t] # "accepted",
           UNCHANGED <<todo, sockets>>,
           cur' = cur \/ cur' = [cur EXCEPT ![t] = cur[t]] \/ cur' = [cur EXCEPT ![t] = NoTcp],
           cb' = cb \/ \E f : cb' = [cb EXCEPT ![t] = f]
    PROVE  NoDanglingUse'
<1>1. /\ todo[t] \subseteq sockets[t] \ {cur[t]} /\ NoTcp \notin sockets[t]
      /\ cur[t] # NoTcp => cur[t] \in sockets[t]
  BY InUse
<1>2. cur'[t] \in {NoTcp, cur[t]}
  BY DEF TypeOK
<1>3. \A u \in Thread \ {t} : /\ cb'[u] = cb[u] /\ cur'[u] = cur[u]
                            /\ todo'[u] = todo[u] /\ sockets'[u] = sockets[u]
  BY DEF TypeOK
<1>4. QED
  BY <1>1, <1>2, <1>3, UseByThread

\* After the walk, and after the batch, todo starts over.
LEMMA StartOver ==
    ASSUME TypeOK, ThreadOK, NoDanglingUse, NEW t \in Thread, WalkDone(t) \/ PollDone(t)
    PROVE  NoDanglingUse'
<1>1. UNCHANGED <<cb, cur, sockets>> /\ pc[t] \in {"walk", "poll"}
  BY DEF WalkDone, PollDone
<1>2. cur[t] = NoTcp /\ NoTcp \notin sockets[t]
  BY <1>1, InUse
<1>3. \E S \in SUBSET sockets[t] : todo' = [todo EXCEPT ![t] = S]
  <2>1. Registered(t) \in SUBSET sockets[t] /\ {} \in SUBSET sockets[t]
    BY DEF Registered
  <2>2. QED
    BY <2>1 DEF WalkDone, PollDone
<1>4. QED
  BY <1>1, <1>2, <1>3, UseByThread DEF TypeOK

LEMMA WalkUse ==
    ASSUME TypeOK, ThreadOK, NoDanglingUse, NEW t \in Thread, Walk(t)
    PROVE  NoDanglingUse'
<1>1. ASSUME NEW c \in todo[t],
             \/ WalkClosing(t, c) \/ WalkRefused(t, c) \/ WalkTimeout(t, c)
             \/ WalkConnecting(t, c) \/ WalkConnected(t, c)
      PROVE  NoDanglingUse'
  <2>1. /\ pc[t] \notin {"call", "write", "read"}
        /\ todo' = [todo EXCEPT ![t] = @ \ {c}] /\ sockets' = sockets
    BY <1>1 DEF WalkClosing, WalkRefused, WalkTimeout, WalkConnecting, WalkConnected, Visit
  <2>2. /\ cur' = cur \/ cur' = [cur EXCEPT ![t] = c]
        /\ cb' = cb \/ \E f : cb' = [cb EXCEPT ![t] = f]
    BY <1>1 DEF WalkClosing, WalkRefused, WalkTimeout, WalkConnecting, WalkConnected, Call
  <2>3. QED
    BY <2>1, <2>2, NextUse
<1>2. QED
  BY <1>1, StartOver DEF Walk

LEMMA HandleUse ==
    ASSUME TypeOK, ThreadOK, NoDanglingUse, NEW t \in Thread, Handle(t)
    PROVE  NoDanglingUse'
<1>1. cb[t] # "accepted"
  BY DEF ThreadOK, Handle, WriteEvent, ReadEvent
<1>2. UNCHANGED <<todo, sockets>>
  BY DEF Handle, WriteEvent, ReadEvent
<1>3. /\ cur' = cur \/ cur' = [cur EXCEPT ![t] = cur[t]] \/ cur' = [cur EXCEPT ![t] = NoTcp]
      /\ cb' = cb \/ \E f : cb' = [cb EXCEPT ![t] = f]
  BY DEF Handle, WriteEvent, AfterWrite, ReadEvent, Call
<1>4. QED
  BY <1>1, <1>2, <1>3, LetGo

LEMMA PollUse ==
    ASSUME TypeOK, ThreadOK, SingleOwner, NoDanglingUse, NEW t \in Thread, Poll(t)
    PROVE  NoDanglingUse'
<1>1. ASSUME NEW c \in todo[t], NEW events, Event(t, c, events) PROVE NoDanglingUse'
  <2>1. /\ pc[t] \notin {"call", "write", "read"}
        /\ todo' = [todo EXCEPT ![t] = @ \ {c}] /\ sockets' = sockets
    BY <1>1 DEF Event
  <2>2. /\ cur' = cur \/ cur' = [cur EXCEPT ![t] = c]
        /\ cb' = cb \/ \E f : cb' = [cb EXCEPT ![t] = f]
    BY <1>1 DEF Event, Call
  <2>3. QED
    BY <2>1, <2>2, NextUse
<1>2. ASSUME t = 0, NEW l \in todo[0], ListenEvent(l) PROVE NoDanglingUse'
  <2>1. /\ pc[t] \notin {"call", "write", "read"}
        /\ todo' = [todo EXCEPT ![t] = @ \ {l}] /\ sockets' = sockets
        /\ cur' = cur /\ cb' = cb
    BY <1>2 DEF ListenEvent
  <2>2. QED
    BY <1>2, <2>1, NextUse
<1>3. ASSUME t = 0, NEW c \in Conn, Accept(c) PROVE NoDanglingUse'
  <2>1. /\ UNCHANGED <<todo, sockets>> /\ pc[t] = "accept"
        /\ cb' = [cb EXCEPT ![t] = "accepted"] /\ cur' = [cur EXCEPT ![t] = c]
    BY <1>3 DEF Accept, Call
  <2>2. c \notin sockets[t]
    BY <1>3, OwnedElsewhere DEF SingleOwner, Held, InList, Accept, Tcps
  <2>3. todo[t] \subseteq sockets[t]
    BY InUse
  <2>4. /\ cur'[t] = c /\ cb'[t] = "accepted"
        /\ \A u \in Thread \ {t} : cb'[u] = cb[u] /\ cur'[u] = cur[u]
    BY <2>1 DEF TypeOK
  <2>5. QED
    BY <2>1, <2>2, <2>3, <2>4, UseByThread
<1>4. CASE t = 0 /\ AcceptNone
  BY <1>4, UseUnchanged DEF AcceptNone, runVars
<1>5. QED
  BY <1>1, <1>2, <1>3, <1>4, HandleUse, StartOver DEF Poll

LEMMA ReturnUse ==
    ASSUME TypeOK, ThreadOK, NoDanglingUse, NEW t \in Thread, Return(t)
    PROVE  NoDanglingUse'
<1> USE DEF EndCall, Returning
<1>1. CASE ReturnFinal(t)
  <2>1. PICK c : c = cur[t]
    OBVIOUS
  <2>2. /\ sockets' = [sockets EXCEPT ![t] = @ \ {c}] /\ todo' = todo
        /\ cb' = [cb EXCEPT ![t] = "none"] /\ cur' = [cur EXCEPT ![t] = NoTcp]
    BY <1>1, <2>1 DEF ReturnFinal
  <2>3. todo[t] \subseteq sockets[t] \ {c} /\ NoTcp \notin sockets[t]
    BY <2>1, InUse
  <2>4. /\ sockets'[t] = sockets[t] \ {c} /\ cur'[t] = NoTcp
        /\ \A u \in Thread \ {t} : /\ cb'[u] = cb[u] /\ cur'[u] = cur[u]
                                 /\ todo'[u] = todo[u] /\ sockets'[u] = sockets[u]
    BY <2>2 DEF TypeOK
  <2>5. QED
    BY <2>2, <2>3, <2>4, UseByThread
<1>2. ASSUME NEW ok \in BOOLEAN, ReturnTimeout(t, ok) \/ ReturnRecv(t, ok)
      PROVE  NoDanglingUse'
  BY <1>2, LetGo DEF ReturnTimeout, ReturnRecv
<1>3. ASSUME NEW ok \in BOOLEAN, ReturnOpened(t, ok) \/ ReturnSent(t, ok)
      PROVE  NoDanglingUse'
  <2>1. /\ cb[t] # "accepted" /\ UNCHANGED <<todo, sockets>>
        /\ cb' = [cb EXCEPT ![t] = "none"]
        /\ cur' = cur \/ cur' = [cur EXCEPT ![t] = NoTcp]
    BY <1>3 DEF ReturnOpened, ReturnSent, AfterWrite
  <2>2. QED
    BY <2>1, LetGo
<1>4. ASSUME t = 0, NEW ok, NEW i, ReturnAccepted(ok, i) PROVE NoDanglingUse'
  <2>1. /\ UNCHANGED <<todo, sockets>>
        /\ cb' = [cb EXCEPT ![t] = "none"] /\ cur' = [cur EXCEPT ![t] = NoTcp]
    BY <1>4 DEF ReturnAccepted
  <2>2. todo[t] \subseteq sockets[t] /\ NoTcp \notin sockets[t]
    BY InUse
  <2>3. /\ cur'[t] = NoTcp
        /\ \A u \in Thread \ {t} : cb'[u] = cb[u] /\ cur'[u] = cur[u]
    BY <2>1 DEF TypeOK
  <2>4. QED
    BY <2>1, <2>2, <2>3, UseByThread
<1>5. QED
  BY <1>1, <1>2, <1>3, <1>4 DEF Return

LEMMA NoDanglingUseStep ==
    TypeOK /\ ThreadOK /\ SingleOwner /\ NoDanglingUse /\ [Next]_vars => NoDanglingUse'
<1> SUFFICES ASSUME TypeOK, ThreadOK, SingleOwner, NoDanglingUse, [Next]_vars
             PROVE  NoDanglingUse'
  OBVIOUS
<1> USE DEF ctlVars, sockVars, runVars, postVars
<1>1. CASE UNCHANGED vars \/ Rest
  BY <1>1, UseUnchanged DEF vars, Rest
<1>2. CASE (\E n \in Sizes : Start(n) \/ StartFails(n)) \/ Stop \/ ControlStep
  BY <1>2, UseUnchanged DEF Start, StartFails, Stop, ControlStep, StartThread, ClearFlag, Join
<1>3. ASSUME NEW p, NEW c, NEW x, NEW i, Connect(p, c, x, i) PROVE NoDanglingUse'
  BY <1>3, UseUnchanged DEF Connect
<1>4. ASSUME NEW a \in App, AppStep(a) PROVE NoDanglingUse'
  BY <1>3, <1>4, UseUnchanged DEF AppStep, AppListen, AppConnect
<1>5. ASSUME NEW p \in Poster, Post(p) PROVE NoDanglingUse'
  BY <1>5, UseUnchanged DEF Post
<1>6. ASSUME NEW t \in Thread, CallbackStep(t) PROVE NoDanglingUse'
  BY <1>3, <1>6, UseUnchanged DEF CallbackStep, CbSend, CbRecv, CbClose, CbConnect
<1>7. ASSUME NEW t \in Thread, ThreadStep(t) PROVE NoDanglingUse'
  BY <1>7, AdoptUse, WalkUse, PollUse DEF ThreadStep
<1>8. QED
  BY <1>1, <1>2, <1>4, <1>5, <1>6, <1>7, ReturnUse DEF Next

------------------------------------------------------------------------------

IInv == TypeOK /\ ControlOK /\ ThreadOK /\ SingleOwner /\ NoDanglingUse

LEMMA IInvInit == Init => IInv
<1> SUFFICES ASSUME Init PROVE IInv
  OBVIOUS
<1>1. TypeOK /\ ControlOK /\ ThreadOK
  BY TypeInit, ThreadInitially
<1>2. NoneTwice
  BY DEF Init, NoneTwice
<1>3. ASSUME NEW s \in Tcps PROVE Owned(s)
  BY <1>3, EngineAssumption
  DEF Init, Owned, Held, InInbox, InList, InHand, Accepting
<1>4. NoDanglingUse
  BY DEF Init, NoDanglingUse
<1>5. QED
  BY <1>1, <1>2, <1>3, <1>4 DEF IInv, SingleOwner

LEMMA IInvAlways == Spec => []IInv
<1>1. IInv /\ [Next]_vars => IInv'
  BY TypeStep, ThreadOKStep, SingleOwnerStep, NoDanglingUseStep DEF IInv
<1>2. QED
  BY <1>1, IInvInit, PTL DEF Spec

\* A Tcp object is in exactly one inbox, list or hand while it is allocated and in
\* none before and after, for any number of threads and connections and any
\* interleaving of accepts, posts, adoptions, callbacks, start() and stop()
\* (netengine.cpp: the engine locks no Tcp object).
THEOREM SingleOwnerAlways == Spec => []SingleOwner
BY IInvAlways, PTL DEF IInv

\* No thread uses an object that is not its own, or no more: the rest of the walk
\* and of the event batch, and the socket of the callback, stay in the thread's
\* list until it is done with them (netengine.cpp:155-234).
THEOREM NoDanglingUseAlways == Spec => []NoDanglingUse
BY IInvAlways, PTL DEF IInv
==============================================================================
