--------------------------- MODULE ConnectionProofs ---------------------------
(***************************************************************************)
(* Proofs about Connection, for any number of connections and descriptors   *)
(* and each of the ways to poll: its type invariant, EventsReachTheirOwner, *)
(* PollerFollowsMask and ToldOnce.                                          *)
(***************************************************************************)
EXTENDS Connection, SequenceTheorems, TLAPS

\* A descriptor belongs to one object, which is allocated, and is open in the kernel.
Owned ==
    /\ \A c \in Conn : fd[c] # NoFd => kern[fd[c]] # NoSock /\ mem[c] = "live"
    /\ \A c, d \in Conn : fd[c] # NoFd /\ fd[c] = fd[d] => c = d
    /\ \A c \in Conn : mem[c] = "fresh" => ~tcp[c].evmask

\* What the worker has or is about to get is open and managed; an application that
\* polls for itself has no worker.
Listing ==
    /\ posted \cap sockets = {}
    /\ \A c \in posted \cup sockets : fd[c] # NoFd /\ tcp[c].managed
    /\ \A c \in posted : ~tcp[c].evmask
    /\ driver = "poll" => posted = {} /\ sockets = {} /\ \A c \in Conn : ~tcp[c].managed

ToldManaged == {<<>>, <<"opened">>}
ToldAlone   == {<<>>, <<"connected">>, <<"failed">>}
ToldEver    == ToldManaged \cup ToldAlone \cup {<<"refused">>, <<"closed">>, <<"opened", "closed">>}

\* Nothing is told of a connection that is being made or was refused.
Telling ==
    \A c \in Conn :
       /\ told[c] \in ToldEver
       /\ tcp[c].state \in {"Connnecting", "Refused"} => told[c] = <<>>
       /\ c \in posted \cup sockets => told[c] \in ToldManaged
       /\ driver = "poll" => told[c] \in ToldAlone

\* The items a poller has for one registration.
ItemsOf(kind, f, event, ud) ==
    IF kind = "kqueue" THEN {Item(f, {e}, ud) : e \in event} ELSE {Item(f, event, ud)}

Interest(c) == IF tcp[c].evmask THEN ReadWrite ELSE ReadOnly

Items   == [fd : Fd, event : SUBSET ReadWrite, ud : Conn]
Filters == [fd : Fd, event : {{"R"}, {"W"}}, ud : Conn \cup {NullUd}]

PollerOK(p) ==
    /\ p \in [kind : Kinds, list : Seq(Items), table : SUBSET Items,
              changes : Seq([item : Filters, add : BOOLEAN])]
    /\ p.kind = "select" => \A i, j \in DOMAIN p.list : p.list[i].fd = p.list[j].fd => i = j
    /\ p.kind # "kqueue" => p.changes = <<>>
    /\ p.kind = "kqueue" => p.table \subseteq Filters

\* The poller watches the sockets of the list for what their masks say, and nothing else.
WatchOf(c) == ItemsOf(poller.kind, fd[c], Interest(c), c)
Exact == Effective(poller) = UNION {WatchOf(c) : c \in sockets}

\* A change to delete that names an object is of a socket the walk has passed.
Deletions ==
    \A i \in DOMAIN poller.changes :
       poller.changes[i].add \/ LET x == poller.changes[i].item IN
          x.ud = NullUd \/ (pc = "walk" /\ x.ud \in sockets \ todo /\ x.fd = fd[x.ud])

Batched == \A e \in batch : pc = "batch" /\ e.ud \in sockets /\ e.fd = fd[e.ud]

IInv == /\ TypeOK /\ Owned /\ Listing /\ Telling
        /\ PollerOK(poller) /\ Exact /\ Deletions /\ Batched

------------------------------------------------------------------------------
(* One connection in the hands of one thread *)

Words    == {"opened", "refused", "closed", "connected", "failed"}
Handling == [r : TcpRecord, k : KernelSocket \cup {NoSock}, told : ToldManaged \cup ToldAlone,
             on : BOOLEAN, busy : BOOLEAN]

LEMMA FirstWord == ASSUME NEW x PROVE Append(<<>>, x) = <<x>>
OBVIOUS

LEMMA SecondWord == ASSUME NEW x, NEW y PROVE Append(<<x>>, y) = <<x, y>>
<1>1. /\ Append(<<x>>, y) \in Seq({x, y}) /\ Len(Append(<<x>>, y)) = 2
      /\ Append(<<x>>, y)[1] = x /\ Append(<<x>>, y)[2] = y
  OBVIOUS
<1>2. /\ <<x, y>> \in Seq({x, y}) /\ Len(<<x, y>>) = 2 /\ <<x, y>>[1] = x /\ <<x, y>>[2] = y
  OBVIOUS
<1>3. \A i \in 1 .. 2 : i = 1 \/ i = 2
  OBVIOUS
<1>4. QED
  BY <1>1, <1>2, <1>3, SeqEqual

\* What the handlers keep: a managed socket stays open, and what was told fits.
Good(o) ==
    /\ o \in Handling
    /\ o.r.managed => o.k # NoSock /\ o.told \in ToldManaged
    /\ ~o.r.managed => o.told \in ToldAlone
    /\ o.r.state \in {"Connnecting", "Refused"} => o.told = <<>>

\* q may come of o in one call of a handler.
Leads(o, q) == /\ Good(q)
               /\ q.r.managed = o.r.managed /\ q.r.evmask = o.r.evmask

LEMMA LeadsOn == ASSUME NEW o, NEW p, NEW q, Leads(o, p), Leads(p, q) PROVE Leads(o, q)
BY DEF Leads

\* What becomes of the record when only some of its fields change.
LEMMA CloseIs ==
    ASSUME NEW r \in TcpRecord
    PROVE  /\ Close(r) \in TcpRecord
           /\ Close(r).managed = r.managed /\ Close(r).evmask = r.evmask
           /\ Close(r).state # "Connnecting"
           /\ Close(r).state = "Refused" => r.state \in {"Connnecting", "Refused"}
           /\ ~r.managed => Close(r).state = "Closed"
BY DEF Close, TcpRecord, State

LEMMA OpenedIs ==
    ASSUME NEW r \in TcpRecord
    PROVE  /\ Opened(r) \in TcpRecord
           /\ Opened(r).managed = r.managed /\ Opened(r).evmask = r.evmask
           /\ Opened(r).state # "Connnecting"
           /\ Opened(r).state = "Refused" => r.state = "Refused"
BY DEF Opened, TcpRecord, State

LEMMA SendIs ==
    ASSUME NEW r \in TcpRecord
    PROVE  /\ Send(r) \in TcpRecord /\ Send(r).state = r.state
           /\ Send(r).managed = r.managed /\ Send(r).evmask = r.evmask
BY DEF Send, TcpRecord

LEMMA RecvIs ==
    ASSUME NEW r \in TcpRecord
    PROVE  /\ Recv(r) \in TcpRecord /\ Recv(r).state = r.state
           /\ Recv(r).managed = r.managed /\ Recv(r).evmask = r.evmask
BY DEF Recv, TcpRecord

LEMMA IoWriteIs ==
    ASSUME NEW r \in TcpRecord, NEW d \in BOOLEAN
    PROVE  /\ IoWrite(r, d) \in TcpRecord
           /\ IoWrite(r, d).managed = r.managed /\ IoWrite(r, d).evmask = r.evmask
           /\ IoWrite(r, d).state \in {"Connnecting", "Refused"} => r.state \in {"Connnecting", "Refused"}
<1>1. Opened(r) \in TcpRecord
  BY OpenedIs
<1>2. (Opened(r).obuf /\ ~d) \in BOOLEAN
  OBVIOUS
<1>3. /\ IoWrite(r, d) \in TcpRecord /\ IoWrite(r, d).state = Opened(r).state
      /\ IoWrite(r, d).managed = Opened(r).managed /\ IoWrite(r, d).evmask = Opened(r).evmask
  BY <1>1, <1>2 DEF IoWrite, TcpRecord
<1>4. QED
  BY <1>3, OpenedIs

\* A new record, a new socket and nothing told.
LEMMA Changed ==
    ASSUME NEW o, Good(o), NEW q, NEW r \in TcpRecord, NEW k \in KernelSocket \cup {NoSock},
           q = [o EXCEPT !.r = r, !.k = k],
           r.managed = o.r.managed, r.evmask = o.r.evmask,
           r.state \in {"Connnecting", "Refused"} => o.r.state \in {"Connnecting", "Refused"},
           o.r.managed => k # NoSock
    PROVE  Leads(o, q) /\ q.on = o.on
<1>1. q \in Handling /\ q.r = r /\ q.k = k /\ q.told = o.told /\ q.on = o.on
  BY DEF Good, Handling
<1>2. QED
  BY <1>1 DEF Good, Leads

\* Only the record changes.
LEMMA NewRecord ==
    ASSUME NEW o, Good(o), NEW q, NEW r \in TcpRecord,
           q = [o EXCEPT !.r = r],
           r.managed = o.r.managed, r.evmask = o.r.evmask,
           r.state \in {"Connnecting", "Refused"} => o.r.state \in {"Connnecting", "Refused"}
    PROVE  Leads(o, q) /\ q.on = o.on
<1>1. q \in Handling /\ q.r = r /\ q.k = o.k /\ q.told = o.told /\ q.on = o.on
  BY DEF Good, Handling
<1>2. QED
  BY <1>1 DEF Good, Leads

LEMMA LeadsSelf == ASSUME NEW o, Good(o) PROVE Leads(o, o) /\ o.r \in TcpRecord
BY DEF Leads, Good, Handling

LEMMA CloseTcpLeads ==
    ASSUME NEW o, Good(o)
    PROVE  Leads(o, CloseTcp(o))
<1>1. o.r \in TcpRecord /\ o \in Handling
  BY DEF Good, Handling
<1>2. /\ Close(o.r) \in TcpRecord /\ Close(o.r).managed = o.r.managed
      /\ Close(o.r).evmask = o.r.evmask
      /\ Close(o.r).state \in {"Connnecting", "Refused"} => o.r.state \in {"Connnecting", "Refused"}
  BY <1>1, CloseIs
<1>3. CASE o.r.managed
  BY <1>1, <1>2, <1>3, NewRecord DEF CloseTcp
<1>4. CASE ~o.r.managed /\ o.r.state # "Connnecting"
  BY <1>1, <1>2, <1>4, Changed DEF CloseTcp
<1>5. CASE ~o.r.managed /\ o.r.state = "Connnecting"
  <2>1. PICK q : q = CloseTcp(o)
    OBVIOUS
  <2>2. o.told = <<>> /\ Append(<<>>, "failed") = <<"failed">>
    BY <1>5, FirstWord, Zenon DEF Good
  <2>3. /\ q \in Handling /\ q.r = Close(o.r) /\ q.told = <<"failed">>
    BY <1>1, <1>2, <1>5, <2>1, <2>2 DEF CloseTcp, Tell, Handling, ToldAlone, ToldManaged
  <2>4. Close(o.r).state = "Closed"
    BY <1>1, <1>5, CloseIs
  <2>5. QED
    BY <1>2, <1>5, <2>1, <2>3, <2>4 DEF Leads, Good, ToldAlone
<1>6. QED
  BY <1>3, <1>4, <1>5

LEMMA ReactionsLead ==
    ASSUME NEW o, Good(o), NEW q \in Reactions(o)
    PROVE  Leads(o, q)
<1>1. o.r \in TcpRecord
  BY DEF Good, Handling
<1>2. Leads(o, [o EXCEPT !.r = Send(o.r)])
  BY <1>1, SendIs, NewRecord
<1>3. q \in {o, [o EXCEPT !.r = Send(o.r)], CloseTcp(o)}
  BY DEF Reactions
<1>4. QED
  BY <1>2, <1>3, CloseTcpLeads, LeadsSelf

LEMMA DeclineLeads ==
    ASSUME NEW o, Good(o), NEW q \in Decline(o)
    PROVE  Leads(o, q)
<1>1. PICK p : p = CloseTcp(o)
  OBVIOUS
<1>2. Leads(o, p) /\ q = [p EXCEPT !.on = FALSE]
  BY <1>1, CloseTcpLeads DEF Decline
<1>3. q \in Handling /\ q.r = p.r /\ q.k = p.k /\ q.told = p.told
  BY <1>2 DEF Leads, Good, Handling
<1>4. QED
  BY <1>2, <1>3 DEF Leads, Good

LEMMA UpdateLeads ==
    ASSUME NEW o, Good(o), NEW q \in Update(o)
    PROVE  Leads(o, q)
<1>1. o.r \in TcpRecord /\ o \in Handling
  BY DEF Good, Handling
<1>2. /\ Opened(o.r) \in TcpRecord /\ Opened(o.r).managed = o.r.managed
      /\ Opened(o.r).evmask = o.r.evmask /\ Opened(o.r).state # "Connnecting"
      /\ Opened(o.r).state = "Refused" => o.r.state = "Refused"
  BY <1>1, OpenedIs
<1>3. CASE o.r.state # "Connnecting"
  BY <1>3, LeadsSelf DEF Update
<1>4. CASE o.r.state = "Connnecting" /\ o.r.managed
  BY <1>1, <1>2, <1>4, NewRecord DEF Update
<1>5. CASE o.r.state = "Connnecting" /\ ~o.r.managed
  <2>1. PICK p : p = Tell([o EXCEPT !.r = Opened(@)], "connected")
    OBVIOUS
  <2>2. o.told = <<>> /\ Append(<<>>, "connected") = <<"connected">>
    BY <1>5, FirstWord, Zenon DEF Good
  <2>3. /\ p \in Handling /\ p.r = Opened(o.r) /\ p.told = <<"connected">>
    BY <1>1, <1>2, <2>1, <2>2 DEF Tell, Handling, ToldAlone, ToldManaged
  <2>4. Leads(o, p)
    BY <1>2, <1>5, <2>3 DEF Leads, Good, ToldAlone
  <2>5. q \in Reactions(p)
    BY <1>5, <2>1 DEF Update
  <2>6. QED
    BY <2>4, <2>5, ReactionsLead, LeadsOn DEF Leads
<1>6. QED
  BY <1>3, <1>4, <1>5

\* What the system calls leave of a socket.
LEMMA NoBytesIs ==
    ASSUME NEW k \in KernelSocket \cup {NoSock}
    PROVE  /\ NoBytes(k).k \in KernelSocket \cup {NoSock} /\ (k # NoSock => NoBytes(k).k # NoSock)
           /\ NoBytes(k).disconnected \in BOOLEAN
BY ConnectionAssumption DEF NoBytes, KernelSocket, Dead

LEMMA RecvAllIs ==
    ASSUME NEW k \in KernelSocket \cup {NoSock}, NEW x \in RecvAll(k)
    PROVE  /\ x.k \in KernelSocket \cup {NoSock} /\ (k # NoSock => x.k # NoSock)
           /\ x.got \in BOOLEAN
<1>1. PICK rest : rest = NoBytes(k)
  OBVIOUS
<1>2. rest.k \in KernelSocket \cup {NoSock} /\ (k # NoSock => rest.k # NoSock)
  BY <1>1, NoBytesIs
<1>3. CASE k = NoSock \/ ~k.data
  <2>1. x = [k |-> rest.k, got |-> FALSE, disconnected |-> rest.disconnected]
    BY <1>1, <1>3 DEF RecvAll
  <2>2. QED
    BY <1>2, <2>1
<1>4. CASE k # NoSock /\ k.data
  <2>1. PICK e : e = [k EXCEPT !.data = FALSE]
    OBVIOUS
  <2>2. e \in KernelSocket
    BY <1>4, <2>1 DEF KernelSocket
  <2>3. PICK last : last = NoBytes(e)
    OBVIOUS
  <2>4. last.k \in KernelSocket \cup {NoSock} /\ last.k # NoSock
    BY <2>2, <2>3, NoBytesIs, ConnectionAssumption
  <2>5. x \in {[k |-> e, got |-> TRUE, disconnected |-> FALSE],
               [k |-> last.k, got |-> TRUE, disconnected |-> last.disconnected]}
    BY <1>4, <2>1, <2>3 DEF RecvAll
  <2>6. x.k \in {e, last.k} /\ x.got = TRUE
    BY <2>5
  <2>7. e # NoSock
    BY <2>2, ConnectionAssumption
  <2>8. x.got \in BOOLEAN
    BY <2>6, Zenon
  <2>9. QED
    BY <2>2, <2>4, <2>6, <2>7, <2>8, Zenon
<1>5. QED
  BY <1>3, <1>4

LEMMA SendSomeIs ==
    ASSUME NEW k \in KernelSocket \cup {NoSock}, NEW x \in SendSome(k)
    PROVE  /\ x.k \in KernelSocket \cup {NoSock} /\ (k # NoSock => x.k # NoSock)
           /\ x.drained \in BOOLEAN
<1>1. CASE k = NoSock
  <2>1. x = [k |-> k, drained |-> FALSE]
    BY <1>1, Zenon DEF SendSome
  <2>2. x.k = k /\ x.drained = FALSE
    BY <2>1
  <2>3. QED
    BY <1>1, <2>2, Zenon
<1>2. CASE k # NoSock
  <2>1. PICK e : e = [k EXCEPT !.err = FALSE]
    OBVIOUS
  <2>2. e \in KernelSocket /\ e # NoSock
    BY <1>2, <2>1, ConnectionAssumption DEF KernelSocket
  <2>3. \/ x = [k |-> e, drained |-> FALSE]
        \/ x = [k |-> k, drained |-> FALSE] \/ x = [k |-> k, drained |-> k.phase = "open"]
    BY <1>2, <2>1 DEF SendSome
  <2>4. (k.phase = "open") \in BOOLEAN
    OBVIOUS
  <2>5. x.k \in {e, k} /\ (x.drained = FALSE \/ x.drained = (k.phase = "open"))
    BY <2>3
  <2>6. QED
    BY <1>2, <2>2, <2>4, <2>5, Zenon
<1>3. QED
  BY <1>1, <1>2

LEMMA DoReadLeads ==
    ASSUME NEW o, Good(o), NEW q \in DoRead(o)
    PROVE  Leads(o, q)
<1>0. PICK u \in Update(o) : \E x \in RecvAll(u.k) :
         q = LET read == [u EXCEPT !.k = x.k, !.r.ibuf = @ \/ x.got]
             IN  IF x.disconnected THEN CloseTcp(read) ELSE read
  BY Zenon DEF DoRead
<1>1. PICK x \in RecvAll(u.k) :
         q = LET read == [u EXCEPT !.k = x.k, !.r.ibuf = @ \/ x.got]
             IN  IF x.disconnected THEN CloseTcp(read) ELSE read
  BY <1>0
<1>2. Leads(o, u) /\ Good(u)
  BY UpdateLeads DEF Leads
<1>3. u \in Handling /\ u.r \in TcpRecord /\ u.k \in KernelSocket \cup {NoSock}
  BY <1>2 DEF Good, Handling
<1>4. /\ x.k \in KernelSocket \cup {NoSock} /\ (u.k # NoSock => x.k # NoSock)
      /\ x.got \in BOOLEAN
  BY <1>3, RecvAllIs
<1>5. PICK read : read = [u EXCEPT !.k = x.k, !.r.ibuf = @ \/ x.got]
  OBVIOUS
<1>6. PICK r : r = [u.r EXCEPT !.ibuf = @ \/ x.got]
  OBVIOUS
<1>7. (u.r.ibuf \/ x.got) \in BOOLEAN
  OBVIOUS
<1>8. r \in TcpRecord /\ r.state = u.r.state /\ r.managed = u.r.managed /\ r.evmask = u.r.evmask
  BY <1>3, <1>6, <1>7 DEF TcpRecord
<1>9. read = [u EXCEPT !.r = r, !.k = x.k]
  BY <1>3, <1>5, <1>6 DEF Handling
<1>10. Leads(u, read)
  BY <1>2, <1>4, <1>8, <1>9, Changed DEF Good
<1>11. q \in {read, CloseTcp(read)}
  BY <1>1, <1>5
<1>12. Leads(read, CloseTcp(read)) /\ Leads(read, read)
  BY <1>10, CloseTcpLeads, LeadsSelf DEF Leads
<1>13. QED
  BY <1>2, <1>10, <1>11, <1>12, LeadsOn

LEMMA DoWriteLeads ==
    ASSUME NEW o, Good(o), NEW q \in DoWrite(o)
    PROVE  Leads(o, q)
<1>1. PICK u \in Update(o) :
         q \in IF ~u.r.obuf THEN {u}
               ELSE {[u EXCEPT !.k = x.k, !.r = IoWrite(@, x.drained)] : x \in SendSome(u.k)}
  BY Zenon DEF DoWrite
<1>2. Leads(o, u) /\ Good(u)
  BY UpdateLeads DEF Leads
<1>3. u \in Handling /\ u.r \in TcpRecord /\ u.k \in KernelSocket \cup {NoSock}
  BY <1>2 DEF Good, Handling
<1>4. CASE q = u
  BY <1>2, <1>4
<1>5. ASSUME NEW x \in SendSome(u.k), q = [u EXCEPT !.k = x.k, !.r = IoWrite(@, x.drained)]
      PROVE  Leads(o, q)
  <2>1. /\ x.k \in KernelSocket \cup {NoSock} /\ (u.k # NoSock => x.k # NoSock)
        /\ x.drained \in BOOLEAN
    BY <1>3, SendSomeIs
  <2>2. PICK r : r = IoWrite(u.r, x.drained)
    OBVIOUS
  <2>3. /\ r \in TcpRecord /\ r.managed = u.r.managed /\ r.evmask = u.r.evmask
        /\ r.state \in {"Connnecting", "Refused"} => u.r.state \in {"Connnecting", "Refused"}
    BY <1>3, <2>1, <2>2, IoWriteIs
  <2>4. q = [u EXCEPT !.r = r, !.k = x.k]
    BY <1>3, <1>5, <2>2 DEF Handling
  <2>5. Leads(u, q)
    BY <1>2, <2>1, <2>3, <2>4, Changed DEF Good
  <2>6. QED
    BY <1>2, <2>5, LeadsOn
<1>6. QED
  BY <1>1, <1>4, <1>5, Zenon

LEMMA WriteHalfLeads ==
    ASSUME NEW o, Good(o), o.r.managed, NEW q \in WriteHalf(o)
    PROVE  Leads(o, q)
<1>1. PICK opened : opened = Tell([o EXCEPT !.r.state = "Connected"], "opened")
  OBVIOUS
<1>2. PICK before : before = IF o.r.state = "Connnecting" THEN Reactions(opened) \cup Decline(opened)
                             ELSE {o}
  OBVIOUS
<1>3. \/ q \in before
      \/ \E v \in before : \E u \in DoWrite(v) :
            q \in IF u.r.obuf THEN {u} ELSE Reactions(u) \cup Decline(u)
  <2>1. q \in {u \in before : ~u.on} \cup
              UNION {IF u.r.obuf THEN {u} ELSE Reactions(u) \cup Decline(u) :
                        u \in UNION {DoWrite(u) : u \in {v \in before : v.on}}}
    BY <1>1, <1>2, Zenon DEF WriteHalf
  <2>2. QED
    BY <2>1, Zenon
<1>4. o.r.state = "Connnecting" => Leads(o, opened)
  <2>1. SUFFICES ASSUME o.r.state = "Connnecting" PROVE Leads(o, opened)
    OBVIOUS
  <2>2. o.told = <<>> /\ Append(<<>>, "opened") = <<"opened">>
    BY <2>1, FirstWord, Zenon DEF Good
  <2>3. o \in Handling /\ o.r \in TcpRecord /\ o.k # NoSock /\ "Connected" \in State
    BY DEF Good, Handling, State
  <2>4. PICK r : r = [o.r EXCEPT !.state = "Connected"]
    OBVIOUS
  <2>5. r \in TcpRecord /\ r.state = "Connected" /\ r.managed = o.r.managed /\ r.evmask = o.r.evmask
    BY <2>3, <2>4 DEF TcpRecord
  <2>6. /\ opened \in Handling /\ opened.r = r /\ opened.told = <<"opened">> /\ opened.k = o.k
    BY <1>1, <2>2, <2>3, <2>4, <2>5 DEF Tell, Handling, ToldManaged
  <2>7. QED
    BY <2>3, <2>5, <2>6 DEF Leads, Good, ToldManaged
<1>5. ASSUME NEW v \in before PROVE Leads(o, v)
  BY <1>2, <1>4, <1>5, LeadsSelf, LeadsOn, ReactionsLead, DeclineLeads DEF Leads
<1>6. ASSUME NEW v \in before, NEW u \in DoWrite(v),
             q \in IF u.r.obuf THEN {u} ELSE Reactions(u) \cup Decline(u)
      PROVE  Leads(o, q)
  <2>1. Leads(o, v) /\ Good(v)
    BY <1>5 DEF Leads
  <2>2. Leads(v, u) /\ Good(u)
    BY <2>1, <1>6, DoWriteLeads DEF Leads
  <2>3. q = u \/ q \in Reactions(u) \/ q \in Decline(u)
    BY <1>6
  <2>4. Leads(u, q)
    BY <2>2, <2>3, LeadsSelf, ReactionsLead, DeclineLeads
  <2>5. QED
    BY <2>1, <2>2, <2>4, LeadsOn
<1>7. QED
  BY <1>3, <1>5, <1>6, Zenon

LEMMA ReadHalfLeads ==
    ASSUME NEW o, Good(o), NEW q \in ReadHalf(o)
    PROVE  Leads(o, q)
<1>1. PICK u \in DoRead(o) :
         q \in IF ~u.r.ibuf THEN {u}
               ELSE Reactions(u) \cup Decline(u) \cup Reactions([u EXCEPT !.r = Recv(@)])
  BY Zenon DEF ReadHalf
<1>2. Leads(o, u) /\ Good(u)
  BY DoReadLeads DEF Leads
<1>3. PICK w : w = [u EXCEPT !.r = Recv(u.r)]
  OBVIOUS
<1>4. u.r \in TcpRecord
  BY <1>2 DEF Good, Handling
<1>5. Leads(u, w) /\ Good(w)
  BY <1>2, <1>3, <1>4, RecvIs, NewRecord DEF Leads
<1>6. q = u \/ q \in Reactions(u) \/ q \in Decline(u) \/ q \in Reactions(w)
  BY <1>1, <1>3
<1>7. CASE q \in Reactions(w)
  BY <1>2, <1>5, <1>7, ReactionsLead, LeadsOn
<1>8. CASE q = u \/ q \in Reactions(u) \/ q \in Decline(u)
  BY <1>2, <1>8, ReactionsLead, DeclineLeads, LeadsOn
<1>9. QED
  BY <1>6, <1>7, <1>8

\* One call of the event handler.
LEMMA OutcomesLead ==
    ASSUME NEW c, NEW e, Good(State0(c)), State0(c).r.managed, NEW q \in Outcomes(c, e)
    PROVE  Leads(State0(c), q)
<1>1. PICK o : o = State0(c)
  OBVIOUS
<1>2. PICK wrote : wrote = IF "W" \in e THEN WriteHalf(o) ELSE {o}
  OBVIOUS
<1>3. q \in wrote \/ \E u \in wrote : q \in IF "R" \in e THEN ReadHalf(u) ELSE {u}
  <2>1. q \in {u \in wrote : ~u.on} \cup
              UNION {IF "R" \in e THEN ReadHalf(u) ELSE {u} : u \in {v \in wrote : v.on}}
    BY <1>1, <1>2, Zenon DEF Outcomes
  <2>2. QED
    BY <2>1, Zenon
<1>4. ASSUME NEW u \in wrote PROVE Leads(o, u) /\ Good(u)
  BY <1>1, <1>2, <1>4, WriteHalfLeads, LeadsSelf DEF Leads
<1>5. ASSUME NEW u \in wrote, q \in IF "R" \in e THEN ReadHalf(u) ELSE {u}
      PROVE  Leads(o, q)
  <2>1. q = u \/ q \in ReadHalf(u)
    BY <1>5
  <2>2. QED
    BY <1>4, <2>1, ReadHalfLeads, LeadsOn
<1>6. QED
  BY <1>1, <1>3, <1>4, <1>5, Zenon

------------------------------------------------------------------------------
(* What a handler leaves behind *)

LEMMA ToldTypes == ToldEver \subseteq Seq(Words)
BY DEF ToldEver, ToldManaged, ToldAlone, Words

LEMMA StateManaged ==
    ASSUME IInv, NEW c \in sockets
    PROVE  /\ Good(State0(c)) /\ State0(c).r = tcp[c] /\ State0(c).r.managed
           /\ c \in Conn /\ c \notin posted /\ mem[c] = "live" /\ fd[c] \in Fd
<1>1. /\ c \in Conn /\ c \notin posted /\ fd[c] # NoFd /\ fd[c] \in Fd /\ tcp[c].managed
      /\ tcp[c] \in TcpRecord /\ kern[fd[c]] \in KernelSocket /\ mem[c] = "live"
      /\ kern[fd[c]] # NoSock
  BY DEF IInv, TypeOK, Owned, Listing
<1>2. /\ told[c] \in ToldManaged
      /\ tcp[c].state \in {"Connnecting", "Refused"} => told[c] = <<>>
  BY <1>1 DEF IInv, Telling
<1>3. State0(c) = [r |-> tcp[c], k |-> kern[fd[c]], told |-> told[c], on |-> TRUE, busy |-> c \in Busy]
  BY <1>1 DEF State0
<1>4. (c \in Busy) \in BOOLEAN
  OBVIOUS
<1>5. State0(c) \in Handling
  BY <1>1, <1>2, <1>3, <1>4 DEF Handling
<1>6. State0(c).r = tcp[c] /\ State0(c).told = told[c] /\ State0(c).k = kern[fd[c]]
  BY <1>3
<1>7. QED
  BY <1>1, <1>2, <1>5, <1>6 DEF Good

LEMMA StateAlone ==
    ASSUME IInv, NEW c \in Conn, driver = "poll"
    PROVE  Good(State0(c)) /\ State0(c).r = tcp[c] /\ ~tcp[c].managed /\ c \notin posted
<1>1. /\ ~tcp[c].managed /\ tcp[c] \in TcpRecord /\ c \notin posted
      /\ fd[c] \in Fd \cup {NoFd}
  BY DEF IInv, TypeOK, Listing
<1>2. /\ told[c] \in ToldAlone
      /\ tcp[c].state \in {"Connnecting", "Refused"} => told[c] = <<>>
  BY DEF IInv, Telling
<1>3. PICK k : k = IF fd[c] = NoFd THEN NoSock ELSE kern[fd[c]]
  OBVIOUS
<1>4. k \in KernelSocket \cup {NoSock}
  BY <1>1, <1>3 DEF IInv, TypeOK
<1>5. State0(c) = [r |-> tcp[c], k |-> k, told |-> told[c], on |-> TRUE, busy |-> c \in Busy]
  BY <1>3 DEF State0
<1>6. (c \in Busy) \in BOOLEAN
  OBVIOUS
<1>7. State0(c) \in Handling
  BY <1>1, <1>2, <1>4, <1>5, <1>6 DEF Handling
<1>8. State0(c).r = tcp[c] /\ State0(c).told = told[c]
  BY <1>5
<1>9. QED
  BY <1>1, <1>2, <1>7, <1>8 DEF Good

\* The variables a handler may change, but for the poller and the mask.
LEMMA BecomesKeeps ==
    ASSUME IInv, NEW c \in Conn, mem[c] = "live", c \notin posted,
           NEW o, Good(o), o.r.managed = tcp[c].managed, Becomes(c, o),
           UNCHANGED <<driver, mem, posted, sockets>>
    PROVE  /\ tcp' \in [Conn -> TcpRecord] /\ fd' \in [Conn -> Fd \cup {NoFd}]
           /\ told' \in [Conn -> Seq(Words)] /\ kern' \in [Fd -> KernelSocket \cup {NoSock}]
           /\ Owned' /\ Listing' /\ Telling'
           /\ tcp'[c] = o.r /\ \A d \in Conn \ {c} : tcp'[d] = tcp[d]
           /\ c \in sockets => fd' = fd
<1>1. /\ o \in Handling /\ o.r \in TcpRecord /\ o.k \in KernelSocket \cup {NoSock}
      /\ o.told \in ToldManaged \cup ToldAlone
  BY DEF Good, Handling
<1>2. /\ tcp \in [Conn -> TcpRecord] /\ fd \in [Conn -> Fd \cup {NoFd}]
      /\ told \in [Conn -> Seq(Words)] /\ kern \in [Fd -> KernelSocket \cup {NoSock}]
      /\ posted \subseteq Conn /\ sockets \subseteq Conn /\ NoFd \notin Fd
  BY ConnectionAssumption DEF IInv, TypeOK, Words
<1>3. o.told \in Seq(Words)
  BY <1>1, ToldTypes DEF ToldEver
<1>4. /\ tcp' = [tcp EXCEPT ![c] = o.r] /\ told' = [told EXCEPT ![c] = o.told]
      /\ fd' = [fd EXCEPT ![c] = IF o.k = NoSock THEN NoFd ELSE fd[c]]
      /\ kern' = [f \in Fd |-> IF f = fd[c] THEN o.k ELSE kern[f]]
  BY DEF Becomes
<1>5. /\ tcp' \in [Conn -> TcpRecord] /\ fd' \in [Conn -> Fd \cup {NoFd}]
      /\ told' \in [Conn -> Seq(Words)] /\ kern' \in [Fd -> KernelSocket \cup {NoSock}]
  BY <1>1, <1>2, <1>3, <1>4
<1>6. /\ tcp'[c] = o.r /\ \A d \in Conn \ {c} : tcp'[d] = tcp[d]
      /\ told'[c] = o.told /\ \A d \in Conn \ {c} : told'[d] = told[d]
      /\ fd'[c] = (IF o.k = NoSock THEN NoFd ELSE fd[c]) /\ \A d \in Conn \ {c} : fd'[d] = fd[d]
      /\ \A f \in Fd : kern'[f] = IF f = fd[c] THEN o.k ELSE kern[f]
  BY <1>2, <1>4
<1>7. c \in sockets => tcp[c].managed
  BY DEF IInv, Listing
<1>8. c \in sockets => fd' = fd
  BY <1>2, <1>4, <1>7 DEF Good
<1>9. Owned'
  <2>1. Owned
    BY DEF IInv
  <2>2. ASSUME NEW d \in Conn, fd'[d] # NoFd PROVE kern'[fd'[d]] # NoSock /\ mem'[d] = "live"
    BY <1>2, <1>6, <2>1, <2>2 DEF Owned
  <2>3. ASSUME NEW d \in Conn, NEW e \in Conn, fd'[d] # NoFd, fd'[d] = fd'[e] PROVE d = e
    BY <1>2, <1>6, <2>1, <2>3 DEF Owned
  <2>4. ASSUME NEW d \in Conn, mem'[d] = "fresh" PROVE ~tcp'[d].evmask
    BY <1>6, <2>1, <2>4 DEF Owned
  <2>5. QED
    BY <2>2, <2>3, <2>4 DEF Owned
<1>10. Listing'
  <2>1. Listing
    BY DEF IInv
  <2>2. ASSUME NEW d \in posted \cup sockets PROVE fd'[d] # NoFd /\ tcp'[d].managed
    BY <1>2, <1>6, <1>8, <2>1, <2>2 DEF Listing
  <2>3. ASSUME NEW d \in posted PROVE ~tcp'[d].evmask
    BY <1>2, <1>6, <2>1, <2>3 DEF Listing
  <2>4. ASSUME NEW d \in Conn, driver = "poll" PROVE ~tcp'[d].managed
    BY <1>2, <1>6, <2>1, <2>4 DEF Listing
  <2>5. QED
    BY <2>1, <2>2, <2>3, <2>4 DEF Listing
<1>11. Telling'
  <2>1. Telling /\ Listing
    BY DEF IInv
  <2>2. c \in sockets => o.told \in ToldManaged
    BY <1>7 DEF Good
  <2>3. driver = "poll" => o.told \in ToldAlone
    BY <2>1 DEF Good, Listing
  <2>4. o.told \in ToldEver /\ (o.r.state \in {"Connnecting", "Refused"} => o.told = <<>>)
    BY <1>1 DEF Good, ToldEver
  <2>5. ASSUME NEW d \in Conn
        PROVE  /\ told'[d] \in ToldEver
               /\ tcp'[d].state \in {"Connnecting", "Refused"} => told'[d] = <<>>
               /\ d \in posted \cup sockets => told'[d] \in ToldManaged
               /\ driver = "poll" => told'[d] \in ToldAlone
    BY <1>6, <2>1, <2>2, <2>3, <2>4 DEF Telling
  <2>6. QED
    BY <2>5 DEF Telling
<1>12. QED
  BY <1>5, <1>6, <1>8, <1>9, <1>10, <1>11

------------------------------------------------------------------------------
(* What the operations of a poller do to what it watches *)

Changes == [item : Filters, add : BOOLEAN]

\* One more change of kqueue: the filter is replaced, or gone.
LEMMA OneChange ==
    ASSUME NEW p, PollerOK(p), p.kind = "kqueue", NEW ch \in Changes,
           NEW q, q = [p EXCEPT !.changes = Append(@, ch)]
    PROVE  /\ PollerOK(q) /\ q.kind = "kqueue"
           /\ Effective(q) = {x \in Effective(p) : ~SameFilter(ch.item, x)} \cup
                             {x \in {ch.item} : ch.add}
           /\ \A i \in DOMAIN q.changes :
                 (i \in DOMAIN p.changes /\ q.changes[i] = p.changes[i]) \/ q.changes[i] = ch
<1>1. /\ p.changes \in Seq(Changes) /\ p.table \subseteq Items /\ p.table \subseteq Filters
      /\ p.list \in Seq(Items)
  BY DEF PollerOK, Changes
<1>2. /\ q.kind = "kqueue" /\ q.table = p.table /\ q.list = p.list
      /\ q.changes = Append(p.changes, ch)
      /\ q \in [kind : Kinds, list : Seq(Items), table : SUBSET Items, changes : Seq(Changes)]
  <2>1. p \in [kind : Kinds, list : Seq(Items), table : SUBSET Items, changes : Seq(Changes)]
    BY Zenon DEF PollerOK, Changes
  <2>2. Append(p.changes, ch) \in Seq(Changes)
    BY <1>1
  <2>3. QED
    BY <2>1, <2>2
<1>3. PICK n \in Nat : n = Len(p.changes)
  BY <1>1
<1>4. /\ DOMAIN p.changes = 1 .. n /\ DOMAIN q.changes = 1 .. n + 1 /\ Len(q.changes) = n + 1
      /\ \A i \in 1 .. n : q.changes[i] = p.changes[i]
      /\ q.changes[n + 1] = ch
  BY <1>1, <1>2, <1>3
<1>5. PollerOK(q)
  BY <1>1, <1>2 DEF PollerOK, Changes
<1>6. Untouched(q) = {x \in Untouched(p) : ~SameFilter(ch.item, x)}
  <2>1. ASSUME NEW x \in p.table
        PROVE  (\A i \in DOMAIN q.changes : ~SameFilter(q.changes[i].item, x)) <=>
               (\A i \in DOMAIN p.changes : ~SameFilter(p.changes[i].item, x)) /\ ~SameFilter(ch.item, x)
    <3>1. \A i \in 1 .. n + 1 : i \in 1 .. n \/ i = n + 1
      BY <1>3
    <3>2. n + 1 \in 1 .. n + 1 /\ \A i \in 1 .. n : i \in 1 .. n + 1
      BY <1>3
    <3>3. QED
      BY <1>4, <3>1, <3>2, Zenon
  <2>2. QED
    BY <1>2, <2>1 DEF Untouched
<1>7. Added(q) = {x \in Added(p) : ~SameFilter(ch.item, x)} \cup {x \in {ch.item} : ch.add}
  <2>1. ASSUME NEW i \in 1 .. n
        PROVE  Latest(q, i) <=> Latest(p, i) /\ ~SameFilter(ch.item, p.changes[i].item)
    <3>1. \A j \in i + 1 .. n + 1 : j \in i + 1 .. n \/ j = n + 1
      BY <1>3
    <3>2. n + 1 \in i + 1 .. n + 1 /\ \A j \in i + 1 .. n : j \in i + 1 .. n + 1 /\ j \in 1 .. n
      BY <1>3
    <3>3. Latest(q, i) <=> \A j \in i + 1 .. n + 1 : ~SameFilter(q.changes[j].item, p.changes[i].item)
      BY <1>4 DEF Latest
    <3>4. Latest(p, i) <=> \A j \in i + 1 .. n : ~SameFilter(p.changes[j].item, p.changes[i].item)
      BY <1>3 DEF Latest
    <3>5. QED
      BY <1>4, <3>1, <3>2, <3>3, <3>4, Zenon
  <2>2. Latest(q, n + 1)
    BY <1>3, <1>4 DEF Latest
  <2>3. ASSUME NEW x \in Added(q)
        PROVE  x \in {y \in Added(p) : ~SameFilter(ch.item, y)} \cup {y \in {ch.item} : ch.add}
    <3>1. PICK i \in 1 .. n + 1 : x = q.changes[i].item /\ q.changes[i].add /\ Latest(q, i)
      BY <1>4, <2>3 DEF Added
    <3>2. CASE i \in 1 .. n
      BY <1>4, <2>1, <3>1, <3>2 DEF Added
    <3>3. CASE i = n + 1
      BY <1>4, <3>1, <3>3
    <3>4. QED
      BY <1>3, <3>2, <3>3
  <2>4. ASSUME NEW x \in Added(p), ~SameFilter(ch.item, x) PROVE x \in Added(q)
    <3>1. PICK i \in 1 .. n : x = p.changes[i].item /\ p.changes[i].add /\ Latest(p, i)
      BY <1>4, <2>4 DEF Added
    <3>2. i \in 1 .. n + 1 /\ q.changes[i] = p.changes[i] /\ Latest(q, i)
      BY <1>3, <1>4, <2>1, <2>4, <3>1
    <3>3. QED
      BY <1>4, <3>1, <3>2 DEF Added
  <2>5. ch.add => ch.item \in Added(q)
    <3>1. n + 1 \in DOMAIN q.changes
      BY <1>3, <1>4
    <3>2. QED
      BY <1>4, <2>2, <3>1 DEF Added
  <2>6. QED
    BY <2>3, <2>4, <2>5
<1>8. /\ Effective(q) = Untouched(q) \cup Added(q)
      /\ Effective(p) = Untouched(p) \cup Added(p)
  BY <1>2 DEF Effective
<1>9. \A i \in DOMAIN q.changes :
         (i \in DOMAIN p.changes /\ q.changes[i] = p.changes[i]) \/ q.changes[i] = ch
  BY <1>3, <1>4
<1>10. Effective(q) = {x \in Effective(p) : ~SameFilter(ch.item, x)} \cup {x \in {ch.item} : ch.add}
  BY <1>6, <1>7, <1>8
<1>11. QED
  BY <1>2, <1>5, <1>9, <1>10

LEMMA AppendTwo ==
    ASSUME NEW S, NEW s \in Seq(S), NEW a \in S, NEW b \in S
    PROVE  /\ s \o <<a, b>> = Append(Append(s, a), b)
           /\ (s \o <<a>>) \o <<b>> = Append(Append(s, a), b)
           /\ (s \o <<a>>) \o <<>> = Append(s, a)
<1>1. <<a>> \in Seq(S) /\ <<a, b>> \in Seq(S) /\ <<b>> \in Seq(S) /\ <<>> \in Seq(S)
  OBVIOUS
<1>2. s \o <<a>> = Append(s, a) /\ Append(s, a) \in Seq(S)
  BY <1>1
<1>3. Append(s, a) \o <<b>> = Append(Append(s, a), b) /\ Append(s, a) \o <<>> = Append(s, a)
  BY <1>1, <1>2
<1>4. s \o <<a, b>> = Append(Append(s, a), b)
  <2>1. PICK u : u = s \o <<a, b>>
    OBVIOUS
  <2>2. PICK v : v = Append(Append(s, a), b)
    OBVIOUS
  <2>3. PICK n \in Nat : n = Len(s)
    OBVIOUS
  <2>4. u \in Seq(S) /\ v \in Seq(S) /\ Len(u) = n + 2 /\ Len(v) = n + 2
    BY <1>1, <1>2, <2>1, <2>2, <2>3
  <2>5. \A i \in 1 .. n + 2 : i \in 1 .. n \/ i = n + 1 \/ i = n + 2
    BY <2>3
  <2>6. /\ \A i \in 1 .. n : u[i] = s[i] /\ v[i] = s[i]
        /\ u[n + 1] = a /\ v[n + 1] = a /\ u[n + 2] = b /\ v[n + 2] = b
    BY <1>1, <1>2, <2>1, <2>2, <2>3
  <2>7. \A i \in 1 .. Len(u) : u[i] = v[i]
    BY <2>4, <2>5, <2>6
  <2>8. QED
    BY <2>1, <2>2, <2>4, <2>7, SeqEqual
<1>5. QED
  BY <1>2, <1>3, <1>4

LEMMA WatchedFilters ==
    ASSUME NEW p, PollerOK(p), p.kind = "kqueue"
    PROVE  Effective(p) \subseteq Filters
<1>1. p.changes \in Seq(Changes) /\ p.table \subseteq Filters
  BY DEF PollerOK, Changes
<1>2. Untouched(p) \subseteq Filters
  BY <1>1 DEF Untouched
<1>3. Added(p) \subseteq Filters
  <2>1. ASSUME NEW i \in DOMAIN p.changes PROVE p.changes[i].item \in Filters
    <3>1. p.changes[i] \in Changes
      BY <1>1
    <3>2. QED
      BY <3>1 DEF Changes
  <2>2. QED
    BY <2>1 DEF Added
<1>4. QED
  BY <1>2, <1>3 DEF Effective

\* A change for each filter of a descriptor.
LEMMA TwoChanges ==
    ASSUME NEW p, PollerOK(p), p.kind = "kqueue", NEW f \in Fd, NEW ud,
           NEW a \in Changes, a.item = Item(f, {"R"}, ud),
           NEW b \in Changes, b.item = Item(f, {"W"}, ud),
           NEW q, q = [p EXCEPT !.changes = Append(Append(@, a), b)]
    PROVE  /\ PollerOK(q) /\ q.kind = "kqueue"
           /\ Effective(q) = {x \in Effective(p) : x.fd # f}
                             \cup {x \in {a.item} : a.add} \cup {x \in {b.item} : b.add}
           /\ \A i \in DOMAIN q.changes : \/ i \in DOMAIN p.changes /\ q.changes[i] = p.changes[i]
                                          \/ q.changes[i] = a \/ q.changes[i] = b
<1>1. PICK m : m = [p EXCEPT !.changes = Append(@, a)]
  OBVIOUS
<1>2. /\ PollerOK(m) /\ m.kind = "kqueue"
      /\ Effective(m) = {x \in Effective(p) : ~SameFilter(a.item, x)} \cup {x \in {a.item} : a.add}
      /\ \A i \in DOMAIN m.changes :
            (i \in DOMAIN p.changes /\ m.changes[i] = p.changes[i]) \/ m.changes[i] = a
  BY <1>1, OneChange
<1>3. PICK n : n = [m EXCEPT !.changes = Append(@, b)]
  OBVIOUS
<1>4. /\ PollerOK(q) /\ q.kind = "kqueue"
      /\ Effective(q) = {x \in Effective(m) : ~SameFilter(b.item, x)} \cup {x \in {b.item} : b.add}
      /\ \A i \in DOMAIN q.changes :
            (i \in DOMAIN m.changes /\ q.changes[i] = m.changes[i]) \/ q.changes[i] = b
  <2>1. /\ PollerOK(n) /\ n.kind = "kqueue"
        /\ Effective(n) = {x \in Effective(m) : ~SameFilter(b.item, x)} \cup {x \in {b.item} : b.add}
        /\ \A i \in DOMAIN n.changes :
              (i \in DOMAIN m.changes /\ n.changes[i] = m.changes[i]) \/ n.changes[i] = b
    BY <1>2, <1>3, OneChange
  <2>2. n = q
    BY <1>1, <1>3 DEF PollerOK
  <2>3. QED
    BY <2>1, <2>2, Zenon
<1>5. \A x \in Effective(p) :
         x.fd # f <=> ~SameFilter(a.item, x) /\ ~SameFilter(b.item, x)
  <2>1. ASSUME NEW x \in Effective(p) PROVE x.event = {"R"} \/ x.event = {"W"}
    BY WatchedFilters DEF Filters
  <2>2. a.item.fd = f /\ a.item.event = {"R"} /\ b.item.fd = f /\ b.item.event = {"W"}
    BY DEF Item
  <2>3. QED
    BY <2>1, <2>2 DEF SameFilter
<1>6. ~SameFilter(b.item, a.item)
  <2>1. a.item.event = {"R"} /\ b.item.event = {"W"} /\ {"R"} # {"W"}
    BY DEF Item
  <2>2. QED
    BY <2>1 DEF SameFilter
<1>7. Effective(q) = {x \in Effective(p) : x.fd # f}
                     \cup {x \in {a.item} : a.add} \cup {x \in {b.item} : b.add}
  BY <1>2, <1>4, <1>5, <1>6
<1>8. QED
  BY <1>2, <1>4, <1>7

LEMMA ItemIs ==
    ASSUME NEW f \in Fd, NEW ev \in {ReadOnly, ReadWrite}, NEW ud \in Conn
    PROVE  /\ Item(f, ev, ud) \in Items /\ Item(f, ev, ud).fd = f /\ Item(f, ev, ud).ud = ud
           /\ \A e \in ReadWrite : Item(f, {e}, ud) \in Filters \cap Items
BY DEF Item, Items, Filters, ReadOnly, ReadWrite

LEMMA AddIs ==
    ASSUME NEW p, PollerOK(p), NEW f \in Fd, NEW ev \in {ReadOnly, ReadWrite}, NEW ud \in Conn,
           \A x \in Effective(p) : x.fd # f,
           NEW q, q = PollerAdd(p, f, ev, ud)
    PROVE  /\ PollerOK(q) /\ q.kind = p.kind
           /\ Effective(q) = Effective(p) \cup ItemsOf(p.kind, f, ev, ud)
           /\ \A i \in DOMAIN q.changes :
                 (i \in DOMAIN p.changes /\ q.changes[i] = p.changes[i]) \/ q.changes[i].add
<1>1. /\ p.kind \in Kinds /\ p.list \in Seq(Items) /\ p.table \subseteq Items
      /\ p.changes \in Seq(Changes)
      /\ p \in [kind : Kinds, list : Seq(Items), table : SUBSET Items, changes : Seq(Changes)]
  BY DEF PollerOK, Changes
<1>2. PICK e \in Items : e = Item(f, ev, ud)
  BY ItemIs
<1>3. e.fd = f
  BY <1>2, ItemIs
<1>4. CASE p.kind = "select"
  <2>1. q = [p EXCEPT !.list = Append(@, e)]
    BY <1>2, <1>4 DEF PollerAdd
  <2>2. PICK n \in Nat : n = Len(p.list)
    BY <1>1
  <2>3. /\ q.list = Append(p.list, e) /\ q.list \in Seq(Items) /\ DOMAIN q.list = 1 .. n + 1
        /\ q.list[n + 1] = e /\ \A i \in 1 .. n : q.list[i] = p.list[i]
        /\ q.kind = "select" /\ q.changes = p.changes /\ DOMAIN p.list = 1 .. n
        /\ q \in [kind : Kinds, list : Seq(Items), table : SUBSET Items, changes : Seq(Changes)]
    <3>1. PICK l : l = Append(p.list, e)
      OBVIOUS
    <3>2. /\ l \in Seq(Items) /\ DOMAIN l = 1 .. n + 1 /\ l[n + 1] = e
          /\ \A i \in 1 .. n : l[i] = p.list[i]
      BY <1>1, <2>2, <3>1
    <3>3. /\ q.list = l /\ q.kind = "select" /\ q.changes = p.changes
          /\ q \in [kind : Kinds, list : Seq(Items), table : SUBSET Items, changes : Seq(Changes)]
      BY <1>1, <1>4, <2>1, <3>1, <3>2
    <3>4. DOMAIN p.list = 1 .. n
      BY <1>1, <2>2
    <3>5. QED
      BY <3>1, <3>2, <3>3, <3>4
  <2>4. \A i \in 1 .. n : p.list[i].fd # f
    BY <1>4, <2>3 DEF Effective, ToSet
  <2>5. \A i, j \in DOMAIN q.list : q.list[i].fd = q.list[j].fd => i = j
    <3>1. \A i, j \in 1 .. n : p.list[i].fd = p.list[j].fd => i = j
      BY <1>4, <2>3 DEF PollerOK
    <3>2. \A i \in 1 .. n + 1 : i \in 1 .. n \/ i = n + 1
      BY <2>2
    <3>3. QED
      BY <1>3, <2>3, <2>4, <3>1, <3>2
  <2>6. PollerOK(q)
    BY <1>4, <2>3, <2>5 DEF PollerOK, Changes
  <2>7. Effective(q) = Effective(p) \cup {e}
    <3>1. \A i \in 1 .. n + 1 : i \in 1 .. n \/ i = n + 1
      BY <2>2
    <3>2. n + 1 \in 1 .. n + 1 /\ \A i \in 1 .. n : i \in 1 .. n + 1
      BY <2>2
    <3>3. ToSet(q.list) = ToSet(p.list) \cup {e}
      BY <2>3, <3>1, <3>2 DEF ToSet
    <3>4. QED
      BY <1>4, <2>3, <3>3 DEF Effective
  <2>8. QED
    BY <1>2, <1>4, <2>3, <2>6, <2>7 DEF ItemsOf
<1>5. CASE p.kind = "epoll"
  <2>1. p.changes = <<>>
    BY <1>5 DEF PollerOK
  <2>2. Untouched(p) = p.table /\ Added(p) = {}
    BY <2>1 DEF Untouched, Added
  <2>3. Others(p.table, f) = p.table
    BY <1>5, <2>2 DEF Others, Effective
  <2>4. q = [p EXCEPT !.table = @ \cup {e}]
    BY <1>2, <1>5, <2>3 DEF PollerAdd
  <2>5. /\ q.kind = "epoll" /\ q.table = p.table \cup {e} /\ q.changes = <<>> /\ q.list = p.list
        /\ q \in [kind : Kinds, list : Seq(Items), table : SUBSET Items, changes : Seq(Changes)]
    BY <1>1, <1>5, <2>1, <2>4
  <2>6. PollerOK(q)
    BY <2>5 DEF PollerOK, Changes
  <2>7. Untouched(q) = q.table /\ Added(q) = {}
    BY <2>5 DEF Untouched, Added
  <2>8. Effective(q) = Effective(p) \cup {e}
    BY <1>5, <2>2, <2>5, <2>7 DEF Effective
  <2>9. QED
    BY <1>2, <1>5, <2>1, <2>5, <2>6, <2>8 DEF ItemsOf
<1>6. CASE p.kind = "kqueue"
  <2>1. PICK a : a = [item |-> Item(f, {"R"}, ud), add |-> TRUE]
    OBVIOUS
  <2>2. PICK b : b = [item |-> Item(f, {"W"}, ud), add |-> TRUE]
    OBVIOUS
  <2>3. /\ a \in Changes /\ a.item = Item(f, {"R"}, ud) /\ a.add
        /\ b \in Changes /\ b.item = Item(f, {"W"}, ud) /\ b.add
    BY <2>1, <2>2, ItemIs DEF Changes, ReadWrite
  <2>4. q = [p EXCEPT !.changes = (@ \o (IF "R" \in ev THEN <<a>> ELSE <<>>))
                                     \o (IF "W" \in ev THEN <<b>> ELSE <<>>)]
    BY <1>6, <2>1, <2>2 DEF PollerAdd, Change
  <2>5. CASE ev = ReadOnly
    <3>0. (p.changes \o <<a>>) \o <<>> = Append(p.changes, a) /\ "R" \in ev /\ "W" \notin ev
      BY <1>1, <2>3, <2>5, AppendTwo DEF ReadOnly
    <3>1. q = [p EXCEPT !.changes = Append(@, a)]
      BY <2>4, <3>0
    <3>2. /\ PollerOK(q) /\ q.kind = "kqueue"
          /\ Effective(q) = {x \in Effective(p) : ~SameFilter(a.item, x)} \cup {x \in {a.item} : a.add}
          /\ \A i \in DOMAIN q.changes :
                (i \in DOMAIN p.changes /\ q.changes[i] = p.changes[i]) \/ q.changes[i] = a
      BY <1>6, <2>3, <3>1, OneChange
    <3>3. \A x \in Effective(p) : ~SameFilter(a.item, x)
      BY <2>3 DEF SameFilter, Item
    <3>4. ItemsOf(p.kind, f, ev, ud) = {a.item}
      BY <1>6, <2>3, <2>5 DEF ItemsOf, ReadOnly
    <3>5. QED
      BY <1>6, <2>3, <3>2, <3>3, <3>4
  <2>6. CASE ev = ReadWrite
    <3>0. (p.changes \o <<a>>) \o <<b>> = Append(Append(p.changes, a), b) /\ "R" \in ev /\ "W" \in ev
      BY <1>1, <2>3, <2>6, AppendTwo DEF ReadWrite
    <3>1. q = [p EXCEPT !.changes = Append(Append(@, a), b)]
      BY <2>4, <3>0
    <3>2. /\ PollerOK(q) /\ q.kind = "kqueue"
          /\ Effective(q) = {x \in Effective(p) : x.fd # f}
                            \cup {x \in {a.item} : a.add} \cup {x \in {b.item} : b.add}
          /\ \A i \in DOMAIN q.changes : \/ i \in DOMAIN p.changes /\ q.changes[i] = p.changes[i]
                                         \/ q.changes[i] = a \/ q.changes[i] = b
      BY <1>6, <2>3, <3>1, TwoChanges
    <3>3. ItemsOf(p.kind, f, ev, ud) = {a.item, b.item}
      BY <1>6, <2>3, <2>6 DEF ItemsOf, ReadWrite
    <3>4. QED
      BY <1>6, <2>3, <3>2, <3>3
  <2>7. QED
    BY <2>5, <2>6
<1>7. QED
  BY <1>1, <1>4, <1>5, <1>6 DEF Kinds

LEMMA RemoveAtIs ==
    ASSUME NEW S, NEW s \in Seq(S), NEW i \in 1 .. Len(s), NEW t, t = RemoveAt(s, i)
    PROVE  /\ t \in Seq(S) /\ Len(t) = Len(s) - 1
           /\ \A j \in 1 .. Len(s) - 1 : t[j] = IF j < i THEN s[j] ELSE s[j + 1]
<1>1. PICK n \in Nat : n = Len(s)
  OBVIOUS
<1>2. PICK u : u = SubSeq(s, 1, i - 1)
  OBVIOUS
<1>3. PICK v : v = SubSeq(s, i + 1, n)
  OBVIOUS
<1>4. u \in Seq(S) /\ Len(u) = i - 1 /\ \A j \in 1 .. i - 1 : u[j] = s[j]
  BY <1>1, <1>2
<1>5. v \in Seq(S) /\ Len(v) = n - i /\ \A j \in 1 .. n - i : v[j] = s[i + j]
  BY <1>1, <1>3
<1>6. t = u \o v
  BY <1>1, <1>2, <1>3 DEF RemoveAt
<1>7. t \in Seq(S) /\ Len(t) = n - 1
  <2>1. u \in Seq(S) /\ v \in Seq(S) /\ Len(u) = i - 1 /\ Len(v) = n - i
    BY <1>4, <1>5
  <2>2. u \o v \in Seq(S) /\ Len(u \o v) = Len(u) + Len(v)
    BY <2>1
  <2>3. QED
    BY <1>1, <1>6, <2>1, <2>2
<1>8. ASSUME NEW j \in 1 .. n - 1 PROVE t[j] = IF j < i THEN s[j] ELSE s[j + 1]
  <2>1. CASE j < i
    BY <1>1, <1>4, <1>5, <1>6, <2>1
  <2>2. CASE ~(j < i)
    <3>1. t[j] = v[j - (i - 1)]
      BY <1>1, <1>4, <1>5, <1>6, <2>2
    <3>2. j - (i - 1) \in 1 .. n - i /\ i + (j - (i - 1)) = j + 1
      BY <1>1, <2>2
    <3>3. QED
      BY <1>5, <2>2, <3>1, <3>2
  <2>3. QED
    BY <2>1, <2>2
<1>9. QED
  BY <1>1, <1>7, <1>8

\* With one item for a descriptor, the first is the one.
LEMMA FirstOfIs ==
    ASSUME NEW p, PollerOK(p), p.kind = "select", NEW f, Listed(p.list, f)
    PROVE  /\ FirstOf(p.list, f) \in DOMAIN p.list /\ p.list[FirstOf(p.list, f)].fd = f
           /\ \A j \in DOMAIN p.list : p.list[j].fd = f => j = FirstOf(p.list, f)
<1>1. PICK i \in DOMAIN p.list : p.list[i].fd = f
  BY DEF Listed
<1>2. \A j \in DOMAIN p.list : p.list[j].fd = f => j = i
  BY <1>1 DEF PollerOK
<1>3. p.list \in Seq(Items)
  BY DEF PollerOK
<1>4. \A j \in 1 .. i - 1 : p.list[j].fd # f
  BY <1>1, <1>2, <1>3
<1>5. i = FirstOf(p.list, f)
  BY <1>1, <1>2, <1>4 DEF FirstOf
<1>6. QED
  BY <1>1, <1>2, <1>5

LEMMA RemoveIs ==
    ASSUME NEW p, PollerOK(p), NEW f \in Fd,
           NEW q, q = Forget(PollerRemove(p, f), f)
    PROVE  /\ PollerOK(q) /\ q.kind = p.kind
           /\ Effective(q) = {x \in Effective(p) : x.fd # f}
           /\ \A i \in DOMAIN q.changes :
                 \/ i \in DOMAIN p.changes /\ q.changes[i] = p.changes[i]
                 \/ q.changes[i].item.ud = NullUd
<1>1. /\ p.kind \in Kinds /\ p.list \in Seq(Items) /\ p.table \subseteq Items
      /\ p.changes \in Seq(Changes)
      /\ p \in [kind : Kinds, list : Seq(Items), table : SUBSET Items, changes : Seq(Changes)]
  BY DEF PollerOK, Changes
<1>2. PICK o : o = Others(p.table, f)
  OBVIOUS
<1>3. o \subseteq p.table /\ Others(o, f) = o
  BY <1>2 DEF Others
<1>4. CASE p.kind = "select"
  <2>1. CASE ~Listed(p.list, f)
    <3>1. q = [p EXCEPT !.table = o]
      BY <1>2, <1>4, <2>1 DEF PollerRemove, Forget
    <3>2. /\ q.kind = "select" /\ q.list = p.list /\ q.changes = p.changes
          /\ q \in [kind : Kinds, list : Seq(Items), table : SUBSET Items, changes : Seq(Changes)]
      BY <1>1, <1>3, <1>4, <3>1
    <3>3. PollerOK(q)
      BY <1>4, <3>2 DEF PollerOK, Changes
    <3>4. Effective(q) = ToSet(p.list) /\ Effective(p) = ToSet(p.list)
      BY <1>4, <3>2 DEF Effective
    <3>5. \A x \in ToSet(p.list) : x.fd # f
      BY <2>1 DEF Listed, ToSet
    <3>6. QED
      BY <1>4, <3>2, <3>3, <3>4, <3>5
  <2>2. CASE Listed(p.list, f)
    <3>1. PICK i \in DOMAIN p.list : /\ i = FirstOf(p.list, f) /\ p.list[i].fd = f
                                     /\ \A j \in DOMAIN p.list : p.list[j].fd = f => j = i
      BY <1>4, <2>2, FirstOfIs
    <3>2. PICK l : l = RemoveAt(p.list, i)
      OBVIOUS
    <3>3. PICK n \in Nat : n = Len(p.list) /\ DOMAIN p.list = 1 .. n
      BY <1>1
    <3>4. i \in 1 .. n
      BY <3>1, <3>3
    <3>5. /\ l \in Seq(Items) /\ Len(l) = n - 1
          /\ \A j \in 1 .. n - 1 : l[j] = IF j < i THEN p.list[j] ELSE p.list[j + 1]
      BY <1>1, <3>2, <3>3, <3>4, RemoveAtIs
    <3>6. DOMAIN l = 1 .. n - 1
      BY <3>5
    <3>7. q = [p EXCEPT !.list = l, !.table = o]
      BY <1>2, <1>4, <2>2, <3>1, <3>2 DEF PollerRemove, Forget
    <3>8. /\ q.kind = "select" /\ q.list = l /\ q.changes = p.changes
          /\ q \in [kind : Kinds, list : Seq(Items), table : SUBSET Items, changes : Seq(Changes)]
      BY <1>1, <1>3, <1>4, <3>5, <3>7
    <3>9. \A j \in 1 .. n - 1 : \E k \in 1 .. n : /\ l[j] = p.list[k] /\ k # i
                                                  /\ k = IF j < i THEN j ELSE j + 1
      BY <3>3, <3>4, <3>5
    <3>10. \A k \in 1 .. n : k # i => \E j \in 1 .. n - 1 : l[j] = p.list[k]
      <4>1. ASSUME NEW k \in 1 .. n, k # i PROVE \E j \in 1 .. n - 1 : l[j] = p.list[k]
        <5>1. CASE k < i
          BY <3>3, <3>4, <3>5, <5>1
        <5>2. CASE ~(k < i)
          <6>1. k - 1 \in 1 .. n - 1 /\ ~(k - 1 < i) /\ k - 1 + 1 = k
            BY <3>3, <3>4, <4>1, <5>2
          <6>2. QED
            BY <3>5, <6>1
        <5>3. QED
          BY <5>1, <5>2
      <4>2. QED
        BY <4>1
    <3>11. \A j, k \in DOMAIN q.list : q.list[j].fd = q.list[k].fd => j = k
      <4>1. \A j, k \in 1 .. n : p.list[j].fd = p.list[k].fd => j = k
        BY <1>4, <3>3 DEF PollerOK
      <4>2. ASSUME NEW j \in 1 .. n - 1, NEW k \in 1 .. n - 1, l[j].fd = l[k].fd PROVE j = k
        <5>1. PICK a \in 1 .. n : l[j] = p.list[a] /\ a = IF j < i THEN j ELSE j + 1
          BY <3>9
        <5>2. PICK b \in 1 .. n : l[k] = p.list[b] /\ b = IF k < i THEN k ELSE k + 1
          BY <3>9
        <5>3. a = b
          BY <4>1, <4>2, <5>1, <5>2
        <5>4. QED
          BY <3>3, <3>4, <5>1, <5>2, <5>3
      <4>3. QED
        BY <3>6, <3>8, <4>2
    <3>12. PollerOK(q)
      BY <1>4, <3>8, <3>11 DEF PollerOK, Changes
    <3>13. \A x : x \in ToSet(l) <=> x \in ToSet(p.list) /\ x.fd # f
      <4>1. ASSUME NEW x \in ToSet(l) PROVE x \in ToSet(p.list) /\ x.fd # f
        <5>1. PICK j \in 1 .. n - 1 : x = l[j]
          BY <3>6, <4>1 DEF ToSet
        <5>2. PICK k \in 1 .. n : l[j] = p.list[k] /\ k # i
          BY <3>9
        <5>3. QED
          BY <3>1, <3>3, <5>1, <5>2 DEF ToSet
      <4>2. ASSUME NEW x \in ToSet(p.list), x.fd # f PROVE x \in ToSet(l)
        <5>1. PICK k \in 1 .. n : x = p.list[k]
          BY <3>3, <4>2 DEF ToSet
        <5>2. k # i
          BY <3>1, <4>2, <5>1
        <5>3. QED
          BY <3>6, <3>10, <5>1, <5>2 DEF ToSet
      <4>3. QED
        BY <4>1, <4>2
    <3>14. Effective(q) = ToSet(l) /\ Effective(p) = ToSet(p.list)
      BY <1>4, <3>8 DEF Effective
    <3>15. Effective(q) = {x \in Effective(p) : x.fd # f}
      BY <3>13, <3>14
    <3>16. QED
      BY <1>4, <3>8, <3>12, <3>15
  <2>3. QED
    BY <2>1, <2>2
<1>5. CASE p.kind = "epoll"
  <2>1. p.changes = <<>>
    BY <1>5 DEF PollerOK
  <2>2. q = [p EXCEPT !.table = o]
    BY <1>2, <1>3, <1>5 DEF PollerRemove, Forget
  <2>3. /\ q.kind = "epoll" /\ q.table = o /\ q.changes = <<>>
        /\ q \in [kind : Kinds, list : Seq(Items), table : SUBSET Items, changes : Seq(Changes)]
    BY <1>1, <1>3, <1>5, <2>1, <2>2
  <2>4. PollerOK(q)
    BY <2>3 DEF PollerOK, Changes
  <2>5. Untouched(p) = p.table /\ Added(p) = {} /\ Untouched(q) = o /\ Added(q) = {}
    BY <2>1, <2>3 DEF Untouched, Added
  <2>6. Effective(q) = {x \in Effective(p) : x.fd # f}
    BY <1>2, <1>5, <2>3, <2>5 DEF Effective, Others
  <2>7. QED
    BY <1>5, <2>1, <2>3, <2>4, <2>6
<1>6. CASE p.kind = "kqueue"
  <2>1. PICK a : a = [item |-> Item(f, {"R"}, NullUd), add |-> FALSE]
    OBVIOUS
  <2>2. PICK b : b = [item |-> Item(f, {"W"}, NullUd), add |-> FALSE]
    OBVIOUS
  <2>3. /\ a \in Changes /\ a.item = Item(f, {"R"}, NullUd) /\ ~a.add /\ a.item.ud = NullUd
        /\ b \in Changes /\ b.item = Item(f, {"W"}, NullUd) /\ ~b.add /\ b.item.ud = NullUd
    BY <2>1, <2>2 DEF Changes, Filters, Item
  <2>4. p.changes \o <<a, b>> = Append(Append(p.changes, a), b)
    BY <1>1, <2>3, AppendTwo
  <2>5. PICK m : m = [p EXCEPT !.changes = Append(Append(@, a), b)]
    OBVIOUS
  <2>6. /\ PollerOK(m) /\ m.kind = "kqueue"
        /\ Effective(m) = {x \in Effective(p) : x.fd # f}
                          \cup {x \in {a.item} : a.add} \cup {x \in {b.item} : b.add}
        /\ \A i \in DOMAIN m.changes : \/ i \in DOMAIN p.changes /\ m.changes[i] = p.changes[i]
                                       \/ m.changes[i] = a \/ m.changes[i] = b
    <3>1. /\ a \in Changes /\ a.item = Item(f, {"R"}, NullUd)
          /\ b \in Changes /\ b.item = Item(f, {"W"}, NullUd)
      BY <2>3
    <3>2. QED
      BY <1>6, <2>5, <3>1, TwoChanges, SMTT(30)
  <2>7. m = PollerRemove(p, f)
    BY <1>6, <2>1, <2>2, <2>4, <2>5 DEF PollerRemove, Change
  <2>8. q = [m EXCEPT !.table = Others(@, f)]
    BY <2>7 DEF Forget
  <2>9. m.table = p.table
    BY <1>1, <2>5
  <2>10. /\ q.kind = "kqueue" /\ q.changes = m.changes /\ q.table = Others(m.table, f)
         /\ q \in [kind : Kinds, list : Seq(Items), table : SUBSET Items, changes : Seq(Changes)]
    <3>1. m \in [kind : Kinds, list : Seq(Items), table : SUBSET Items, changes : Seq(Changes)]
      BY <2>6 DEF PollerOK, Changes
    <3>2. Others(m.table, f) \subseteq Items
      BY <3>1 DEF Others
    <3>3. QED
      BY <2>6, <2>8, <3>1, <3>2
  <2>11. PollerOK(q)
    <3>1. q.table \subseteq Filters
      BY <2>6, <2>10 DEF PollerOK, Others
    <3>2. QED
      BY <2>10, <3>1 DEF PollerOK, Changes
  <2>12. Effective(m) = {x \in Effective(p) : x.fd # f}
    BY <2>3, <2>6
  <2>13. Untouched(q) = {x \in Untouched(m) : x.fd # f} /\ Added(q) = Added(m)
    BY <2>10 DEF Untouched, Added, Latest, Others
  <2>14. Effective(q) = Untouched(q) \cup Added(q) /\ Effective(m) = Untouched(m) \cup Added(m)
    BY <2>6, <2>10 DEF Effective
  <2>15. Effective(q) = Effective(m)
    BY <2>12, <2>13, <2>14
  <2>16. QED
    BY <1>6, <2>3, <2>6, <2>10, <2>11, <2>12, <2>15
<1>7. QED
  BY <1>1, <1>4, <1>5, <1>6 DEF Kinds

LEMMA ModifyIs ==
    ASSUME NEW p, PollerOK(p), NEW f \in Fd, NEW ev \in {ReadOnly, ReadWrite}, NEW ud \in Conn,
           \E x \in Effective(p) : x.fd = f, \A x \in Effective(p) : x.fd = f => x.ud = ud,
           NEW q, q = PollerModify(p, f, ev, ud)
    PROVE  /\ PollerOK(q) /\ q.kind = p.kind
           /\ Effective(q) = {x \in Effective(p) : x.fd # f} \cup ItemsOf(p.kind, f, ev, ud)
           /\ \A i \in DOMAIN q.changes :
                 \/ i \in DOMAIN p.changes /\ q.changes[i] = p.changes[i]
                 \/ q.changes[i].item.ud = ud /\ q.changes[i].item.fd = f
<1>1. /\ p.kind \in Kinds /\ p.list \in Seq(Items) /\ p.table \subseteq Items
      /\ p.changes \in Seq(Changes)
      /\ p \in [kind : Kinds, list : Seq(Items), table : SUBSET Items, changes : Seq(Changes)]
  BY DEF PollerOK, Changes
<1>2. PICK e \in Items : e = Item(f, ev, ud)
  BY ItemIs
<1>3. e.fd = f /\ e.ud = ud /\ e.event = ev
  BY <1>2 DEF Item
<1>4. CASE p.kind = "select"
  <2>1. Effective(p) = ToSet(p.list)
    BY <1>4 DEF Effective
  <2>2. Listed(p.list, f)
    BY <2>1 DEF Listed, ToSet
  <2>3. PICK i \in DOMAIN p.list : /\ i = FirstOf(p.list, f) /\ p.list[i].fd = f
                                   /\ \A j \in DOMAIN p.list : p.list[j].fd = f => j = i
    BY <1>4, <2>2, FirstOfIs
  <2>4. p.list[i] \in Items /\ p.list[i].ud = ud
    BY <1>1, <2>1, <2>3 DEF ToSet
  <2>5. [p.list[i] EXCEPT !.event = ev] = e
    BY <1>2, <2>3, <2>4 DEF Items, Item
  <2>6. PICK l : l = [p.list EXCEPT ![i] = e]
    OBVIOUS
  <2>7. /\ l \in Seq(Items) /\ DOMAIN l = DOMAIN p.list /\ l[i] = e
        /\ \A j \in DOMAIN p.list : j # i => l[j] = p.list[j]
    BY <1>1, <2>3, <2>6
  <2>8. [p.list EXCEPT ![i].event = ev] = l
    BY <1>1, <2>3, <2>5, <2>6
  <2>9. q = [p EXCEPT !.list = l]
    BY <1>1, <1>4, <2>2, <2>3, <2>8 DEF PollerModify
  <2>10. /\ q.kind = "select" /\ q.list = l /\ q.changes = p.changes
         /\ q \in [kind : Kinds, list : Seq(Items), table : SUBSET Items, changes : Seq(Changes)]
    BY <1>1, <1>4, <2>7, <2>9
  <2>11. \A j, k \in DOMAIN q.list : q.list[j].fd = q.list[k].fd => j = k
    <3>1. \A j, k \in DOMAIN p.list : p.list[j].fd = p.list[k].fd => j = k
      BY <1>4 DEF PollerOK
    <3>2. \A j \in DOMAIN p.list : l[j].fd = p.list[j].fd
      BY <1>3, <2>3, <2>7
    <3>3. QED
      BY <2>7, <2>10, <3>1, <3>2
  <2>12. PollerOK(q)
    BY <1>4, <2>10, <2>11 DEF PollerOK, Changes
  <2>13. ToSet(l) = {x \in ToSet(p.list) : x.fd # f} \cup {e}
    <3>1. ASSUME NEW x \in ToSet(l) PROVE x \in {y \in ToSet(p.list) : y.fd # f} \cup {e}
      BY <2>3, <2>7, <3>1 DEF ToSet
    <3>2. ASSUME NEW x \in ToSet(p.list), x.fd # f PROVE x \in ToSet(l)
      BY <2>3, <2>7, <3>2 DEF ToSet
    <3>3. e \in ToSet(l)
      BY <2>3, <2>7 DEF ToSet
    <3>4. QED
      BY <3>1, <3>2, <3>3
  <2>14. Effective(q) = ToSet(l)
    BY <2>10 DEF Effective
  <2>15. QED
    BY <1>2, <1>4, <2>1, <2>10, <2>12, <2>13, <2>14 DEF ItemsOf
<1>5. CASE p.kind = "epoll"
  <2>1. p.changes = <<>>
    BY <1>5 DEF PollerOK
  <2>2. Untouched(p) = p.table /\ Added(p) = {}
    BY <2>1 DEF Untouched, Added
  <2>3. Effective(p) = p.table
    BY <1>5, <2>2 DEF Effective
  <2>4. Others(p.table, f) # p.table
    BY <2>3 DEF Others
  <2>5. PICK t : t = Others(p.table, f) \cup {e}
    OBVIOUS
  <2>6. q = [p EXCEPT !.table = t]
    BY <1>2, <1>5, <2>4, <2>5 DEF PollerModify
  <2>7. t \subseteq Items
    BY <1>1, <2>5 DEF Others
  <2>8. /\ q.kind = "epoll" /\ q.table = t /\ q.changes = <<>>
        /\ q \in [kind : Kinds, list : Seq(Items), table : SUBSET Items, changes : Seq(Changes)]
    BY <1>1, <1>5, <2>1, <2>6, <2>7
  <2>9. PollerOK(q)
    BY <2>8 DEF PollerOK, Changes
  <2>10. Untouched(q) = t /\ Added(q) = {}
    BY <2>8 DEF Untouched, Added
  <2>11. Effective(q) = {x \in Effective(p) : x.fd # f} \cup {e}
    BY <2>3, <2>5, <2>8, <2>10 DEF Effective, Others
  <2>12. QED
    BY <1>2, <1>5, <2>1, <2>8, <2>9, <2>11 DEF ItemsOf
<1>6. CASE p.kind = "kqueue"
  <2>1. PICK a : a = [item |-> Item(f, {"R"}, ud), add |-> "R" \in ev]
    OBVIOUS
  <2>2. PICK b : b = [item |-> Item(f, {"W"}, ud), add |-> "W" \in ev]
    OBVIOUS
  <2>3. ("R" \in ev) \in BOOLEAN /\ ("W" \in ev) \in BOOLEAN
    OBVIOUS
  <2>4. Item(f, {"R"}, ud) \in Filters /\ Item(f, {"W"}, ud) \in Filters
    BY ItemIs DEF ReadWrite
  <2>5. /\ a \in Changes /\ a.item = Item(f, {"R"}, ud) /\ (a.add <=> "R" \in ev)
        /\ b \in Changes /\ b.item = Item(f, {"W"}, ud) /\ (b.add <=> "W" \in ev)
    BY <2>1, <2>2, <2>3, <2>4 DEF Changes
  <2>6. p.changes \o <<a, b>> = Append(Append(p.changes, a), b)
    BY <1>1, <2>5, AppendTwo
  <2>7. q = [p EXCEPT !.changes = Append(Append(@, a), b)]
    BY <1>6, <2>1, <2>2, <2>6 DEF PollerModify, Change
  <2>8. /\ PollerOK(q) /\ q.kind = "kqueue"
        /\ Effective(q) = {x \in Effective(p) : x.fd # f}
                          \cup {x \in {a.item} : a.add} \cup {x \in {b.item} : b.add}
        /\ \A i \in DOMAIN q.changes : \/ i \in DOMAIN p.changes /\ q.changes[i] = p.changes[i]
                                       \/ q.changes[i] = a \/ q.changes[i] = b
    <3>1. /\ a \in Changes /\ a.item = Item(f, {"R"}, ud)
          /\ b \in Changes /\ b.item = Item(f, {"W"}, ud)
      BY <2>5
    <3>2. QED
      BY <1>6, <2>7, <3>1, TwoChanges, SMTT(30)
  <2>9. ItemsOf(p.kind, f, ev, ud) = {x \in {a.item} : a.add} \cup {x \in {b.item} : b.add}
    <3>1. CASE ev = ReadOnly
      BY <1>6, <2>5, <3>1 DEF ItemsOf, ReadOnly
    <3>2. CASE ev = ReadWrite
      BY <1>6, <2>5, <3>2 DEF ItemsOf, ReadWrite
    <3>3. QED
      BY <3>1, <3>2
  <2>10. a.item.ud = ud /\ a.item.fd = f /\ b.item.ud = ud /\ b.item.fd = f
    BY <2>5 DEF Item
  <2>11. QED
    BY <1>6, <2>8, <2>9, <2>10
<1>7. QED
  BY <1>1, <1>4, <1>5, <1>6 DEF Kinds

LEMMA WaitedIs ==
    ASSUME NEW p, PollerOK(p), Effective(p) \subseteq Items, NEW q, q = Waited(p)
    PROVE  /\ PollerOK(q) /\ q.kind = p.kind /\ q.changes = <<>>
           /\ Effective(q) = Effective(p)
<1>1. p \in [kind : Kinds, list : Seq(Items), table : SUBSET Items, changes : Seq(Changes)]
  BY DEF PollerOK, Changes
<1>2. CASE p.kind # "kqueue"
  BY <1>2 DEF Waited, PollerOK
<1>3. CASE p.kind = "kqueue"
  <2>1. PICK t : t = Effective(p)
    OBVIOUS
  <2>2. PICK none : none = <<>> /\ none \in Seq(Changes)
    <3>1. <<>> \in Seq(Changes)
      OBVIOUS
    <3>2. QED
      BY <3>1, Zenon
  <2>3. q = [p EXCEPT !.table = t, !.changes = none]
    BY <1>3, <2>1, <2>2 DEF Waited
  <2>4. /\ q.kind = "kqueue" /\ q.table = t /\ q.changes = <<>>
        /\ q \in [kind : Kinds, list : Seq(Items), table : SUBSET Items, changes : Seq(Changes)]
    BY <1>1, <1>3, <2>1, <2>2, <2>3
  <2>5. t \subseteq Filters
    BY <1>3, <2>1, WatchedFilters
  <2>6. PollerOK(q)
    BY <2>4, <2>5 DEF PollerOK, Changes
  <2>7. Untouched(q) = t /\ Added(q) = {}
    BY <2>4 DEF Untouched, Added
  <2>8. QED
    BY <1>3, <2>1, <2>4, <2>6, <2>7 DEF Effective
<1>4. QED
  BY <1>2, <1>3

\* A call of cb is for something that is watched, or for a change that failed.
LEMMA CallsIs ==
    ASSUME NEW p, PollerOK(p), Effective(p) \subseteq Items, NEW ready, NEW e \in Calls(p, ready)
    PROVE  /\ e.event \subseteq ReadWrite
           /\ \/ \E x \in Effective(p) : e.fd = x.fd /\ e.ud = x.ud
              \/ \E i \in DOMAIN p.changes :
                    /\ ~p.changes[i].add /\ p.changes[i].item.ud # NullUd
                    /\ e.fd = p.changes[i].item.fd /\ e.ud = p.changes[i].item.ud
<1>1. p.kind \in Kinds
  BY DEF PollerOK
<1>2. PICK hit : hit = {x \in Effective(p) : x.event \cap ready[x.fd] # {}}
  OBVIOUS
<1>3. CASE p.kind # "kqueue"
  <2>1. \E x \in Effective(p) : e = [x EXCEPT !.event = @ \cap ready[x.fd]]
    <3>1. CASE p.kind = "select"
      <4>1. e \in {[x EXCEPT !.event = @ \cap ready[x.fd]] :
                      x \in IF hit = {} THEN {} ELSE Effective(p)}
        BY <1>2, <3>1 DEF Calls
      <4>2. QED
        BY <4>1
    <3>2. CASE p.kind = "epoll"
      <4>1. e \in {[x EXCEPT !.event = @ \cap ready[x.fd]] : x \in hit}
        BY <1>2, <3>2 DEF Calls
      <4>2. QED
        BY <1>2, <4>1
    <3>3. QED
      BY <1>1, <1>3, <3>1, <3>2 DEF Kinds
  <2>2. PICK x \in Effective(p) : e = [x EXCEPT !.event = @ \cap ready[x.fd]]
    BY <2>1
  <2>3. x \in Items
    OBVIOUS
  <2>4. e.fd = x.fd /\ e.ud = x.ud /\ e.event = x.event \cap ready[x.fd] /\ x.event \subseteq ReadWrite
    BY <2>2, <2>3 DEF Items
  <2>5. QED
    BY <2>2, <2>4
<1>4. CASE p.kind = "kqueue"
  <2>1. e \in {[of |-> x.event, fd |-> x.fd, event |-> ReadWrite, ud |-> x.ud] :
                  x \in {y \in IF Errors(p) # {} THEN Errors(p) ELSE hit : y.ud # NullUd}}
    BY <1>2, <1>4 DEF Calls
  <2>2. PICK x \in Errors(p) \cup hit : /\ x.ud # NullUd
                                        /\ e.fd = x.fd /\ e.event = ReadWrite /\ e.ud = x.ud
    BY <2>1
  <2>3. CASE x \in hit
    BY <1>2, <2>2, <2>3
  <2>4. CASE x \in Errors(p)
    BY <2>2, <2>4 DEF Errors, Fails
  <2>5. QED
    BY <2>2, <2>3, <2>4
<1>5. QED
  BY <1>3, <1>4

------------------------------------------------------------------------------
(* The invariant holds at first ... *)

LEMMA InitInv == Init => IInv
<1> SUFFICES ASSUME Init PROVE IInv
  OBVIOUS
<1>1. TypeOK
  <2>1. NewTcp \in TcpRecord
    BY DEF NewTcp, TcpRecord, State
  <2>2. 0 \in 0 .. MaxOpen
    BY ConnectionAssumption
  <2>3. QED
    BY <2>1, <2>2 DEF Init, TypeOK
<1>2. \A c \in Conn : ~tcp[c].evmask /\ ~tcp[c].managed /\ tcp[c].state = "Uninitalized"
  BY DEF Init, NewTcp
<1>3. Owned /\ Listing
  BY <1>2 DEF Init, Owned, Listing
<1>4. Telling
  BY <1>2 DEF Init, Telling, ToldEver, ToldManaged, ToldAlone
<1>5. PICK k \in Kinds : poller = NewPoller(k)
  BY ConnectionAssumption DEF Init, Kinds
<1>6. poller = [kind |-> k, list |-> <<>>, table |-> {}, changes |-> <<>>]
  BY <1>5 DEF NewPoller
<1>7. PollerOK(poller)
  <2>1. <<>> \in Seq(Items) /\ <<>> \in Seq([item : Filters, add : BOOLEAN]) /\ {} \in SUBSET Items
    OBVIOUS
  <2>2. poller.list = <<>> /\ poller.table = {} /\ poller.changes = <<>> /\ DOMAIN poller.list = {}
    BY <1>6
  <2>3. QED
    BY <1>6, <2>1, <2>2 DEF PollerOK
<1>8. Exact
  <2>1. poller.list = <<>> /\ poller.table = {} /\ poller.changes = <<>>
    BY <1>6
  <2>2. ToSet(poller.list) = {} /\ Untouched(poller) = {} /\ Added(poller) = {}
    BY <2>1 DEF ToSet, Untouched, Added
  <2>3. Effective(poller) = {}
    BY <2>2 DEF Effective
  <2>4. QED
    BY <2>3 DEF Init, Exact
<1>9. Deletions /\ Batched
  BY <1>6 DEF Init, Deletions, Batched
<1>10. QED
  BY <1>1, <1>3, <1>4, <1>7, <1>8, <1>9 DEF IInv

------------------------------------------------------------------------------
(* ... and every step keeps it *)

\* What the items of a socket are for.
LEMMA ItemsOfIs ==
    ASSUME NEW k, NEW f, NEW ev \in {ReadOnly, ReadWrite}, NEW ud
    PROVE  /\ \A x \in ItemsOf(k, f, ev, ud) : x.fd = f /\ x.ud = ud
           /\ \E x \in ItemsOf(k, f, ev, ud) : x.fd = f
           /\ f \in Fd /\ ud \in Conn => ItemsOf(k, f, ev, ud) \subseteq Items
<1>1. CASE k = "kqueue"
  <2>1. ItemsOf(k, f, ev, ud) = {Item(f, {e}, ud) : e \in ev}
    BY <1>1 DEF ItemsOf
  <2>2. \A e : Item(f, {e}, ud).fd = f /\ Item(f, {e}, ud).ud = ud
    BY DEF Item
  <2>3. "R" \in ev /\ ev \subseteq ReadWrite
    BY DEF ReadOnly, ReadWrite
  <2>4. ASSUME f \in Fd, ud \in Conn PROVE ItemsOf(k, f, ev, ud) \subseteq Items
    <3>1. ASSUME NEW x \in ItemsOf(k, f, ev, ud) PROVE x \in Items
      <4>1. PICK g \in ev : x = Item(f, {g}, ud)
        BY <2>1, Zenon
      <4>2. Item(f, {g}, ud) \in Items
        BY <2>3, <2>4, ItemIs
      <4>3. QED
        BY <4>1, <4>2, Zenon
    <3>2. QED
      BY <3>1
  <2>5. \A x \in ItemsOf(k, f, ev, ud) : x.fd = f /\ x.ud = ud
    BY <2>1, <2>2
  <2>6. \E x \in ItemsOf(k, f, ev, ud) : x.fd = f
    <3>1. Item(f, {"R"}, ud) \in ItemsOf(k, f, ev, ud)
      BY <2>1, <2>3, Zenon
    <3>2. QED
      BY <2>2, <3>1, Zenon
  <2>7. QED
    BY <2>4, <2>5, <2>6, Zenon
<1>2. CASE k # "kqueue"
  <2>1. ItemsOf(k, f, ev, ud) = {Item(f, ev, ud)}
    BY <1>2 DEF ItemsOf
  <2>2. Item(f, ev, ud).fd = f /\ Item(f, ev, ud).ud = ud
    BY DEF Item
  <2>3. f \in Fd /\ ud \in Conn => Item(f, ev, ud) \in Items
    BY ItemIs
  <2>4. QED
    BY <2>1, <2>2, <2>3
<1>3. QED
  BY <1>1, <1>2

LEMMA EventsOf ==
    ASSUME NEW k, NEW f, NEW ev, NEW ud, NEW w, w = ItemsOf(k, f, ev, ud)
    PROVE  UNION {x.event : x \in w} = ev
<1>1. CASE k = "kqueue"
  <2>1. w = {Item(f, {e}, ud) : e \in ev}
    BY <1>1 DEF ItemsOf
  <2>2. \A e : Item(f, {e}, ud).event = {e}
    BY DEF Item
  <2>3. ASSUME NEW e \in ev PROVE \E x \in w : e \in x.event
    <3>1. Item(f, {e}, ud) \in w
      BY <2>1, Zenon
    <3>2. e \in Item(f, {e}, ud).event
      BY <2>2
    <3>3. QED
      BY <3>1, <3>2, Zenon
  <2>4. ASSUME NEW x \in w, NEW e \in x.event PROVE e \in ev
    <3>1. PICK g \in ev : x = Item(f, {g}, ud)
      BY <2>1, Zenon
    <3>2. x.event = {g}
      BY <2>2, <3>1, Zenon
    <3>3. QED
      BY <3>2
  <2>5. QED
    BY <2>3, <2>4
<1>2. CASE k # "kqueue"
  <2>1. w = {Item(f, ev, ud)} /\ Item(f, ev, ud).event = ev
    BY <1>2 DEF ItemsOf, Item
  <2>2. QED
    BY <2>1
<1>3. QED
  BY <1>1, <1>2

LEMMA InterestIs == ASSUME NEW c PROVE Interest(c) \in {ReadOnly, ReadWrite}
BY DEF Interest

LEMMA Watched ==
    ASSUME IInv
    PROVE  /\ Effective(poller) \subseteq Items
           /\ \A x \in Effective(poller) : x.ud \in sockets /\ x.fd = fd[x.ud]
           /\ \A c \in sockets : \E x \in Effective(poller) : x.fd = fd[c]
           /\ \A c \in sockets, x \in Effective(poller) : x.fd = fd[c] => x.ud = c
           /\ \A c \in sockets : {x \in Effective(poller) : x.ud = c} = WatchOf(c)
<1>1. \A c \in sockets : c \in Conn /\ fd[c] \in Fd /\ fd[c] # NoFd
  BY DEF IInv, TypeOK, Listing
<1>2. ASSUME NEW c \in sockets
      PROVE  /\ \A x \in WatchOf(c) : x.fd = fd[c] /\ x.ud = c
             /\ \E x \in WatchOf(c) : x.fd = fd[c]
             /\ WatchOf(c) \subseteq Items
  <2>1. PICK k : k = poller.kind
    OBVIOUS
  <2>2. PICK ev \in {ReadOnly, ReadWrite} : ev = Interest(c)
    BY InterestIs
  <2>3. PICK f \in Fd : f = fd[c]
    BY <1>1
  <2>4. c \in Conn
    BY <1>1
  <2>5. WatchOf(c) = ItemsOf(k, f, ev, c)
    BY <2>1, <2>2, <2>3, Zenon DEF WatchOf
  <2>6. /\ \A x \in ItemsOf(k, f, ev, c) : x.fd = f /\ x.ud = c
        /\ \E x \in ItemsOf(k, f, ev, c) : x.fd = f
        /\ ItemsOf(k, f, ev, c) \subseteq Items
    BY <2>4, ItemsOfIs
  <2>7. QED
    BY <2>3, <2>5, <2>6, Zenon
<1>3. Effective(poller) = UNION {WatchOf(c) : c \in sockets}
  BY DEF IInv, Exact
<1>4. ASSUME NEW x \in Effective(poller) PROVE \E c \in sockets : x \in WatchOf(c)
  BY <1>3
<1>5. ASSUME NEW c \in sockets PROVE WatchOf(c) \subseteq Effective(poller)
  BY <1>3
<1>6. \A x \in Effective(poller) : x \in Items /\ x.ud \in sockets /\ x.fd = fd[x.ud]
  BY <1>2, <1>4
<1>7. \A c, d \in Conn : fd[c] # NoFd /\ fd[c] = fd[d] => c = d
  BY DEF IInv, Owned
<1>8. \A c \in sockets, x \in Effective(poller) : x.fd = fd[c] => x.ud = c
  BY <1>1, <1>6, <1>7
<1>9. ASSUME NEW c \in sockets PROVE \E x \in Effective(poller) : x.fd = fd[c]
  BY <1>2, <1>5
<1>10. ASSUME NEW c \in sockets
       PROVE  {x \in Effective(poller) : x.ud = c} = WatchOf(c)
  BY <1>2, <1>4, <1>5
<1>11. QED
  BY <1>6, <1>8, <1>9, <1>10

LEMMA WatchStays ==
    ASSUME NEW c, poller'.kind = poller.kind, fd'[c] = fd[c], tcp'[c].evmask = tcp[c].evmask
    PROVE  WatchOf(c)' = WatchOf(c)
<1>1. Interest(c)' = Interest(c)
  BY DEF Interest
<1>2. QED
  BY <1>1 DEF WatchOf

\* Nothing that is watched changes.
LEMMA ExactStays ==
    ASSUME IInv, Effective(poller)' = Effective(poller), poller'.kind = poller.kind,
           sockets' = sockets, \A c \in sockets : fd'[c] = fd[c] /\ tcp'[c].evmask = tcp[c].evmask
    PROVE  Exact'
<1>1. \A c \in sockets : WatchOf(c)' = WatchOf(c)
  BY WatchStays
<1>2. Effective(poller)' = UNION {WatchOf(c) : c \in sockets}
  BY DEF IInv, Exact
<1>3. {WatchOf(c)' : c \in sockets} = {WatchOf(c) : c \in sockets}
  BY <1>1
<1>4. QED
  BY <1>2, <1>3 DEF Exact

LEMMA PollerStays == ASSUME UNCHANGED poller
                     PROVE  /\ Effective(poller)' = Effective(poller) /\ poller'.kind = poller.kind
                            /\ (PollerOK(poller)' <=> PollerOK(poller))
BY DEF Effective, Untouched, Added, Latest, PollerOK

LEMMA KernelKeeps ==
    ASSUME IInv, NEW f \in Fd, Kernel(f)
    PROVE  IInv'
<1>1. UNCHANGED <<driver, mem, tcp, fd, told, opens, posted, sockets, poller, pc, todo, batch>>
  BY DEF Kernel, ownVars, workerVars
<1>2. kern \in [Fd -> KernelSocket \cup {NoSock}] /\ kern[f] \in KernelSocket /\ NoSock \notin KernelSocket
  BY ConnectionAssumption DEF IInv, TypeOK, Kernel, Settle, PeerActs
<1>3. PICK k \in KernelSocket : kern' = [kern EXCEPT ![f] = k]
  <2>1. \A phase \in {"open", "refused", "reset"}, e \in {kern[f].err, TRUE} :
           [kern[f] EXCEPT !.phase = phase, !.err = e] \in KernelSocket
    BY <1>2 DEF KernelSocket
  <2>2. /\ [kern[f] EXCEPT !.phase = "open"] \in KernelSocket
        /\ [kern[f] EXCEPT !.data = TRUE] \in KernelSocket
        /\ [kern[f] EXCEPT !.fin = TRUE] \in KernelSocket
    BY <1>2 DEF KernelSocket
  <2>3. CASE Settle(f)
    BY <1>2, <2>1, <2>2, <2>3 DEF Settle
  <2>4. CASE PeerActs(f)
    BY <1>2, <2>1, <2>2, <2>4 DEF PeerActs
  <2>5. QED
    BY <2>3, <2>4 DEF Kernel
<1>4. /\ kern' \in [Fd -> KernelSocket \cup {NoSock}]
      /\ \A g \in Fd : kern[g] # NoSock => kern'[g] # NoSock
  BY <1>2, <1>3
<1>5. TypeOK'
  BY <1>1, <1>4 DEF IInv, TypeOK
<1>6. Owned'
  <2>1. Owned /\ fd \in [Conn -> Fd \cup {NoFd}]
    BY DEF IInv, TypeOK
  <2>2. \A c \in Conn : fd[c] # NoFd => fd[c] \in Fd /\ kern'[fd[c]] # NoSock /\ mem[c] = "live"
    BY <1>4, <2>1 DEF Owned
  <2>3. QED
    BY <1>1, <2>1, <2>2 DEF Owned
<1>7. Listing' /\ Telling' /\ Deletions' /\ Batched'
  BY <1>1 DEF IInv, Listing, Telling, Deletions, Batched
<1>8. PollerOK(poller)' /\ Exact'
  BY <1>1, PollerStays, ExactStays DEF IInv
<1>9. QED
  BY <1>5, <1>6, <1>7, <1>8 DEF IInv

LEMMA HandleKeeps ==
    ASSUME IInv, NEW e \in batch, Handle(e)
    PROVE  IInv'
<1>1. PICK c \in sockets : c = e.ud
  BY DEF IInv, Batched
<1>2. /\ Good(State0(c)) /\ State0(c).r = tcp[c] /\ State0(c).r.managed
      /\ c \in Conn /\ c \notin posted /\ mem[c] = "live" /\ fd[c] \in Fd
  BY StateManaged
<1>3. PICK o \in Outcomes(c, e.event) : Becomes(c, o)
  BY <1>1 DEF Handle
<1>4. Good(o) /\ o.r.managed = tcp[c].managed /\ o.r.evmask = tcp[c].evmask
  BY <1>2, OutcomesLead DEF Leads
<1>5. /\ UNCHANGED <<driver, mem, opens, posted, sockets, poller, todo>>
      /\ pc = "batch" /\ batch' = batch \ {e} /\ pc' = IF batch' = {} THEN "inbox" ELSE pc
  BY DEF Handle
<1>6. /\ tcp' \in [Conn -> TcpRecord] /\ fd' \in [Conn -> Fd \cup {NoFd}]
      /\ told' \in [Conn -> Seq(Words)] /\ kern' \in [Fd -> KernelSocket \cup {NoSock}]
      /\ Owned' /\ Listing' /\ Telling'
      /\ tcp'[c] = o.r /\ \A d \in Conn \ {c} : tcp'[d] = tcp[d]
      /\ fd' = fd
  BY <1>2, <1>3, <1>4, <1>5, BecomesKeeps
<1>7. TypeOK'
  BY <1>5, <1>6 DEF IInv, TypeOK, Words
<1>8. \A d \in sockets : fd'[d] = fd[d] /\ tcp'[d].evmask = tcp[d].evmask
  BY <1>4, <1>6 DEF IInv, TypeOK
<1>9. PollerOK(poller)' /\ Exact'
  BY <1>5, <1>8, PollerStays, ExactStays DEF IInv
<1>10. Deletions'
  <2>1. Deletions /\ pc' # "walk"
    BY <1>5 DEF IInv
  <2>2. QED
    BY <1>5, <2>1 DEF Deletions
<1>11. Batched'
  BY <1>5, <1>6 DEF IInv, Batched
<1>12. QED
  BY <1>6, <1>7, <1>9, <1>10, <1>11 DEF IInv

LEMMA BeginWalkKeeps == IInv /\ BeginWalk => IInv'
<1> SUFFICES ASSUME IInv, BeginWalk PROVE IInv'
  OBVIOUS
<1>1. /\ UNCHANGED <<driver, mem, tcp, fd, told, opens, kern, posted, sockets, poller, batch>>
      /\ pc = "inbox" /\ pc' = "walk" /\ todo' = sockets
  BY DEF BeginWalk, ownVars
<1>2. TypeOK'
  BY <1>1 DEF IInv, TypeOK
<1>3. Owned' /\ Listing' /\ Telling'
  BY <1>1 DEF IInv, Owned, Listing, Telling
<1>4. PollerOK(poller)' /\ Exact'
  BY <1>1, PollerStays, ExactStays DEF IInv
<1>5. Deletions'
  BY <1>1 DEF IInv, Deletions
<1>6. Batched'
  BY <1>1 DEF IInv, Batched
<1>7. QED
  BY <1>2, <1>3, <1>4, <1>5, <1>6 DEF IInv

LEMMA PollKeeps == IInv /\ Poll => IInv'
<1> SUFFICES ASSUME IInv, Poll PROVE IInv'
  OBVIOUS
<1>1. /\ UNCHANGED <<driver, mem, tcp, fd, told, opens, kern, posted, sockets, todo>>
      /\ pc = "walk" /\ todo = {} /\ batch' = Calls(poller, Ready) /\ poller' = Waited(poller)
      /\ pc' = IF batch' = {} THEN "inbox" ELSE "batch"
  BY DEF Poll, ownVars
<1>2. PollerOK(poller) /\ Effective(poller) \subseteq Items
  BY Watched DEF IInv
<1>3. PICK p : p = poller'
  OBVIOUS
<1>4. /\ PollerOK(p) /\ p.kind = poller.kind /\ p.changes = <<>>
      /\ Effective(p) = Effective(poller)
  BY <1>1, <1>2, <1>3, WaitedIs
<1>5. Effective(poller)' = Effective(p) /\ (PollerOK(poller)' <=> PollerOK(p))
  BY <1>3 DEF Effective, Untouched, Added, Latest, PollerOK
<1>6. PollerOK(poller)' /\ Exact'
  BY <1>1, <1>3, <1>4, <1>5, ExactStays
<1>7. ASSUME NEW e \in batch'
      PROVE  e.event \subseteq ReadWrite /\ e.ud \in sockets /\ e.fd = fd[e.ud]
  <2>1. /\ e.event \subseteq ReadWrite
        /\ \/ \E x \in Effective(poller) : e.fd = x.fd /\ e.ud = x.ud
           \/ \E i \in DOMAIN poller.changes :
                 /\ ~poller.changes[i].add /\ poller.changes[i].item.ud # NullUd
                 /\ e.fd = poller.changes[i].item.fd /\ e.ud = poller.changes[i].item.ud
    BY <1>1, <1>2, <1>7, CallsIs
  <2>2. CASE \E x \in Effective(poller) : e.fd = x.fd /\ e.ud = x.ud
    BY <2>1, <2>2, Watched
  <2>3. CASE \E i \in DOMAIN poller.changes :
                /\ ~poller.changes[i].add /\ poller.changes[i].item.ud # NullUd
                /\ e.fd = poller.changes[i].item.fd /\ e.ud = poller.changes[i].item.ud
    BY <2>1, <2>3 DEF IInv, Deletions
  <2>4. QED
    BY <2>1, <2>2, <2>3
<1>8. \A e \in batch' : e.fd \in Fd /\ e.event \subseteq ReadWrite
  <2>1. \A c \in sockets : fd[c] \in Fd
    BY StateManaged
  <2>2. QED
    BY <1>7, <2>1
<1>9. TypeOK'
  BY <1>1, <1>8 DEF IInv, TypeOK
<1>10. Owned' /\ Listing' /\ Telling'
  BY <1>1 DEF IInv, Owned, Listing, Telling
<1>11. Deletions'
  BY <1>3, <1>4 DEF Deletions
<1>12. Batched'
  BY <1>1, <1>7 DEF Batched
<1>13. QED
  BY <1>6, <1>9, <1>10, <1>11, <1>12 DEF IInv

LEMMA PollerBecomes ==
    ASSUME NEW q, poller' = q, PollerOK(q)
    PROVE  PollerOK(poller)' /\ Effective(poller)' = Effective(q) /\ poller'.kind = q.kind
<1>1. Effective(poller)' = Effective(poller')
  BY DEF Effective, Untouched, Added, Latest
<1>2. PollerOK(poller)' <=> PollerOK(poller')
  BY DEF PollerOK
<1>3. QED
  BY <1>1, <1>2

LEMMA AdoptKeeps ==
    ASSUME IInv, NEW c \in Conn, Adopt(c)
    PROVE  IInv'
<1>1. /\ UNCHANGED <<driver, mem, fd, told, opens, kern, pc, todo, batch>>
      /\ pc = "inbox" /\ c \in posted
      /\ posted' = posted \ {c} /\ sockets' = sockets \cup {c}
      /\ tcp' = [tcp EXCEPT ![c].evmask = @ \/ tcp[c].state = "Connnecting"]
      /\ poller' = PollerAdd(poller, fd[c],
                             IF tcp[c].state = "Connnecting" THEN ReadWrite ELSE ReadOnly, c)
  BY DEF Adopt
<1>2. /\ c \notin sockets /\ fd[c] # NoFd /\ fd[c] \in Fd /\ tcp[c].managed /\ ~tcp[c].evmask
      /\ tcp[c] \in TcpRecord /\ tcp \in [Conn -> TcpRecord] /\ mem[c] = "live"
      /\ told[c] \in ToldManaged
  BY <1>1 DEF IInv, TypeOK, Listing, Owned, Telling
<1>3. PICK r : r = [tcp[c] EXCEPT !.evmask = @ \/ tcp[c].state = "Connnecting"]
  OBVIOUS
<1>4. (tcp[c].evmask \/ tcp[c].state = "Connnecting") \in BOOLEAN
  OBVIOUS
<1>5. /\ r \in TcpRecord /\ r.state = tcp[c].state /\ r.managed = tcp[c].managed
      /\ r.evmask <=> tcp[c].state = "Connnecting"
  BY <1>2, <1>3, <1>4 DEF TcpRecord
<1>6. /\ tcp' = [tcp EXCEPT ![c] = r] /\ tcp' \in [Conn -> TcpRecord] /\ tcp'[c] = r
      /\ \A d \in Conn \ {c} : tcp'[d] = tcp[d]
  BY <1>1, <1>2, <1>3, <1>5
<1>7. TypeOK'
  BY <1>1, <1>6 DEF IInv, TypeOK
<1>8. Owned' /\ Listing' /\ Telling'
  <2>1. Owned /\ Listing /\ Telling /\ posted \subseteq Conn /\ sockets \subseteq Conn
    BY DEF IInv, TypeOK
  <2>2. Owned'
    BY <1>1, <1>2, <1>6, <2>1 DEF Owned
  <2>3. Listing'
    BY <1>1, <1>2, <1>5, <1>6, <2>1 DEF Listing
  <2>4. Telling'
    BY <1>1, <1>2, <1>5, <1>6, <2>1 DEF Telling
  <2>5. QED
    BY <2>2, <2>3, <2>4
<1>9. PICK ev \in {ReadOnly, ReadWrite} :
         ev = IF tcp[c].state = "Connnecting" THEN ReadWrite ELSE ReadOnly
  OBVIOUS
<1>10. PICK q : q = poller'
  OBVIOUS
<1>11. \A x \in Effective(poller) : x.fd # fd[c]
  <2>1. \A x \in Effective(poller) : x.ud \in sockets /\ x.fd = fd[x.ud]
    BY Watched
  <2>2. Owned /\ sockets \subseteq Conn
    BY DEF IInv, TypeOK
  <2>3. QED
    BY <1>2, <2>1, <2>2 DEF Owned
<1>12. /\ PollerOK(q) /\ q.kind = poller.kind
       /\ Effective(q) = Effective(poller) \cup ItemsOf(poller.kind, fd[c], ev, c)
       /\ \A i \in DOMAIN q.changes :
             (i \in DOMAIN poller.changes /\ q.changes[i] = poller.changes[i]) \/ q.changes[i].add
  <2>1. q = PollerAdd(poller, fd[c], ev, c) /\ PollerOK(poller)
    BY <1>1, <1>9, <1>10 DEF IInv
  <2>2. QED
    BY <1>2, <1>11, <2>1, AddIs
<1>13. PollerOK(poller)' /\ Effective(poller)' = Effective(q) /\ poller'.kind = poller.kind
  BY <1>10, <1>12, PollerBecomes
<1>14. Exact'
  <2>1. Interest(c)' = ev
    BY <1>5, <1>6, <1>9 DEF Interest
  <2>2. WatchOf(c)' = ItemsOf(poller.kind, fd[c], ev, c)
    BY <1>1, <1>13, <2>1 DEF WatchOf
  <2>3. \A d \in sockets : WatchOf(d)' = WatchOf(d)
    <3>1. \A d \in sockets : fd'[d] = fd[d] /\ tcp'[d].evmask = tcp[d].evmask
      BY <1>1, <1>2, <1>6 DEF IInv, TypeOK
    <3>2. QED
      BY <1>13, <3>1, WatchStays
  <2>4. Effective(poller) = UNION {WatchOf(d) : d \in sockets}
    BY DEF IInv, Exact
  <2>5. {WatchOf(d)' : d \in sockets \cup {c}} = {WatchOf(d) : d \in sockets} \cup {WatchOf(c)'}
    BY <2>3
  <2>6. UNION {WatchOf(d)' : d \in sockets \cup {c}} = Effective(poller) \cup WatchOf(c)'
    BY <2>4, <2>5
  <2>7. QED
    BY <1>1, <1>12, <1>13, <2>2, <2>6 DEF Exact
<1>15. Deletions'
  <2>1. ASSUME NEW i \in DOMAIN q.changes
        PROVE  q.changes[i].add \/ q.changes[i].item.ud = NullUd
    BY <1>1, <1>12 DEF IInv, Deletions
  <2>2. QED
    BY <1>10, <2>1 DEF Deletions
<1>16. Batched'
  BY <1>1 DEF IInv, Batched
<1>17. QED
  BY <1>7, <1>8, <1>13, <1>14, <1>15, <1>16 DEF IInv

LEMMA WalkEndKeeps ==
    ASSUME IInv, NEW c \in Conn, WalkEnd(c)
    PROVE  IInv'
<1>1. PICK word : word = IF tcp[c].state = "Closing" THEN "closed" ELSE "refused"
  OBVIOUS
<1>2. /\ UNCHANGED <<driver, opens, posted, pc, batch>>
      /\ pc = "walk" /\ c \in todo /\ tcp[c].state \in {"Closing", "Refused"}
      /\ told' = [told EXCEPT ![c] = Append(@, word)]
      /\ tcp' = [tcp EXCEPT ![c].state = "Closed"]
      /\ poller' = Forget(PollerRemove(poller, fd[c]), fd[c])
      /\ mem' = [mem EXCEPT ![c] = "freed"]
      /\ fd' = [fd EXCEPT ![c] = NoFd] /\ kern' = [kern EXCEPT ![fd[c]] = NoSock]
      /\ sockets' = sockets \ {c} /\ todo' = todo \ {c}
  BY <1>1 DEF WalkEnd, Unregister
<1>3. /\ c \in sockets /\ c \notin posted /\ fd[c] # NoFd /\ fd[c] \in Fd
      /\ tcp[c] \in TcpRecord /\ tcp \in [Conn -> TcpRecord] /\ mem[c] = "live"
      /\ fd \in [Conn -> Fd \cup {NoFd}] /\ kern \in [Fd -> KernelSocket \cup {NoSock}]
      /\ mem \in [Conn -> {"fresh", "live", "freed"}] /\ told \in [Conn -> Seq(Words)]
      /\ told[c] \in ToldManaged /\ (tcp[c].state = "Refused" => told[c] = <<>>)
      /\ driver # "poll" /\ sockets \subseteq Conn /\ posted \subseteq Conn
  BY <1>2, StateManaged DEF IInv, TypeOK, Listing, Telling, Words
<1>4. PICK t : t = Append(told[c], word)
  OBVIOUS
<1>5. t \in ToldEver
  <2>1. /\ Append(<<>>, "refused") = <<"refused">> /\ Append(<<>>, "closed") = <<"closed">>
        /\ Append(<<"opened">>, "closed") = <<"opened", "closed">>
    BY FirstWord, SecondWord, Zenon
  <2>2. CASE tcp[c].state = "Refused"
    BY <1>1, <1>3, <1>4, <2>1, <2>2 DEF ToldEver
  <2>3. CASE tcp[c].state = "Closing"
    <3>1. word = "closed" /\ told[c] \in {<<>>, <<"opened">>}
      BY <1>1, <1>3, <2>3 DEF ToldManaged
    <3>2. QED
      BY <1>4, <2>1, <3>1 DEF ToldEver
  <2>4. QED
    BY <1>2, <2>2, <2>3
<1>6. PICK r : r = [tcp[c] EXCEPT !.state = "Closed"]
  OBVIOUS
<1>7. r \in TcpRecord /\ r.state = "Closed" /\ r.managed = tcp[c].managed /\ r.evmask = tcp[c].evmask
  BY <1>3, <1>6 DEF TcpRecord, State
<1>8. /\ tcp' \in [Conn -> TcpRecord] /\ tcp'[c] = r /\ \A d \in Conn \ {c} : tcp'[d] = tcp[d]
      /\ told' \in [Conn -> Seq(Words)] /\ told'[c] = t /\ \A d \in Conn \ {c} : told'[d] = told[d]
      /\ fd' \in [Conn -> Fd \cup {NoFd}] /\ fd'[c] = NoFd /\ \A d \in Conn \ {c} : fd'[d] = fd[d]
      /\ mem' \in [Conn -> {"fresh", "live", "freed"}] /\ mem'[c] = "freed"
      /\ \A d \in Conn \ {c} : mem'[d] = mem[d]
      /\ kern' \in [Fd -> KernelSocket \cup {NoSock}]
      /\ \A f \in Fd \ {fd[c]} : kern'[f] = kern[f]
  <2>1. t \in Seq(Words)
    BY <1>5, ToldTypes
  <2>2. tcp' = [tcp EXCEPT ![c] = r]
    BY <1>2, <1>3, <1>6
  <2>3. told' = [told EXCEPT ![c] = t]
    BY <1>2, <1>3, <1>4
  <2>4. QED
    BY <1>2, <1>3, <1>7, <2>1, <2>2, <2>3
<1>9. \A d \in Conn : fd[d] = fd[c] => d = c
  BY <1>3 DEF IInv, Owned
<1>10. Owned'
  <2>1. Owned
    BY DEF IInv
  <2>2. ASSUME NEW d \in Conn, fd'[d] # NoFd PROVE kern'[fd'[d]] # NoSock /\ mem'[d] = "live"
    <3>1. d # c /\ fd'[d] = fd[d] /\ mem'[d] = mem[d] /\ fd[d] \in Fd /\ fd[d] # fd[c]
      BY <1>3, <1>8, <1>9, <2>2
    <3>2. kern'[fd[d]] = kern[fd[d]]
      BY <1>8, <3>1
    <3>3. QED
      BY <2>1, <2>2, <3>1, <3>2 DEF Owned
  <2>3. ASSUME NEW d \in Conn, NEW e \in Conn, fd'[d] # NoFd, fd'[d] = fd'[e] PROVE d = e
    <3>1. d # c /\ e # c
      BY <1>8, <2>3
    <3>2. fd'[d] = fd[d] /\ fd'[e] = fd[e]
      BY <1>8, <3>1
    <3>3. QED
      BY <2>1, <2>3, <3>2 DEF Owned
  <2>4. ASSUME NEW d \in Conn, mem'[d] = "fresh" PROVE ~tcp'[d].evmask
    BY <1>8, <2>1, <2>4 DEF Owned
  <2>5. QED
    BY <2>2, <2>3, <2>4 DEF Owned
<1>11. Listing'
  <2>1. Listing
    BY DEF IInv
  <2>2. ASSUME NEW d \in posted \cup (sockets \ {c}) PROVE fd'[d] # NoFd /\ tcp'[d].managed
    BY <1>3, <1>8, <2>1 DEF Listing
  <2>3. ASSUME NEW d \in posted PROVE ~tcp'[d].evmask
    BY <1>3, <1>8, <2>1 DEF Listing
  <2>4. QED
    BY <1>2, <1>3, <2>1, <2>2, <2>3 DEF Listing
<1>12. Telling'
  <2>1. Telling
    BY DEF IInv
  <2>2. ASSUME NEW d \in Conn
        PROVE  /\ told'[d] \in ToldEver
               /\ tcp'[d].state \in {"Connnecting", "Refused"} => told'[d] = <<>>
               /\ d \in posted \cup (sockets \ {c}) => told'[d] \in ToldManaged
    BY <1>3, <1>5, <1>7, <1>8, <2>1 DEF Telling
  <2>3. QED
    BY <1>2, <1>3, <2>2 DEF Telling
<1>13. TypeOK'
  <2>1. todo \subseteq sockets
    BY DEF IInv, TypeOK
  <2>2. QED
    BY <1>2, <1>8, <2>1 DEF IInv, TypeOK, Words
<1>14. PICK q : q = poller'
  OBVIOUS
<1>15. /\ PollerOK(q) /\ q.kind = poller.kind
       /\ Effective(q) = {x \in Effective(poller) : x.fd # fd[c]}
       /\ \A i \in DOMAIN q.changes :
             \/ i \in DOMAIN poller.changes /\ q.changes[i] = poller.changes[i]
             \/ q.changes[i].item.ud = NullUd
  <2>1. PollerOK(poller)
    BY DEF IInv
  <2>2. q = Forget(PollerRemove(poller, fd[c]), fd[c])
    BY <1>2, <1>14
  <2>3. QED
    BY <1>3, <2>1, <2>2, RemoveIs
<1>16. PollerOK(poller)' /\ Effective(poller)' = Effective(q) /\ poller'.kind = poller.kind
  BY <1>14, <1>15, PollerBecomes
<1>17. Exact'
  <2>1. \A d \in sockets \ {c} : WatchOf(d)' = WatchOf(d)
    <3>1. \A d \in sockets \ {c} : fd'[d] = fd[d] /\ tcp'[d].evmask = tcp[d].evmask
      BY <1>3, <1>8
    <3>2. QED
      BY <1>16, <3>1, WatchStays
  <2>2. /\ \A x \in Effective(poller) : x.ud \in sockets /\ x.fd = fd[x.ud]
        /\ \A d \in sockets : {x \in Effective(poller) : x.ud = d} = WatchOf(d)
    BY Watched
  <2>3. \A x \in Effective(poller) : x.fd # fd[c] <=> x.ud # c
    BY <1>3, <1>9, <2>2
  <2>4. Effective(q) = UNION {WatchOf(d) : d \in sockets \ {c}}
    BY <1>15, <2>2, <2>3
  <2>5. {WatchOf(d)' : d \in sockets \ {c}} = {WatchOf(d) : d \in sockets \ {c}}
    BY <2>1
  <2>6. QED
    BY <1>2, <1>16, <2>4, <2>5 DEF Exact
<1>18. Deletions'
  <2>1. ASSUME NEW i \in DOMAIN q.changes
        PROVE  q.changes[i].add \/ LET x == q.changes[i].item IN
                  x.ud = NullUd \/ (pc' = "walk" /\ x.ud \in sockets' \ todo' /\ x.fd = fd'[x.ud])
    <3>1. CASE q.changes[i].item.ud = NullUd
      BY <3>1
    <3>2. CASE i \in DOMAIN poller.changes /\ q.changes[i] = poller.changes[i]
      <4>1. q.changes[i].add \/ LET x == q.changes[i].item IN
               x.ud = NullUd \/ (pc = "walk" /\ x.ud \in sockets \ todo /\ x.fd = fd[x.ud])
        BY <3>2 DEF IInv, Deletions
      <4>2. QED
        BY <1>2, <1>3, <1>8, <4>1
    <3>3. QED
      BY <1>15, <3>1, <3>2
  <2>2. QED
    BY <1>14, <2>1 DEF Deletions
<1>19. Batched'
  BY <1>2 DEF IInv, Batched
<1>20. QED
  BY <1>10, <1>11, <1>12, <1>13, <1>16, <1>17, <1>18, <1>19 DEF IInv

\* What the two branches of WalkLive have in common: p becomes of c, and the poller q
\* watches it for what its mask says then.
LEMMA VisitKeeps ==
    ASSUME IInv, NEW c \in todo, pc = "walk", NEW p, Good(p), p.r.managed, Becomes(c, p),
           UNCHANGED <<driver, mem, opens, posted, sockets, pc, batch>>, todo' = todo \ {c},
           NEW q, poller' = q, PollerOK(q), q.kind = poller.kind,
           NEW ev \in {ReadOnly, ReadWrite}, ev = IF p.r.evmask THEN ReadWrite ELSE ReadOnly,
           Effective(q) = {x \in Effective(poller) : x.fd # fd[c]} \cup ItemsOf(q.kind, fd[c], ev, c),
           \A i \in DOMAIN q.changes :
              \/ i \in DOMAIN poller.changes /\ q.changes[i] = poller.changes[i]
              \/ q.changes[i].item.ud = c /\ q.changes[i].item.fd = fd[c]
    PROVE  IInv'
<1>1. c \in sockets /\ sockets \subseteq Conn /\ todo \subseteq sockets
  BY DEF IInv, TypeOK
<1>2. c \in Conn /\ c \notin posted /\ mem[c] = "live" /\ fd[c] \in Fd /\ tcp[c].managed
  BY <1>1, StateManaged
<1>3. p.r.managed = tcp[c].managed
  BY <1>2, <1>1 DEF IInv, TypeOK, TcpRecord, Good, Handling
<1>4. /\ tcp' \in [Conn -> TcpRecord] /\ fd' \in [Conn -> Fd \cup {NoFd}]
      /\ told' \in [Conn -> Seq(Words)] /\ kern' \in [Fd -> KernelSocket \cup {NoSock}]
      /\ Owned' /\ Listing' /\ Telling'
      /\ tcp'[c] = p.r /\ \A d \in Conn \ {c} : tcp'[d] = tcp[d]
      /\ fd' = fd
  BY <1>1, <1>2, <1>3, BecomesKeeps
<1>5. TypeOK'
  BY <1>1, <1>4 DEF IInv, TypeOK, Words
<1>6. PollerOK(poller)' /\ Effective(poller)' = Effective(q) /\ poller'.kind = poller.kind
  BY PollerBecomes
<1>7. Exact'
  <2>1. \A d \in sockets \ {c} : WatchOf(d)' = WatchOf(d)
    <3>1. \A d \in sockets \ {c} : fd'[d] = fd[d] /\ tcp'[d].evmask = tcp[d].evmask
      BY <1>1, <1>4
    <3>2. QED
      BY <1>6, <3>1, WatchStays
  <2>2. WatchOf(c)' = ItemsOf(q.kind, fd[c], ev, c)
    <3>1. Interest(c)' = ev
      BY <1>4 DEF Interest
    <3>2. QED
      BY <1>4, <3>1 DEF WatchOf
  <2>3. /\ \A x \in Effective(poller) : x.ud \in sockets /\ x.fd = fd[x.ud]
        /\ \A d \in sockets : {x \in Effective(poller) : x.ud = d} = WatchOf(d)
    BY Watched
  <2>4. \A d \in sockets : fd[d] = fd[c] => d = c
    BY <1>1, <1>2 DEF IInv, Owned, Listing
  <2>5. {x \in Effective(poller) : x.fd # fd[c]} = UNION {WatchOf(d) : d \in sockets \ {c}}
    BY <2>3, <2>4
  <2>6. {WatchOf(d)' : d \in sockets} = {WatchOf(d) : d \in sockets \ {c}} \cup {WatchOf(c)'}
    BY <1>1, <2>1
  <2>7. UNION {WatchOf(d)' : d \in sockets} =
           (UNION {WatchOf(d) : d \in sockets \ {c}}) \cup WatchOf(c)'
    BY <2>6
  <2>8. QED
    BY <1>6, <2>2, <2>5, <2>7 DEF Exact
<1>8. Deletions'
  <2>1. ASSUME NEW i \in DOMAIN q.changes
        PROVE  q.changes[i].add \/ LET x == q.changes[i].item IN
                  x.ud = NullUd \/ (pc' = "walk" /\ x.ud \in sockets' \ todo' /\ x.fd = fd'[x.ud])
    <3>1. CASE q.changes[i].item.ud = c /\ q.changes[i].item.fd = fd[c]
      BY <1>1, <1>4, <3>1
    <3>2. CASE i \in DOMAIN poller.changes /\ q.changes[i] = poller.changes[i]
      <4>1. q.changes[i].add \/ LET x == q.changes[i].item IN
               x.ud = NullUd \/ (pc = "walk" /\ x.ud \in sockets \ todo /\ x.fd = fd[x.ud])
        BY <3>2 DEF IInv, Deletions
      <4>2. QED
        BY <1>4, <4>1
    <3>3. QED
      BY <3>1, <3>2
  <2>2. QED
    BY <2>1 DEF Deletions
<1>9. Batched'
  BY DEF IInv, Batched
<1>10. QED
  BY <1>4, <1>5, <1>6, <1>7, <1>8, <1>9 DEF IInv

LEMMA WalkLiveKeeps ==
    ASSUME IInv, NEW c \in Conn, WalkLive(c)
    PROVE  IInv'
<1>1. /\ pc = "walk" /\ c \in todo
      /\ UNCHANGED <<driver, mem, opens, posted, sockets, pc, batch>> /\ todo' = todo \ {c}
  BY DEF WalkLive
<1>2. PICK o : o = State0(c)
  OBVIOUS
<1>3. c \in sockets /\ PollerOK(poller) /\ tcp[c] \in TcpRecord
  BY <1>1 DEF IInv, TypeOK
<1>4. Good(o) /\ o.r = tcp[c] /\ tcp[c].managed /\ fd[c] \in Fd
  BY <1>2, <1>3, StateManaged
<1>5. PICK old \in {ReadOnly, ReadWrite} : old = IF tcp[c].evmask THEN ReadWrite ELSE ReadOnly
  OBVIOUS
<1>6. /\ {x \in Effective(poller) : x.ud = c} = ItemsOf(poller.kind, fd[c], old, c)
      /\ \A x \in Effective(poller) : x.fd = fd[c] <=> x.ud = c
      /\ \E x \in Effective(poller) : x.fd = fd[c]
  BY <1>3, <1>5, Watched DEF WatchOf, Interest
<1>7. Effective(poller) = {x \in Effective(poller) : x.fd # fd[c]}
                          \cup ItemsOf(poller.kind, fd[c], old, c)
  BY <1>6
<1>8. CASE Becomes(c, CloseTcp(o)) /\ UNCHANGED poller
  <2>1. PICK p : p = CloseTcp(o)
    OBVIOUS
  <2>2. Good(p) /\ p.r.managed /\ p.r.evmask = tcp[c].evmask /\ Becomes(c, p)
    BY <1>4, <1>8, <2>1, CloseTcpLeads DEF Leads
  <2>3. \A i \in DOMAIN poller.changes :
           \/ i \in DOMAIN poller.changes /\ poller.changes[i] = poller.changes[i]
           \/ poller.changes[i].item.ud = c /\ poller.changes[i].item.fd = fd[c]
    OBVIOUS
  <2>4. old = IF p.r.evmask THEN ReadWrite ELSE ReadOnly
    BY <1>5, <2>2
  <2>5. poller' = poller
    BY <1>8
  <2>6. QED
    BY <1>1, <1>3, <1>7, <2>2, <2>3, <2>4, <2>5, VisitKeeps
<1>9. ASSUME NEW u \in Reactions(o) \cup {o}, NEW r, r = Adjusted(c, u.r),
             Becomes(c, [u EXCEPT !.r = r]),
             poller' = IF r.evmask = tcp[c].evmask THEN poller
                       ELSE PollerModify(poller, fd[c], IF r.evmask THEN ReadWrite ELSE ReadOnly, c)
      PROVE  IInv'
  <2>1. Leads(o, u) /\ Good(u)
    BY <1>4, LeadsSelf, ReactionsLead DEF Leads
  <2>2. u \in Handling /\ u.r \in TcpRecord /\ u.r.managed
    BY <1>4, <2>1 DEF Good, Leads, Handling
  <2>3. PICK m \in BOOLEAN : m = IF tcp[c].state = "Connected" THEN u.r.obuf ELSE TRUE
    BY <2>2 DEF TcpRecord
  <2>4. r = [u.r EXCEPT !.evmask = m]
    BY <1>9, <2>3 DEF Adjusted
  <2>5. r \in TcpRecord /\ r.managed = u.r.managed /\ r.state = u.r.state
    BY <2>2, <2>4 DEF TcpRecord
  <2>6. PICK p : p = [u EXCEPT !.r = r]
    OBVIOUS
  <2>7. p \in Handling /\ p.r = r /\ p.k = u.k /\ p.told = u.told
    BY <2>2, <2>5, <2>6 DEF Handling
  <2>8. Good(p) /\ p.r.managed /\ Becomes(c, p)
    BY <1>9, <2>1, <2>2, <2>5, <2>6, <2>7 DEF Good
  <2>9. PICK ev \in {ReadOnly, ReadWrite} : ev = IF p.r.evmask THEN ReadWrite ELSE ReadOnly
    OBVIOUS
  <2>10. CASE r.evmask = tcp[c].evmask
    <3>1. ev = old /\ poller' = poller
      BY <1>5, <1>9, <2>7, <2>9, <2>10
    <3>2. \A i \in DOMAIN poller.changes :
             \/ i \in DOMAIN poller.changes /\ poller.changes[i] = poller.changes[i]
             \/ poller.changes[i].item.ud = c /\ poller.changes[i].item.fd = fd[c]
      OBVIOUS
    <3>3. QED
      BY <1>1, <1>3, <1>7, <2>8, <2>9, <3>1, <3>2, VisitKeeps
  <2>11. CASE r.evmask # tcp[c].evmask
    <3>1. PICK q : q = poller'
      OBVIOUS
    <3>2. q = PollerModify(poller, fd[c], ev, c)
      BY <1>9, <2>7, <2>9, <2>11, <3>1
    <3>3. \A x \in Effective(poller) : x.fd = fd[c] => x.ud = c
      BY <1>6
    <3>4. /\ PollerOK(q) /\ q.kind = poller.kind
          /\ Effective(q) = {x \in Effective(poller) : x.fd # fd[c]}
                            \cup ItemsOf(poller.kind, fd[c], ev, c)
          /\ \A i \in DOMAIN q.changes :
                \/ i \in DOMAIN poller.changes /\ q.changes[i] = poller.changes[i]
                \/ q.changes[i].item.ud = c /\ q.changes[i].item.fd = fd[c]
      BY <1>3, <1>4, <1>6, <3>2, <3>3, ModifyIs
    <3>5. QED
      BY <1>1, <2>8, <2>9, <3>1, <3>4, VisitKeeps
  <2>12. QED
    BY <2>10, <2>11
<1>10. \/ Becomes(c, CloseTcp(o)) /\ UNCHANGED poller
       \/ \E u \in Reactions(o) \cup {o} : \E r :
             /\ r = Adjusted(c, u.r) /\ Becomes(c, [u EXCEPT !.r = r])
             /\ poller' = IF r.evmask = tcp[c].evmask THEN poller
                          ELSE PollerModify(poller, fd[c], IF r.evmask THEN ReadWrite ELSE ReadOnly, c)
  BY <1>2 DEF WalkLive
<1>11. QED
  BY <1>8, <1>9, <1>10, Zenon

\* A call of an application that polls for itself.
LEMMA AloneKeeps ==
    ASSUME IInv, driver = "poll", NEW c \in Conn, mem[c] = "live", NEW o, Leads(State0(c), o),
           Becomes(c, o), UNCHANGED <<driver, mem, opens, workerVars>>
    PROVE  IInv'
<1>1. UNCHANGED <<driver, mem, opens, posted, sockets, poller, pc, todo, batch>>
  BY DEF workerVars
<1>2. c \notin posted /\ Good(o) /\ o.r.managed = tcp[c].managed
  BY StateAlone DEF Leads
<1>3. /\ tcp' \in [Conn -> TcpRecord] /\ fd' \in [Conn -> Fd \cup {NoFd}]
      /\ told' \in [Conn -> Seq(Words)] /\ kern' \in [Fd -> KernelSocket \cup {NoSock}]
      /\ Owned' /\ Listing' /\ Telling'
  BY <1>1, <1>2, BecomesKeeps
<1>4. TypeOK'
  BY <1>1, <1>3 DEF IInv, TypeOK, Words
<1>5. sockets = {}
  BY DEF IInv, Listing
<1>6. PollerOK(poller)' /\ Exact'
  BY <1>1, <1>5, PollerStays, ExactStays DEF IInv
<1>7. Deletions' /\ Batched'
  BY <1>1, <1>5 DEF IInv, Deletions, Batched
<1>8. QED
  BY <1>3, <1>4, <1>6, <1>7 DEF IInv

LEMMA TcpPollKeeps ==
    ASSUME IInv, NEW c \in Conn, TcpPoll(c)
    PROVE  IInv'
<1>1. PICK o : o = State0(c)
  OBVIOUS
<1>2. /\ driver = "poll" /\ fd[c] # NoFd /\ UNCHANGED <<driver, mem, opens, workerVars>>
      /\ \E u \in DoRead(o) \cup {o} : \E v \in DoWrite(u) \cup {u} : Becomes(c, v)
  BY <1>1 DEF TcpPoll
<1>3. mem[c] = "live"
  BY <1>2 DEF IInv, Owned
<1>4. Good(o)
  BY <1>1, <1>2, StateAlone
<1>5. PICK u \in DoRead(o) \cup {o} : \E v \in DoWrite(u) \cup {u} : Becomes(c, v)
  BY <1>2
<1>6. PICK v \in DoWrite(u) \cup {u} : Becomes(c, v)
  BY <1>5
<1>7. Leads(o, u) /\ Good(u)
  BY <1>4, DoReadLeads, LeadsSelf DEF Leads
<1>8. Leads(u, v)
  BY <1>7, DoWriteLeads, LeadsSelf
<1>9. Leads(o, v)
  BY <1>7, <1>8, LeadsOn
<1>10. QED
  BY <1>1, <1>2, <1>3, <1>6, <1>9, AloneKeeps

LEMMA AppCallsKeeps ==
    ASSUME IInv, NEW c \in Conn, AppCalls(c)
    PROVE  IInv'
<1>1. PICK o : o = State0(c)
  OBVIOUS
<1>2. /\ driver = "poll" /\ mem[c] = "live" /\ UNCHANGED <<driver, mem, opens, workerVars>>
      /\ \E v \in {[o EXCEPT !.r = Send(o.r)], [o EXCEPT !.r = Recv(o.r)], CloseTcp(o)} :
            Becomes(c, v)
  BY <1>1 DEF AppCalls
<1>3. Good(o) /\ o.r \in TcpRecord
  BY <1>1, <1>2, StateAlone, LeadsSelf
<1>4. /\ Leads(o, [o EXCEPT !.r = Send(o.r)]) /\ Leads(o, [o EXCEPT !.r = Recv(o.r)])
      /\ Leads(o, CloseTcp(o))
  BY <1>3, SendIs, RecvIs, NewRecord, CloseTcpLeads
<1>5. QED
  BY <1>1, <1>2, <1>4, AloneKeeps

LEMMA ConnectFailsKeeps ==
    ASSUME IInv, NEW c \in Conn, ConnectFails(c)
    PROVE  IInv'
<1>1. /\ UNCHANGED <<driver, fd, kern, posted, sockets, poller, pc, todo, batch>>
      /\ fd[c] = NoFd /\ opens[c] < MaxOpen
      /\ mem[c] = "fresh" \/ (driver = "poll" /\ mem[c] = "live")
      /\ mem' = [mem EXCEPT ![c] = IF driver = "poll" THEN "live" ELSE "freed"]
      /\ opens' = [opens EXCEPT ![c] = @ + 1]
      /\ told' = [told EXCEPT ![c] = <<>>]
  BY DEF ConnectFails, workerVars
<1>2. /\ tcp \in [Conn -> TcpRecord] /\ tcp[c] \in TcpRecord /\ MaxOpen \in Nat
      /\ opens \in [Conn -> 0 .. MaxOpen] /\ mem \in [Conn -> {"fresh", "live", "freed"}]
      /\ told \in [Conn -> Seq(Words)]
  BY ConnectionAssumption DEF IInv, TypeOK, Words
<1>0. PICK s \in {tcp[c].state, "Closed"} :
         tcp' = [tcp EXCEPT ![c] = [tcp[c] EXCEPT !.state = s, !.ibuf = FALSE, !.obuf = FALSE]]
  BY DEF ConnectFails
<1>3. PICK r : r = [tcp[c] EXCEPT !.state = s, !.ibuf = FALSE, !.obuf = FALSE]
  OBVIOUS
<1>4. r \in TcpRecord /\ r.managed = tcp[c].managed /\ r.evmask = tcp[c].evmask
  BY <1>2, <1>3 DEF TcpRecord, State
<1>5. /\ tcp' \in [Conn -> TcpRecord] /\ tcp'[c] = r /\ \A d \in Conn \ {c} : tcp'[d] = tcp[d]
      /\ opens' \in [Conn -> 0 .. MaxOpen]
      /\ mem' \in [Conn -> {"fresh", "live", "freed"}] /\ mem'[c] # "fresh"
      /\ \A d \in Conn \ {c} : mem'[d] = mem[d]
      /\ told' \in [Conn -> Seq(Words)] /\ told'[c] = <<>>
      /\ \A d \in Conn \ {c} : told'[d] = told[d]
  <2>1. tcp' = [tcp EXCEPT ![c] = r]
    BY <1>0, <1>3
  <2>2. opens[c] + 1 \in 0 .. MaxOpen
    BY <1>1, <1>2
  <2>3. <<>> \in Seq(Words)
    OBVIOUS
  <2>4. QED
    BY <1>1, <1>2, <1>4, <2>1, <2>2, <2>3
<1>6. c \notin posted \cup sockets
  BY <1>1 DEF IInv, Listing
<1>7. TypeOK'
  BY <1>1, <1>5 DEF IInv, TypeOK, Words
<1>8. Owned'
  BY <1>1, <1>5 DEF IInv, Owned
<1>9. Listing'
  BY <1>1, <1>4, <1>5, <1>6 DEF IInv, TypeOK, Listing
<1>10. Telling'
  BY <1>1, <1>5, <1>6 DEF IInv, Telling, ToldEver, ToldManaged, ToldAlone
<1>11. PollerOK(poller)' /\ Exact'
  <2>1. \A d \in sockets : fd'[d] = fd[d] /\ tcp'[d].evmask = tcp[d].evmask
    BY <1>1, <1>4, <1>5 DEF IInv, TypeOK
  <2>2. QED
    BY <1>1, <2>1, PollerStays, ExactStays DEF IInv
<1>12. Deletions' /\ Batched'
  BY <1>1 DEF IInv, Deletions, Batched
<1>13. QED
  BY <1>7, <1>8, <1>9, <1>10, <1>11, <1>12 DEF IInv

\* What a connect() has in its hands before it calls anybody, and after its callback.
LEMMA BeginsGood ==
    ASSUME NEW r \in TcpRecord, r.state \in {"Connnecting", "Connected"},
           NEW k \in KernelSocket, NEW c,
           NEW begun, begun = [r |-> r, k |-> k, told |-> <<>>, on |-> TRUE, busy |-> c \in Busy]
    PROVE  /\ Good(begun) /\ begun.r = r
           /\ ~r.managed /\ r.state = "Connected" => Good(Tell(begun, "connected"))
                                                   /\ Tell(begun, "connected").r = r
<1>1. k # NoSock
  BY ConnectionAssumption
<1>2. <<>> \in ToldManaged /\ <<>> \in ToldAlone /\ <<"connected">> \in ToldAlone
  BY DEF ToldManaged, ToldAlone
<1>3. begun \in Handling /\ begun.r = r /\ begun.k = k /\ begun.told = <<>>
  <2>1. (c \in Busy) \in BOOLEAN
    OBVIOUS
  <2>2. QED
    BY <1>2, <2>1 DEF Handling
<1>4. Good(begun)
  BY <1>1, <1>2, <1>3 DEF Good
<1>5. ASSUME ~r.managed, r.state = "Connected"
      PROVE  Good(Tell(begun, "connected")) /\ Tell(begun, "connected").r = r
  <2>1. PICK p : p = Tell(begun, "connected")
    OBVIOUS
  <2>2. Append(<<>>, "connected") = <<"connected">>
    BY FirstWord
  <2>3. p \in Handling /\ p.r = r /\ p.told = <<"connected">>
    BY <1>2, <1>3, <2>1, <2>2 DEF Tell, Handling
  <2>4. QED
    BY <1>2, <1>5, <2>1, <2>3 DEF Good
<1>6. QED
  BY <1>3, <1>4, <1>5

LEMMA NewSockIs ==
    ASSUME NEW phase \in {"pending", "open"}
    PROVE  NewSock(phase) \in KernelSocket
<1>1. PICK no \in BOOLEAN : no = FALSE
  OBVIOUS
<1>2. NewSock(phase) = [phase |-> phase, err |-> no, data |-> no, fin |-> no]
  BY <1>1 DEF NewSock
<1>3. QED
  BY <1>2 DEF KernelSocket

LEMMA ConnectKeeps ==
    ASSUME IInv, NEW c \in Conn, NEW phase \in {"pending", "open"}, Connect(c, phase)
    PROVE  IInv'
<1>1. PICK own \in BOOLEAN : own <=> driver # "poll"
  OBVIOUS
<1>2. PICK begun : begun = [r |-> [Connecting(tcp[c], phase = "open") EXCEPT !.managed = driver # "poll"],
                            k |-> NewSock(phase), told |-> <<>>, on |-> TRUE, busy |-> c \in Busy]
  OBVIOUS
<1>3. PICK f \in Fd : /\ FreeFd(f)
                      /\ \E o \in IF driver = "poll" /\ phase = "open"
                                  THEN Reactions(Tell(begun, "connected")) ELSE {begun} :
                            /\ tcp' = [tcp EXCEPT ![c] = o.r]
                            /\ told' = [told EXCEPT ![c] = o.told]
                            /\ fd' = [fd EXCEPT ![c] = IF o.k = NoSock THEN NoFd ELSE f]
                            /\ kern' = [kern EXCEPT ![f] = o.k]
  BY <1>2 DEF Connect
<1>4. PICK o \in IF driver = "poll" /\ phase = "open"
                 THEN Reactions(Tell(begun, "connected")) ELSE {begun} :
         /\ tcp' = [tcp EXCEPT ![c] = o.r]
         /\ told' = [told EXCEPT ![c] = o.told]
         /\ fd' = [fd EXCEPT ![c] = IF o.k = NoSock THEN NoFd ELSE f]
         /\ kern' = [kern EXCEPT ![f] = o.k]
  BY <1>3
<1>5. /\ UNCHANGED <<driver, sockets, poller, pc, todo, batch>>
      /\ fd[c] = NoFd /\ opens[c] < MaxOpen
      /\ mem[c] = "fresh" \/ (driver = "poll" /\ mem[c] = "live")
      /\ mem' = [mem EXCEPT ![c] = "live"]
      /\ opens' = [opens EXCEPT ![c] = @ + 1]
      /\ posted' = IF driver = "poll" THEN posted ELSE posted \cup {c}
  BY DEF Connect
<1>6. /\ tcp \in [Conn -> TcpRecord] /\ tcp[c] \in TcpRecord /\ MaxOpen \in Nat
      /\ opens \in [Conn -> 0 .. MaxOpen] /\ mem \in [Conn -> {"fresh", "live", "freed"}]
      /\ told \in [Conn -> Seq(Words)] /\ fd \in [Conn -> Fd \cup {NoFd}]
      /\ kern \in [Fd -> KernelSocket \cup {NoSock}] /\ NoFd \notin Fd
      /\ posted \subseteq Conn /\ sockets \subseteq Conn
  BY ConnectionAssumption DEF IInv, TypeOK, Words
<1>7. Good(o) /\ o.r.managed = own /\ o.r.evmask = tcp[c].evmask
  <2>1. PICK r : r = [Connecting(tcp[c], phase = "open") EXCEPT !.managed = own]
    OBVIOUS
  <2>2. /\ r \in TcpRecord /\ r.managed = own /\ r.evmask = tcp[c].evmask
        /\ r.state = IF phase = "open" THEN "Connected" ELSE "Connnecting"
    <3>1. PICK st \in State : st = IF phase = "open" THEN "Connected" ELSE "Connnecting"
      BY DEF State
    <3>2. r = [[tcp[c] EXCEPT !.state = st, !.ibuf = FALSE, !.obuf = FALSE] EXCEPT !.managed = own]
      BY <2>1, <3>1 DEF Connecting
    <3>3. QED
      BY <1>6, <3>1, <3>2 DEF TcpRecord
  <2>3. PICK k \in KernelSocket : k = NewSock(phase)
    BY NewSockIs
  <2>4. begun = [r |-> r, k |-> k, told |-> <<>>, on |-> TRUE, busy |-> c \in Busy]
    BY <1>1, <1>2, <2>1, <2>3
  <2>5. /\ Good(begun) /\ begun.r = r
        /\ ~r.managed /\ r.state = "Connected" => Good(Tell(begun, "connected"))
                                                /\ Tell(begun, "connected").r = r
    <3>1. r.state \in {"Connnecting", "Connected"}
      BY <2>2
    <3>2. QED
      BY <2>2, <2>4, <3>1, BeginsGood
  <2>6. CASE driver = "poll" /\ phase = "open"
    <3>1. PICK p : p = Tell(begun, "connected")
      OBVIOUS
    <3>2. Good(p) /\ p.r = r /\ o \in Reactions(p)
      BY <1>1, <1>4, <2>2, <2>5, <2>6, <3>1
    <3>3. Leads(p, o)
      BY <3>2, ReactionsLead
    <3>4. QED
      BY <2>2, <3>2, <3>3 DEF Leads
  <2>7. CASE ~(driver = "poll" /\ phase = "open")
    BY <1>4, <2>2, <2>5, <2>7
  <2>8. QED
    BY <2>6, <2>7
<1>8. /\ o.r \in TcpRecord /\ o.k \in KernelSocket \cup {NoSock}
      /\ o.told \in ToldManaged \cup ToldAlone /\ o.told \in Seq(Words)
  BY <1>7, ToldTypes DEF Good, Handling, ToldEver
<1>9. /\ tcp' \in [Conn -> TcpRecord] /\ tcp'[c] = o.r /\ \A d \in Conn \ {c} : tcp'[d] = tcp[d]
      /\ opens' \in [Conn -> 0 .. MaxOpen]
      /\ mem' \in [Conn -> {"fresh", "live", "freed"}] /\ mem'[c] = "live"
      /\ \A d \in Conn \ {c} : mem'[d] = mem[d]
      /\ told' \in [Conn -> Seq(Words)] /\ told'[c] = o.told
      /\ \A d \in Conn \ {c} : told'[d] = told[d]
      /\ fd' \in [Conn -> Fd \cup {NoFd}] /\ fd'[c] = (IF o.k = NoSock THEN NoFd ELSE f)
      /\ \A d \in Conn \ {c} : fd'[d] = fd[d]
      /\ kern' \in [Fd -> KernelSocket \cup {NoSock}] /\ kern'[f] = o.k
      /\ \A g \in Fd \ {f} : kern'[g] = kern[g]
  <2>1. opens[c] + 1 \in 0 .. MaxOpen
    BY <1>5, <1>6
  <2>2. QED
    BY <1>4, <1>5, <1>6, <1>8, <2>1
<1>10. c \notin posted \cup sockets
  BY <1>5 DEF IInv, Listing
<1>11. \A d \in Conn : fd[d] # f
  BY <1>3, <1>6 DEF IInv, Owned, FreeFd
<1>12. TypeOK'
  BY <1>5, <1>6, <1>9 DEF IInv, TypeOK, Words
<1>13. Owned'
  <2>1. Owned
    BY DEF IInv
  <2>2. ASSUME NEW d \in Conn, fd'[d] # NoFd PROVE kern'[fd'[d]] # NoSock /\ mem'[d] = "live"
    <3>1. CASE d = c
      BY <1>9, <2>2, <3>1
    <3>2. CASE d # c
      <4>1. fd'[d] = fd[d] /\ mem'[d] = mem[d] /\ fd[d] \in Fd \ {f}
        BY <1>6, <1>9, <1>11, <2>2, <3>2
      <4>2. kern'[fd[d]] = kern[fd[d]]
        BY <1>9, <4>1
      <4>3. QED
        BY <2>1, <2>2, <4>1, <4>2 DEF Owned
    <3>3. QED
      BY <3>1, <3>2
  <2>3. ASSUME NEW d \in Conn, NEW e \in Conn, fd'[d] # NoFd, fd'[d] = fd'[e] PROVE d = e
    <3>1. CASE d # c /\ e # c
      <4>1. fd'[d] = fd[d] /\ fd'[e] = fd[e]
        BY <1>9, <3>1
      <4>2. QED
        BY <2>1, <2>3, <4>1 DEF Owned
    <3>2. CASE d = c /\ e # c
      BY <1>9, <1>11, <2>3, <3>2
    <3>3. CASE d # c /\ e = c
      BY <1>9, <1>11, <2>3, <3>3
    <3>4. QED
      BY <3>1, <3>2, <3>3
  <2>4. ASSUME NEW d \in Conn, mem'[d] = "fresh" PROVE ~tcp'[d].evmask
    BY <1>9, <2>1, <2>4 DEF Owned
  <2>5. QED
    BY <2>2, <2>3, <2>4 DEF Owned
<1>14. Listing'
  <2>1. Listing
    BY DEF IInv
  <2>2. CASE driver = "poll"
    BY <1>1, <1>5, <1>7, <1>9, <2>1, <2>2 DEF Listing
  <2>3. CASE driver # "poll"
    <3>1. own /\ o.k # NoSock /\ mem[c] = "fresh"
      BY <1>1, <1>5, <1>7, <2>3 DEF Good
    <3>2. ~o.r.evmask /\ fd'[c] # NoFd /\ o.r.managed
      BY <1>6, <1>7, <1>9, <3>1 DEF IInv, Owned
    <3>3. ASSUME NEW d \in posted \cup {c} \cup sockets PROVE fd'[d] # NoFd /\ tcp'[d].managed
      BY <1>6, <1>9, <2>1, <3>2 DEF Listing
    <3>4. ASSUME NEW d \in posted \cup {c} PROVE ~tcp'[d].evmask
      BY <1>6, <1>9, <2>1, <3>2 DEF Listing
    <3>5. QED
      BY <1>5, <1>10, <2>1, <2>3, <3>3, <3>4 DEF Listing
  <2>4. QED
    BY <2>2, <2>3
<1>15. Telling'
  <2>1. Telling
    BY DEF IInv
  <2>2. /\ o.told \in ToldEver /\ (o.r.state \in {"Connnecting", "Refused"} => o.told = <<>>)
        /\ (own => o.told \in ToldManaged) /\ (~own => o.told \in ToldAlone)
    BY <1>7, <1>8 DEF Good, ToldEver
  <2>3. ASSUME NEW d \in Conn
        PROVE  /\ told'[d] \in ToldEver
               /\ tcp'[d].state \in {"Connnecting", "Refused"} => told'[d] = <<>>
               /\ d \in posted' \cup sockets => told'[d] \in ToldManaged
               /\ driver = "poll" => told'[d] \in ToldAlone
    <3>1. CASE d = c
      BY <1>1, <1>5, <1>9, <1>10, <2>2, <3>1
    <3>2. CASE d # c
      <4>1. told'[d] = told[d] /\ tcp'[d] = tcp[d] /\ (d \in posted' => d \in posted)
        BY <1>5, <1>9, <3>2
      <4>2. QED
        BY <2>1, <4>1 DEF Telling
    <3>3. QED
      BY <3>1, <3>2
  <2>4. QED
    BY <1>5, <2>3 DEF Telling
<1>16. PollerOK(poller)' /\ Exact'
  <2>1. \A d \in sockets : fd'[d] = fd[d] /\ tcp'[d].evmask = tcp[d].evmask
    BY <1>6, <1>9, <1>10
  <2>2. QED
    BY <1>5, <2>1, PollerStays, ExactStays DEF IInv
<1>17. Deletions'
  <2>1. \A d \in sockets : fd'[d] = fd[d]
    BY <1>6, <1>9, <1>10
  <2>2. QED
    BY <1>5, <2>1 DEF IInv, Deletions
<1>18. Batched'
  <2>1. \A d \in sockets : fd'[d] = fd[d]
    BY <1>6, <1>9, <1>10
  <2>2. QED
    BY <1>5, <2>1 DEF IInv, Batched
<1>19. QED
  BY <1>12, <1>13, <1>14, <1>15, <1>16, <1>17, <1>18 DEF IInv

LEMMA StutterKeeps == IInv /\ UNCHANGED vars => IInv'
<1> SUFFICES ASSUME IInv, UNCHANGED vars PROVE IInv'
  OBVIOUS
<1>1. UNCHANGED <<driver, mem, tcp, fd, told, opens, kern, posted, sockets, poller, pc, todo, batch>>
  BY DEF vars, ownVars, workerVars
<1>2. PollerOK(poller)' /\ Exact'
  BY <1>1, PollerStays, ExactStays DEF IInv
<1>3. TypeOK'
  BY <1>1 DEF IInv, TypeOK
<1>4. Owned' /\ Listing' /\ Telling' /\ Deletions' /\ Batched'
  BY <1>1 DEF IInv, Owned, Listing, Telling, Deletions, Batched
<1>5. QED
  BY <1>2, <1>3, <1>4 DEF IInv

LEMMA NextKeeps == IInv /\ [Next]_vars => IInv'
<1> SUFFICES ASSUME IInv, [Next]_vars PROVE IInv'
  OBVIOUS
<1>1. CASE Worker
  <2>1. ASSUME NEW c \in Conn, Adopt(c) \/ WalkEnd(c) \/ WalkLive(c) PROVE IInv'
    BY <2>1, AdoptKeeps, WalkEndKeeps, WalkLiveKeeps
  <2>2. ASSUME NEW e \in batch, Handle(e) PROVE IInv'
    BY <2>2, HandleKeeps
  <2>3. QED
    BY <1>1, <2>1, <2>2, BeginWalkKeeps, PollKeeps DEF Worker
<1>2. ASSUME NEW c \in Conn, TcpPoll(c) \/ AppCalls(c) \/ ConnectFails(c) PROVE IInv'
  BY <1>2, TcpPollKeeps, AppCallsKeeps, ConnectFailsKeeps
<1>3. ASSUME NEW c \in Conn, NEW phase \in {"pending", "open"}, Connect(c, phase) PROVE IInv'
  BY <1>3, ConnectKeeps
<1>4. ASSUME NEW f \in Fd, Kernel(f) PROVE IInv'
  BY <1>4, KernelKeeps
<1>5. CASE UNCHANGED vars
  BY <1>5, StutterKeeps
<1>6. QED
  BY <1>1, <1>2, <1>3, <1>4, <1>5 DEF Next

LEMMA Invariance == Spec => []IInv
BY InitInv, NextKeeps, PTL DEF Spec

------------------------------------------------------------------------------
(* What the invariant gives *)

\* Every variable keeps its type; the worker visits sockets of its list only and is
\* called back for descriptors of its own.
THEOREM TypeOKAlways == Spec => []TypeOK
<1>1. IInv => TypeOK
  BY DEF IInv
<1>2. QED
  BY Invariance, <1>1, PTL

\* No registration of a NetPoller and no call of cb still to be made is for a deleted
\* object or for a descriptor that has changed hands, whichever poller is used.
THEOREM EventsReachTheirOwnerAlways == Spec => []EventsReachTheirOwner
<1>1. IInv => EventsReachTheirOwner
  <2> SUFFICES ASSUME IInv, NEW x \in Effective(poller) \cup batch
               PROVE  mem[x.ud] = "live" /\ fd[x.ud] = x.fd
    BY DEF EventsReachTheirOwner
  <2>1. x.ud \in sockets /\ x.fd = fd[x.ud]
    BY Watched DEF IInv, Batched
  <2>2. QED
    BY <2>1, StateManaged
<1>2. QED
  BY Invariance, <1>1, PTL

\* The poller watches every socket of a worker's list for exactly what _evmask says,
\* with whatever kqueue has still to be handed.
THEOREM PollerFollowsMaskAlways == Spec => []PollerFollowsMask
<1>1. IInv => PollerFollowsMask
  <2> SUFFICES ASSUME IInv, NEW c \in sockets
               PROVE  UNION {x.event : x \in {y \in Effective(poller) : y.ud = c}} =
                         IF tcp[c].evmask THEN ReadWrite ELSE ReadOnly
    BY DEF PollerFollowsMask
  <2>1. {y \in Effective(poller) : y.ud = c} = WatchOf(c)
    BY Watched
  <2>2. PICK w : w = ItemsOf(poller.kind, fd[c], Interest(c), c)
    OBVIOUS
  <2>3. UNION {x.event : x \in w} = Interest(c)
    BY <2>2, EventsOf
  <2>4. w = WatchOf(c)
    BY <2>2 DEF WatchOf
  <2>5. QED
    BY <2>1, <2>3, <2>4 DEF Interest
<1>2. QED
  BY Invariance, <1>1, PTL

\* The application is told at most once that a connect() was answered and at most once
\* that a connection ended, and nothing after that, whatever its callbacks do.
THEOREM ToldOnceAlways == Spec => []ToldOnce
<1>1. IInv => ToldOnce
  BY DEF IInv, Telling, ToldEver, ToldManaged, ToldAlone, ToldOnce
<1>2. QED
  BY Invariance, <1>1, PTL
==============================================================================
