-------------------------------- MODULE Beacon --------------------------------
(***************************************************************************)
(* The beacon of beacon.cpp: services on a multicast group negotiate an id  *)
(* each, announce themselves, and keep a table of the peers they hear.      *)
(*                                                                          *)
(* A node is one service: its worker thread (timer, health check, receive   *)
(* until 500 ms of silence), an application thread that calls remove_peer() *)
(* and the callbacks, which run between the unlock of the table and the     *)
(* next step.  Datagrams may be lost, overtaken and delayed, and a node may *)
(* die and come back without its memory.                                    *)
(*                                                                          *)
(* Clocks are left out: a timer that is not 0 may or may not have run out,  *)
(* and a record may time out at any health check.  All nodes have the same  *)
(* application code and service type.                                       *)
(***************************************************************************)
EXTENDS Integers, Sequences, FiniteSets, SequencesExt

CONSTANTS
    Node,
    Indices,        \* bound: _reserving_next is taken modulo Indices
    CreateId,       \* cb_beacon_createid() of an index, the same at all nodes
    Mortal,         \* bound: the nodes that may die ...
    MaxCrashes,     \* ... and how many deaths there are
    MaxDraws,       \* bound: negotiations a node begins
    Removers,       \* bound: the nodes whose application calls remove_peer() ...
    MaxRemoves,     \* ... and how many calls there are
    MaxFlight,      \* bound: datagrams under way at a time
    NoPeer          \* no callback pending

Ids  == {CreateId[i] : i \in 0 .. Indices - 1}
Peer == [id : Ids, addr : Node]
Call == [up : BOOLEAN, peer : Peer]

ASSUME BeaconAssumption ==
    /\ Indices \in Nat \ {0} /\ DOMAIN CreateId = 0 .. Indices - 1 /\ Ids \subseteq Nat
    /\ Mortal \subseteq Node /\ Removers \subseteq Node
    /\ MaxCrashes \in Nat /\ MaxDraws \in Nat /\ MaxRemoves \in Nat /\ MaxFlight \in Nat
    /\ NoPeer \notin Call

VARIABLES
    alike,      \* the comparison of addresses sees no difference between nodes
    pc,         \* where the worker of n is; "down" while the node is dead
    sid,        \* _service_id
    rid,        \* _reserving_id
    next,       \* _reserving_next, as of its last use
    rand,       \* _reserving_rand, as the number of the draw: no two draws are equal
    collided,   \* _collided; while sid is 0, _beacon_timer is 0 iff it is set
    table,      \* _services: id and sender of each record, in list order
    telling,    \* the peerup or peerdown the worker is about to make
    removing,   \* ... and the peerdown remove_peer() is about to make
    net,        \* datagrams under way to a live node
    crashes, removes,    \* for the bounds
    view,       \* history: peerup minus peerdown told, per id
    doubt       \* history: the id was taken though a datagram that mattered was
                \* lost or late

idVars   == <<sid, rid, next, rand, collided>>
peerVars == <<table, telling, removing, removes, view>>
world    == <<alike, crashes>>
vars     == <<pc, idVars, peerVars, net, world, doubt>>

Datagram == [to : Node, from : Node, cmd : {"BEACON", "RESERVEID"}, id : Ids,
             rand : 0 .. MaxDraws]

TypeOK ==
    /\ alike \in BOOLEAN
    /\ pc \in [Node -> {"down", "start", "health", "recv"}]
    /\ sid \in [Node -> Ids \cup {0}] /\ rid \in [Node -> Ids \cup {0}]
    /\ next \in [Node -> 0 .. Indices - 1] /\ rand \in [Node -> 0 .. MaxDraws]
    /\ collided \in [Node -> BOOLEAN]
    /\ table \in [Node -> Seq(Peer)] /\ \A n \in Node : IsInjective(table[n])
    /\ telling \in [Node -> Call \cup {NoPeer}] /\ removing \in [Node -> Call \cup {NoPeer}]
    /\ net \subseteq Datagram
    /\ crashes \in 0 .. MaxCrashes /\ removes \in 0 .. MaxRemoves
    /\ view \in [Node -> [Ids -> Int]] /\ doubt \in [Node -> BOOLEAN]

Init ==
    /\ alike \in BOOLEAN
    /\ pc = [n \in Node |-> "down"]
    /\ sid = [n \in Node |-> 0] /\ rid = [n \in Node |-> 0]
    /\ next = [n \in Node |-> 0] /\ rand = [n \in Node |-> 0]
    /\ collided = [n \in Node |-> TRUE]
    /\ table = [n \in Node |-> <<>>]
    /\ telling = [n \in Node |-> NoPeer] /\ removing = [n \in Node |-> NoPeer]
    /\ net = {} /\ crashes = 0 /\ removes = 0
    /\ view = [n \in Node |-> [i \in Ids |-> 0]]
    /\ doubt = [n \in Node |-> FALSE]

------------------------------------------------------------------------------
\* Multicast, which the sender hears too; no datagram carries the id 0.
Multicast(n, cmd, id, r) ==
    {[to |-> m, from |-> n, cmd |-> cmd, id |-> id, rand |-> r] :
        m \in {m \in Node : id # 0 /\ pc[m] # "down"}}

\* init() and start() of a new process.
Start(n) ==
    /\ pc[n] = "down"
    /\ pc' = [pc EXCEPT ![n] = "start"]
    /\ UNCHANGED <<idVars, peerVars, net, world, doubt>>

\* The process dies: what it knew and what was on its way to it is gone.
Crash(n) ==
    /\ n \in Mortal /\ pc[n] # "down" /\ crashes < MaxCrashes
    /\ crashes' = crashes + 1
    /\ pc' = [pc EXCEPT ![n] = "down"]
    /\ sid' = [sid EXCEPT ![n] = 0] /\ rid' = [rid EXCEPT ![n] = 0]
    /\ next' = [next EXCEPT ![n] = 0]
    /\ collided' = [collided EXCEPT ![n] = TRUE]
    /\ table' = [table EXCEPT ![n] = <<>>]
    /\ telling' = [telling EXCEPT ![n] = NoPeer]
    /\ removing' = [removing EXCEPT ![n] = NoPeer]
    /\ view' = [view EXCEPT ![n] = [i \in Ids |-> 0]]
    /\ doubt' = [doubt EXCEPT ![n] = FALSE]
    /\ net' = {d \in net : d.to # n}
    /\ UNCHANGED <<rand, removes, alike>>

\* A round of worker() begins: the first, or nothing has come for 500 ms and
\* Udp::recv() has timed out.  Datagrams on the wire may take longer.
Round(n) ==
    /\ pc[n] # "down" /\ telling[n] = NoPeer
    /\ pc' = [pc EXCEPT ![n] = "health"]

\* _reserving_next is 0 first and moves on by 1 to 4 after each use (here: before
\* the next).
Tried(n) == IF rid[n] = 0 THEN {0} ELSE {(next[n] + step) % Indices : step \in 1 .. 4}

\* The timer has run out and the last id collided: try another one.
Reserve(n) ==
    /\ Round(n) /\ sid[n] = 0 /\ collided[n] /\ rand[n] < MaxDraws
    /\ \E i \in Tried(n) :
          /\ next' = [next EXCEPT ![n] = i]
          /\ rid' = [rid EXCEPT ![n] = CreateId[i]]
          /\ net' = net \cup Multicast(n, "RESERVEID", CreateId[i], rand[n] + 1)
    /\ rand' = [rand EXCEPT ![n] = @ + 1]
    /\ collided' = [collided EXCEPT ![n] = FALSE]
    /\ doubt' = [doubt EXCEPT ![n] = FALSE]
    /\ UNCHANGED <<sid, peerVars, world>>

\* d is part of the negotiation n is in: its request, or something others say
\* about the id.
Matters(n, d) ==
    /\ sid[n] = 0 /\ d.id = rid[n]
    /\ \/ d.to = n /\ d.from # n
       \/ d.from = n /\ d.to # n /\ d.cmd = "RESERVEID"

\* The timer has run out and nobody has objected: the id is taken.
Take(n) ==
    /\ Round(n) /\ sid[n] = 0 /\ ~collided[n]
    /\ sid' = [sid EXCEPT ![n] = rid[n]]
    /\ rid' = [rid EXCEPT ![n] = 0]
    /\ net' = net \cup Multicast(n, "BEACON", rid[n], 0)
    /\ doubt' = [doubt EXCEPT ![n] = @ \/ \E d \in net : Matters(n, d)]
    /\ UNCHANGED <<next, rand, collided, peerVars, world>>

\* The interval has run out: announce.
Announce(n) ==
    /\ Round(n) /\ sid[n] # 0
    /\ net' = net \cup Multicast(n, "BEACON", sid[n], 0)
    /\ UNCHANGED <<idVars, peerVars, world, doubt>>

\* The timer has not run out.  A timer of 0 has.
NotYet(n) ==
    /\ Round(n) /\ (sid[n] = 0 /\ collided[n] => rand[n] = MaxDraws)
    /\ UNCHANGED <<idVars, peerVars, net, world, doubt>>

\* Mutant of Expire: the list is searched from its second record on.
Expire_FromSecond(n, a) ==
    /\ pc[n] = "health" /\ telling[n] = NoPeer
    /\ \E i \in DOMAIN table[n] \ {1} :
          /\ table[n][i].addr = a
          /\ table' = [table EXCEPT ![n] = RemoveAt(@, i)]
          /\ telling' = [telling EXCEPT ![n] = [up |-> FALSE, peer |-> table[n][i]]]
    /\ UNCHANGED <<pc, idVars, removing, removes, view, net, world, doubt>>

\* service_healthcheck(): a record has timed out and is erased.
Expire(n, a) ==
    /\ pc[n] = "health" /\ telling[n] = NoPeer
    /\ \E i \in DOMAIN table[n] :
          /\ table[n][i].addr = a
          /\ table' = [table EXCEPT ![n] = RemoveAt(@, i)]
          /\ telling' = [telling EXCEPT ![n] = [up |-> FALSE, peer |-> table[n][i]]]
    /\ UNCHANGED <<pc, idVars, removing, removes, view, net, world, doubt>>

\* The callback of the worker, with the table unlocked.
Tell(n) ==
    /\ telling[n] # NoPeer
    /\ view' = [view EXCEPT ![n][telling[n].peer.id] = @ + IF telling[n].up THEN 1 ELSE -1]
    /\ telling' = [telling EXCEPT ![n] = NoPeer]
    /\ UNCHANGED <<pc, idVars, table, removing, removes, net, world, doubt>>

\* get_ip4() copies the four bytes from sin_port on, the port and the first half of
\* the address: hosts of one /16 that use the same port are alike.  So are all peers
\* where cb_recv() finds in the _family it never sets neither IP version.
SameAddr(a, b) == a = b \/ alike

\* Mutant of Update: no look for a record that is there.
Update_Again(n, p) ==
    /\ table' = [table EXCEPT ![n] = Append(@, p)]
    /\ telling' = [telling EXCEPT ![n] = [up |-> TRUE, peer |-> p]]

\* Mutant of Update: a refreshed record is told again.
Update_TellsAlways(n, p) ==
    /\ table' = [table EXCEPT ![n] = IF p \in ToSet(@) THEN @ ELSE Append(@, p)]
    /\ telling' = [telling EXCEPT ![n] = [up |-> TRUE, peer |-> p]]

\* service_update(): refresh the record, or add it and tell.
Update(n, p) ==
    IF \E q \in ToSet(table[n]) : q.id = p.id /\ SameAddr(q.addr, p.addr)
    THEN UNCHANGED <<table, telling>>
    ELSE /\ table' = [table EXCEPT ![n] = Append(@, p)]
         /\ telling' = [telling EXCEPT ![n] = [up |-> TRUE, peer |-> p]]

\* cb_recv(), a beacon.
RecvBeacon(n, d) ==
    /\ collided' = [collided EXCEPT ![n] = @ \/ d.id = rid[n]]
    /\ IF d.id # sid[n] THEN Update(n, [id |-> d.id, addr |-> d.from])
                        ELSE UNCHANGED <<table, telling>>
    /\ net' = net \ {d}

\* Mutant of RecvReserveId: the holder of the id does not object.
RecvReserveId_Silent(n, d) ==
    /\ collided' = [collided EXCEPT ![n] = @ \/ (d.id = rid[n] /\ <<d.from, d.rand>> # <<n, rand[n]>>)]
    /\ net' = net \ {d}
    /\ UNCHANGED <<table, telling>>

\* cb_recv(), a request for an id: the one we ask for too, or the one we have.
RecvReserveId(n, d) ==
    /\ collided' = [collided EXCEPT ![n] = @ \/ (d.id = rid[n] /\ <<d.from, d.rand>> # <<n, rand[n]>>)]
    /\ net' = (net \ {d}) \cup IF d.id = sid[n] THEN Multicast(n, "BEACON", d.id, 0) ELSE {}
    /\ UNCHANGED <<table, telling>>

Recv(n, d) ==
    /\ pc[n] \in {"health", "recv"} /\ telling[n] = NoPeer /\ d.to = n
    /\ pc' = [pc EXCEPT ![n] = "recv"]
    /\ IF d.cmd = "BEACON" THEN RecvBeacon(n, d) ELSE RecvReserveId(n, d)
    /\ UNCHANGED <<sid, rid, next, rand, removing, removes, view, world, doubt>>

\* remove_peer() in an application thread, with an address it was told: the first
\* record that compares equal.
RemovePeer(n, a) ==
    /\ n \in Removers /\ pc[n] # "down" /\ removing[n] = NoPeer /\ removes < MaxRemoves
    /\ removes' = removes + 1
    /\ \E i \in DOMAIN table[n] :
          /\ SameAddr(table[n][i].addr, a)
          /\ \A j \in 1 .. i - 1 : ~SameAddr(table[n][j].addr, a)
          /\ table' = [table EXCEPT ![n] = RemoveAt(@, i)]
          /\ removing' = [removing EXCEPT ![n] = [up |-> FALSE, peer |-> table[n][i]]]
    /\ UNCHANGED <<pc, idVars, telling, view, net, world, doubt>>

\* ... and its callback.
Removed(n) ==
    /\ removing[n] # NoPeer
    /\ view' = [view EXCEPT ![n][removing[n].peer.id] = @ - 1]
    /\ removing' = [removing EXCEPT ![n] = NoPeer]
    /\ UNCHANGED <<pc, idVars, table, telling, removes, net, world, doubt>>

\* The network loses a datagram.
Lose(d) ==
    /\ net' = net \ {d}
    /\ doubt' = [n \in Node |-> doubt[n] \/ Matters(n, d)]
    /\ UNCHANGED <<pc, idVars, peerVars, world>>

Step ==
    \/ \E n \in Node : \/ Start(n) \/ Crash(n)
                       \/ Reserve(n) \/ Take(n) \/ Announce(n) \/ NotYet(n)
                       \/ Tell(n) \/ Removed(n)
                       \/ \E d \in net : Recv(n, d)
                       \/ \E a \in Node : Expire(n, a) \/ RemovePeer(n, a)
    \/ \E d \in net : Lose(d)

Room == Cardinality(net) <= MaxFlight
Next == Step /\ Room'

Spec == Init /\ [][Next]_vars

\* The worker comes round again (500 ms of silence come again and again) and its
\* callbacks return; the record of a peer that is no more times out, as nobody
\* refreshes it.
FairSpec ==
    /\ Spec
    /\ \A n \in Node :
          /\ WF_vars(Tell(n))
          /\ WF_vars((NotYet(n) \/ Reserve(n) \/ Take(n) \/ Announce(n)) /\ Room')
          /\ SF_vars(\E a \in Node : pc[a] = "down" /\ Expire(n, a))

------------------------------------------------------------------------------
(* Properties *)

\* Two services never hold the same id, unless one of them took it while its
\* request or an objection was lost or still under way ("no collision within
\* kNegotiateInterval, use the id"): crossing requests, requests of a former life
\* and answers that arrive in any order do no harm.
UniqueIds ==
    \A m, n \in Node : m # n /\ sid[m] # 0 /\ sid[m] = sid[n] => doubt[m] \/ doubt[n]

Count(n, i) == Cardinality({k \in DOMAIN table[n] : table[n][k].id = i})
Pending(c, up, i) == IF c # NoPeer /\ c.up = up /\ c.peer.id = i THEN 1 ELSE 0

\* Though the table is unlocked before a callback and remove_peer() works on it from
\* another thread, the application is told of every record that comes and of every
\* record that goes exactly once: what it was told differs from the table only by
\* the callbacks under way.
ToldWhatTableHolds ==
    \A n \in Node, i \in Ids :
       view[n][i] = Count(n, i) - Pending(telling[n], TRUE, i)
                       + Pending(telling[n], FALSE, i) + Pending(removing[n], FALSE, i)

Lists(n, m) == \E k \in DOMAIN table[n] : table[n][k].addr = m

\* A peer that died for good leaves the tables of the others for good, whatever of
\* it was still under way (service_healthcheck).
DeadPeersLeave ==
    \A n \in Node : \A m \in Node \ {n} :
       <>[](pc[m] = "down" /\ pc[n] # "down") => <>[]~Lists(n, m)
==============================================================================
