---------------------------- MODULE BeaconProofs ----------------------------
(***************************************************************************)
(* Proofs about Beacon, for any number of services, ids, deaths,            *)
(* negotiations and datagrams under way.                                    *)
(***************************************************************************)
EXTENDS Beacon, FiniteSetTheorems, TLAPS

------------------------------------------------------------------------------
(* Lemmas about the table of peers, a sequence *)

\* The records of id i in the table s.
At(s, i)      == {k \in DOMAIN s : s[k].id = i}
CountOf(s, i) == Cardinality(At(s, i))

LEMMA AtFinite ==
    ASSUME NEW T, NEW s \in Seq(T), NEW i
    PROVE  IsFiniteSet(At(s, i)) /\ CountOf(s, i) \in Nat
<1>1. IsFiniteSet(1 .. Len(s))
  BY FS_Interval
<1>2. At(s, i) \subseteq 1 .. Len(s)
  BY DEF At
<1>3. IsFiniteSet(At(s, i))
  BY <1>1, <1>2, FS_Subset
<1>4. QED
  BY <1>3, FS_CardinalityType DEF CountOf

\* A record erased: those behind it move up.
LEMMA Erased ==
    ASSUME NEW T, NEW s \in Seq(T), NEW k \in DOMAIN s
    PROVE  /\ RemoveAt(s, k) \in Seq(T)
           /\ DOMAIN RemoveAt(s, k) = 1 .. Len(s) - 1
           /\ \A j \in 1 .. Len(s) - 1 :
                 RemoveAt(s, k)[j] = IF j < k THEN s[j] ELSE s[j + 1]
<1> DEFINE front == SubSeq(s, 1, k - 1)
           rear  == SubSeq(s, k + 1, Len(s))
<1>1. k \in 1 .. Len(s) /\ Len(s) \in Nat
  OBVIOUS
<1>2. front \in Seq(T) /\ Len(front) = k - 1 /\ \A j \in 1 .. k - 1 : front[j] = s[j]
  BY <1>1
<1>3. rear \in Seq(T) /\ Len(rear) = Len(s) - k /\ \A j \in 1 .. Len(s) - k : rear[j] = s[j + k]
  BY <1>1
<1> HIDE DEF front, rear
<1>4. RemoveAt(s, k) = front \o rear
  BY DEF RemoveAt, front, rear
<1>5. front \o rear \in Seq(T) /\ Len(front \o rear) = Len(s) - 1
  BY <1>1, <1>2, <1>3
<1>6. ASSUME NEW j \in 1 .. Len(s) - 1
      PROVE  (front \o rear)[j] = IF j < k THEN s[j] ELSE s[j + 1]
  <2>1. CASE j < k
    <3>1. (front \o rear)[j] = front[j] /\ j \in 1 .. k - 1
      BY <1>1, <1>2, <1>3, <2>1
    <3>2. QED
      BY <1>2, <2>1, <3>1
  <2>2. CASE j >= k
    <3>1. (front \o rear)[j] = rear[j - (k - 1)]
      BY <1>1, <1>2, <1>3, <2>2
    <3>2. j - (k - 1) \in 1 .. Len(s) - k /\ (j - (k - 1)) + k = j + 1
      BY <1>1, <2>2
    <3>3. rear[j - (k - 1)] = s[(j - (k - 1)) + k]
      BY <1>3, <3>2
    <3>4. QED
      BY <1>1, <2>2, <3>1, <3>2, <3>3
  <2>3. j < k \/ j >= k
    BY <1>1
  <2>4. QED
    BY <2>1, <2>2, <2>3
<1>7. QED
  BY <1>4, <1>5, <1>6

LEMMA ErasedInjective ==
    ASSUME NEW T, NEW s \in Seq(T), NEW k \in DOMAIN s, IsInjective(s)
    PROVE  IsInjective(RemoveAt(s, k))
<1>1. SUFFICES ASSUME NEW a \in 1 .. Len(s) - 1, NEW b \in 1 .. Len(s) - 1,
                      RemoveAt(s, k)[a] = RemoveAt(s, k)[b]
               PROVE  a = b
  BY Erased DEF IsInjective
<1>2. PICK a1 \in 1 .. Len(s) : a1 = (IF a < k THEN a ELSE a + 1)
  OBVIOUS
<1>3. PICK b1 \in 1 .. Len(s) : b1 = (IF b < k THEN b ELSE b + 1)
  OBVIOUS
<1>4. s[a1] = s[b1]
  BY <1>1, <1>2, <1>3, Erased
<1>5. a1 = b1
  BY <1>4 DEF IsInjective
<1>6. QED
  BY <1>2, <1>3, <1>5

LEMMA ErasedCount ==
    ASSUME NEW T, NEW s \in Seq(T), NEW k \in DOMAIN s, NEW i
    PROVE  CountOf(RemoveAt(s, k), i) =
              IF s[k].id = i THEN CountOf(s, i) - 1 ELSE CountOf(s, i)
<1> DEFINE new  == At(RemoveAt(s, k), i)
           old  == At(s, i) \ {k}
           f    == [j \in new |-> IF j < k THEN j ELSE j + 1]
<1>1. k \in 1 .. Len(s) /\ Len(s) \in Nat
  OBVIOUS
<1>2. new = {j \in 1 .. Len(s) - 1 : (IF j < k THEN s[j] ELSE s[j + 1]).id = i}
  BY Erased DEF At
<1>3. old = {j \in 1 .. Len(s) : s[j].id = i /\ j # k}
  BY DEF At
<1> HIDE DEF new, old
<1>4. f \in [new -> old]
  BY <1>1, <1>2, <1>3
<1>5. \A a, b \in new : f[a] = f[b] => a = b
  BY <1>1, <1>2
<1>6. ASSUME NEW j \in old PROVE \E a \in new : f[a] = j
  <2>1. CASE j < k
    <3>1. j \in new /\ f[j] = j
      BY <1>1, <1>2, <1>3, <2>1
    <3>2. QED
      BY <3>1
  <2>2. CASE j > k
    <3>1. j - 1 \in new /\ f[j - 1] = j
      BY <1>1, <1>2, <1>3, <2>2
    <3>2. QED
      BY <3>1
  <2>3. QED
    BY <1>1, <1>3, <2>1, <2>2
<1>7. ExistsBijection(new, old)
  <2> HIDE DEF f
  <2>1. f \in Bijection(new, old)
    BY <1>4, <1>5, <1>6 DEF Bijection, Injection, Surjection, IsInjective
  <2>2. QED
    BY <2>1 DEF ExistsBijection
<1>8. IsFiniteSet(new) /\ IsFiniteSet(At(s, i))
  BY Erased, AtFinite DEF new
<1>9. Cardinality(new) = Cardinality(old)
  BY <1>7, <1>8, FS_Bijection
<1>10. Cardinality(old) = IF k \in At(s, i) THEN CountOf(s, i) - 1 ELSE CountOf(s, i)
  BY <1>8, FS_RemoveElement DEF old, CountOf
<1>11. k \in At(s, i) <=> s[k].id = i
  BY DEF At
<1>12. QED
  BY <1>9, <1>10, <1>11 DEF new, CountOf

\* A record added at the end.
LEMMA AppendedInjective ==
    ASSUME NEW T, NEW s \in Seq(T), NEW p \in T, IsInjective(s), p \notin ToSet(s)
    PROVE  Append(s, p) \in Seq(T) /\ IsInjective(Append(s, p))
BY DEF IsInjective, ToSet

LEMMA AppendedCount ==
    ASSUME NEW T, NEW s \in Seq(T), NEW p \in T, NEW i
    PROVE  CountOf(Append(s, p), i) =
              IF p.id = i THEN CountOf(s, i) + 1 ELSE CountOf(s, i)
<1>1. At(Append(s, p), i) = IF p.id = i THEN At(s, i) \cup {Len(s) + 1} ELSE At(s, i)
  BY DEF At
<1>2. Len(s) + 1 \notin At(s, i)
  BY DEF At
<1>3. QED
  BY <1>1, <1>2, AtFinite, FS_AddElement DEF CountOf

------------------------------------------------------------------------------
(* Types *)

LEMMA IdsType == Ids \subseteq Nat /\ \A i \in 0 .. Indices - 1 : CreateId[i] \in Ids
BY BeaconAssumption DEF Ids

LEMMA MulticastType ==
    ASSUME NEW n \in Node, NEW cmd \in {"BEACON", "RESERVEID"}, NEW id \in Ids \cup {0},
           NEW r \in 0 .. MaxDraws
    PROVE  Multicast(n, cmd, id, r) \subseteq Datagram
BY DEF Multicast, Datagram

LEMMA BeaconType ==
    ASSUME NEW n \in Node, NEW id \in Ids \cup {0}
    PROVE  Multicast(n, "BEACON", id, 0) \subseteq Datagram
<1>1. 0 \in 0 .. MaxDraws
  BY BeaconAssumption
<1>2. QED
  BY <1>1, MulticastType

\* The next index tried is one of the application's.
LEMMA TriedType ==
    ASSUME TypeOK, NEW n \in Node
    PROVE  Tried(n) \subseteq 0 .. Indices - 1
<1>1. \A a \in Nat : a % Indices \in 0 .. Indices - 1
  BY BeaconAssumption, Z3
<1>2. \A step \in 1 .. 4 : next[n] + step \in Nat
  BY BeaconAssumption DEF TypeOK
<1>3. \A step \in 1 .. 4 : (next[n] + step) % Indices \in 0 .. Indices - 1
  BY <1>1, <1>2
<1>4. 0 \in 0 .. Indices - 1
  BY BeaconAssumption
<1>5. QED
  BY <1>3, <1>4 DEF Tried

\* A record leaves the table of n, and its peer is about to be told as gone.
LEMMA ErasedType ==
    ASSUME TypeOK, NEW n \in Node, NEW k \in DOMAIN table[n],
           table' = [table EXCEPT ![n] = RemoveAt(@, k)]
    PROVE  /\ table' \in [Node -> Seq(Peer)] /\ \A m \in Node : IsInjective(table[m])'
           /\ [up |-> FALSE, peer |-> table[n][k]] \in Call
           /\ table[n][k] \in Peer
<1>1. table \in [Node -> Seq(Peer)] /\ \A m \in Node : IsInjective(table[m])
  BY DEF TypeOK
<1>2. table[n] \in Seq(Peer) /\ table[n][k] \in Peer
  BY <1>1
<1>3. RemoveAt(table[n], k) \in Seq(Peer) /\ IsInjective(RemoveAt(table[n], k))
  BY <1>1, <1>2, Erased, ErasedInjective
<1>4. table' \in [Node -> Seq(Peer)] /\ \A m \in Node : IsInjective(table'[m])
  BY <1>1, <1>3
<1>5. QED
  BY <1>2, <1>4 DEF Call

\* A record refreshed or added.
LEMMA UpdateType ==
    ASSUME TypeOK, NEW n \in Node, NEW p \in Peer, Update(n, p)
    PROVE  /\ table' \in [Node -> Seq(Peer)] /\ \A m \in Node : IsInjective(table[m])'
           /\ telling' \in [Node -> Call \cup {NoPeer}]
<1>1. table \in [Node -> Seq(Peer)] /\ \A m \in Node : IsInjective(table[m])
  BY DEF TypeOK
<1>2. telling \in [Node -> Call \cup {NoPeer}]
  BY DEF TypeOK
<1>3. CASE UNCHANGED <<table, telling>>
  BY <1>1, <1>2, <1>3
<1>4. CASE /\ p \notin ToSet(table[n])
           /\ table' = [table EXCEPT ![n] = Append(@, p)]
           /\ telling' = [telling EXCEPT ![n] = [up |-> TRUE, peer |-> p]]
  <2>1. Append(table[n], p) \in Seq(Peer) /\ IsInjective(Append(table[n], p))
    BY <1>1, <1>4, AppendedInjective
  <2>2. table' \in [Node -> Seq(Peer)] /\ \A m \in Node : IsInjective(table'[m])
    BY <1>1, <1>4, <2>1
  <2>3. [up |-> TRUE, peer |-> p] \in Call
    BY DEF Call
  <2>4. QED
    BY <1>2, <1>4, <2>2, <2>3
<1>5. QED
  BY <1>3, <1>4 DEF Update, SameAddr

LEMMA InitTypeOK == Init => TypeOK
<1> SUFFICES ASSUME Init PROVE TypeOK
  OBVIOUS
<1>1. table \in [Node -> Seq(Peer)] /\ \A n \in Node : IsInjective(table[n])
  BY DEF Init, IsInjective
<1>2. QED
  BY <1>1, BeaconAssumption DEF Init, TypeOK

LEMMA NextTypeOK == TypeOK /\ [Next]_vars => TypeOK'
<1> SUFFICES ASSUME TypeOK, [Next]_vars PROVE TypeOK'
  OBVIOUS
<1> USE DEF idVars, peerVars, world
<1>1. ASSUME NEW n \in Node, Start(n) PROVE TypeOK'
  BY <1>1 DEF Start, TypeOK
<1>2. ASSUME NEW n \in Node, Crash(n) PROVE TypeOK'
  <2>1. table' \in [Node -> Seq(Peer)] /\ \A m \in Node : IsInjective(table'[m])
    BY <1>2 DEF Crash, TypeOK, IsInjective
  <2>2. /\ pc' \in [Node -> {"down", "start", "health", "recv"}]
        /\ sid' \in [Node -> Ids \cup {0}] /\ rid' \in [Node -> Ids \cup {0}]
        /\ next' \in [Node -> 0 .. Indices - 1] /\ collided' \in [Node -> BOOLEAN]
    BY <1>2, BeaconAssumption DEF Crash, TypeOK
  <2>3. /\ telling' \in [Node -> Call \cup {NoPeer}] /\ removing' \in [Node -> Call \cup {NoPeer}]
        /\ net' \subseteq Datagram /\ crashes' \in 0 .. MaxCrashes
        /\ view' \in [Node -> [Ids -> Int]] /\ doubt' \in [Node -> BOOLEAN]
    BY <1>2, BeaconAssumption DEF Crash, TypeOK
  <2>4. QED
    BY <1>2, <2>1, <2>2, <2>3 DEF Crash, TypeOK
<1>3. ASSUME NEW n \in Node, Reserve(n) PROVE TypeOK'
  <2>1. PICK i \in Tried(n) :
           /\ next' = [next EXCEPT ![n] = i]
           /\ rid' = [rid EXCEPT ![n] = CreateId[i]]
           /\ net' = net \cup Multicast(n, "RESERVEID", CreateId[i], rand[n] + 1)
    BY <1>3 DEF Reserve
  <2>2. i \in 0 .. Indices - 1 /\ CreateId[i] \in Ids
    BY TriedType, IdsType
  <2>3. rand[n] + 1 \in 0 .. MaxDraws
    BY <1>3, BeaconAssumption DEF Reserve, TypeOK
  <2>4. net' \subseteq Datagram
    BY <2>1, <2>2, <2>3, MulticastType DEF TypeOK
  <2>5. QED
    BY <1>3, <2>1, <2>2, <2>3, <2>4 DEF Reserve, Round, TypeOK
<1>4. ASSUME NEW n \in Node, Take(n) PROVE TypeOK'
  <2>1. Multicast(n, "BEACON", rid[n], 0) \subseteq Datagram
    <3>1. rid[n] \in Ids \cup {0}
      BY DEF TypeOK
    <3>2. QED
      BY <3>1, BeaconType
  <2>2. doubt' \in [Node -> BOOLEAN]
    BY <1>4 DEF Take, TypeOK
  <2>3. QED
    BY <1>4, <2>1, <2>2 DEF Take, Round, TypeOK
<1>5. ASSUME NEW n \in Node, Announce(n) PROVE TypeOK'
  <2>1. Multicast(n, "BEACON", sid[n], 0) \subseteq Datagram
    <3>1. sid[n] \in Ids \cup {0}
      BY DEF TypeOK
    <3>2. QED
      BY <3>1, BeaconType
  <2>2. QED
    BY <1>5, <2>1 DEF Announce, Round, TypeOK
<1>6. ASSUME NEW n \in Node, NotYet(n) PROVE TypeOK'
  BY <1>6 DEF NotYet, Round, TypeOK
<1>7. ASSUME NEW n \in Node, Tell(n) PROVE TypeOK'
  <2>1. telling[n].peer.id \in Ids
    BY <1>7 DEF Tell, TypeOK, Call, Peer
  <2>2. view' \in [Node -> [Ids -> Int]]
    BY <1>7, <2>1 DEF Tell, TypeOK
  <2>3. QED
    BY <1>7, <2>2 DEF Tell, TypeOK
<1>8. ASSUME NEW n \in Node, Removed(n) PROVE TypeOK'
  <2>1. removing[n].peer.id \in Ids
    BY <1>8 DEF Removed, TypeOK, Call, Peer
  <2>2. view' \in [Node -> [Ids -> Int]]
    BY <1>8, <2>1 DEF Removed, TypeOK
  <2>3. QED
    BY <1>8, <2>2 DEF Removed, TypeOK
<1>9. ASSUME NEW n \in Node, NEW d \in net, Recv(n, d) PROVE TypeOK'
  <2>1. d \in Datagram
    BY DEF TypeOK
  <2>2. pc' \in [Node -> {"down", "start", "health", "recv"}]
    BY <1>9 DEF Recv, TypeOK
  <2>3. CASE RecvBeacon(n, d)
    <3>1. [id |-> d.id, addr |-> d.from] \in Peer
      BY <2>1 DEF Datagram, Peer
    <3>2. /\ table' \in [Node -> Seq(Peer)] /\ \A m \in Node : IsInjective(table[m])'
          /\ telling' \in [Node -> Call \cup {NoPeer}]
      BY <2>3, <3>1, UpdateType DEF RecvBeacon, TypeOK
    <3>3. collided' \in [Node -> BOOLEAN] /\ net' \subseteq Datagram
      BY <2>3 DEF RecvBeacon, TypeOK
    <3>4. QED
      BY <1>9, <2>2, <3>2, <3>3 DEF Recv, TypeOK
  <2>4. CASE RecvReserveId(n, d)
    <3>1. Multicast(n, "BEACON", d.id, 0) \subseteq Datagram
      <4>1. d.id \in Ids \cup {0}
        BY <2>1 DEF Datagram
      <4>2. QED
        BY <4>1, BeaconType
    <3>2. collided' \in [Node -> BOOLEAN] /\ net' \subseteq Datagram
      BY <2>4, <3>1 DEF RecvReserveId, TypeOK
    <3>3. QED
      BY <1>9, <2>2, <2>4, <3>2 DEF Recv, RecvReserveId, TypeOK
  <2>5. QED
    BY <1>9, <2>3, <2>4 DEF Recv
<1>10. ASSUME NEW n \in Node, NEW a \in Node, Expire(n, a) PROVE TypeOK'
  <2>1. PICK k \in DOMAIN table[n] :
           /\ table' = [table EXCEPT ![n] = RemoveAt(@, k)]
           /\ telling' = [telling EXCEPT ![n] = [up |-> FALSE, peer |-> table[n][k]]]
    BY <1>10 DEF Expire
  <2>2. /\ table' \in [Node -> Seq(Peer)] /\ \A m \in Node : IsInjective(table[m])'
        /\ telling' \in [Node -> Call \cup {NoPeer}]
    BY <2>1, ErasedType DEF TypeOK
  <2>3. QED
    BY <1>10, <2>2 DEF Expire, TypeOK
<1>11. ASSUME NEW n \in Node, NEW a \in Node, RemovePeer(n, a) PROVE TypeOK'
  <2>1. PICK k \in DOMAIN table[n] :
           /\ table' = [table EXCEPT ![n] = RemoveAt(@, k)]
           /\ removing' = [removing EXCEPT ![n] = [up |-> FALSE, peer |-> table[n][k]]]
    BY <1>11 DEF RemovePeer
  <2>2. /\ table' \in [Node -> Seq(Peer)] /\ \A m \in Node : IsInjective(table[m])'
        /\ removing' \in [Node -> Call \cup {NoPeer}]
    BY <2>1, ErasedType DEF TypeOK
  <2>3. removes' \in 0 .. MaxRemoves
    BY <1>11, BeaconAssumption DEF RemovePeer, TypeOK
  <2>4. QED
    BY <1>11, <2>2, <2>3 DEF RemovePeer, TypeOK
<1>12. ASSUME NEW d \in net, Lose(d) PROVE TypeOK'
  BY <1>12 DEF Lose, TypeOK, Matters
<1>13. CASE UNCHANGED vars
  BY <1>13 DEF vars, TypeOK
<1>14. QED
  BY <1>1, <1>2, <1>3, <1>4, <1>5, <1>6, <1>7, <1>8, <1>9, <1>10, <1>11, <1>12, <1>13
     DEF Next, Step

\* Ids, tables, callbacks and datagrams are what they claim to be, and no table holds a
\* record twice, however beacons, health checks and remove_peer() interleave.
THEOREM TypeOKAlways == Spec => []TypeOK
BY InitTypeOK, NextTypeOK, PTL DEF Spec

------------------------------------------------------------------------------
(* No two services hold the same id *)

\* A service that is down has no id and asks for none.
DownIsBlank == \A n \in Node : pc[n] = "down" => sid[n] = 0 /\ collided[n]

\* n asks for the id m has, and has heard no objection.
Asks(n, m) == m # n /\ sid[m] # 0 /\ sid[n] = 0 /\ rid[n] = sid[m] /\ ~collided[n]

\* d is what will teach n better: its request on its way to m, or something another
\* service says about the id on its way to n.
Objection(n, m, d) ==
    /\ d \in net /\ d.id = rid[n]
    /\ \/ d.to = n /\ d.from # n
       \/ d.from = n /\ d.to = m /\ d.cmd = "RESERVEID"

\* Why UniqueIds is kept: whoever asks for an id that is taken has an objection under
\* way, or has lost one.
Contested == \A m, n \in Node : Asks(n, m) => doubt[n] \/ \E d \in net : Objection(n, m, d)

UInv == TypeOK /\ DownIsBlank /\ Contested /\ UniqueIds

LEMMA InitUInv == Init => UInv
BY InitTypeOK DEF Init, UInv, DownIsBlank, Contested, Asks, UniqueIds

LEMMA NextDownIsBlank == TypeOK /\ DownIsBlank /\ [Next]_vars => DownIsBlank'
<1> SUFFICES ASSUME TypeOK, DownIsBlank, [Next]_vars PROVE DownIsBlank'
  OBVIOUS
<1> USE DEF idVars, peerVars, world, TypeOK, DownIsBlank, Round
<1>1. ASSUME NEW n \in Node,
             \/ Start(n) \/ Crash(n) \/ Reserve(n) \/ Take(n) \/ Announce(n) \/ NotYet(n)
             \/ Tell(n) \/ Removed(n) \/ \E a \in Node : Expire(n, a) \/ RemovePeer(n, a)
      PROVE  DownIsBlank'
  <2>1. CASE Start(n)
    BY <2>1 DEF Start
  <2>2. CASE Crash(n)
    BY <2>2 DEF Crash
  <2>3. CASE Reserve(n)
    BY <2>3 DEF Reserve
  <2>4. CASE Take(n)
    BY <2>4 DEF Take
  <2>5. CASE Announce(n) \/ NotYet(n)
    BY <2>5 DEF Announce, NotYet
  <2>6. CASE Tell(n) \/ Removed(n) \/ \E a \in Node : Expire(n, a) \/ RemovePeer(n, a)
    BY <2>6 DEF Tell, Removed, Expire, RemovePeer
  <2>7. QED
    BY <1>1, <2>1, <2>2, <2>3, <2>4, <2>5, <2>6
<1>2. ASSUME NEW n \in Node, NEW d \in net, Recv(n, d) PROVE DownIsBlank'
  <2>1. collided' = [collided EXCEPT ![n] = collided'[n]] /\ sid' = sid
    BY <1>2 DEF Recv, RecvBeacon, RecvReserveId
  <2>2. pc' = [pc EXCEPT ![n] = "recv"]
    BY <1>2 DEF Recv
  <2>3. QED
    BY <2>1, <2>2
<1>3. CASE (\E d \in net : Lose(d)) \/ UNCHANGED vars
  BY <1>3 DEF Lose, vars
<1>4. QED
  BY <1>1, <1>2, <1>3 DEF Next, Step

\* A step that leaves the negotiations alone and takes no datagram off the wire.
LEMMA QuietStep ==
    ASSUME Contested, UniqueIds, UNCHANGED <<idVars, doubt>>, net \subseteq net'
    PROVE  Contested' /\ UniqueIds'
<1>1. Contested'
  BY DEF Contested, Asks, Objection, idVars
<1>2. UniqueIds'
  BY DEF UniqueIds, idVars
<1>3. QED
  BY <1>1, <1>2

\* Asking for an id anew: the request goes to whoever has it.
LEMMA ReserveKeeps ==
    ASSUME UInv, NEW k \in Node, Reserve(k)
    PROVE  Contested' /\ UniqueIds'
<1>1. TypeOK /\ DownIsBlank
  BY DEF UInv
<1>2. PICK i \in Tried(k) :
         /\ rid' = [rid EXCEPT ![k] = CreateId[i]]
         /\ net' = net \cup Multicast(k, "RESERVEID", CreateId[i], rand[k] + 1)
  BY DEF Reserve
<1>3. sid' = sid /\ sid[k] = 0 /\ \A n \in Node \ {k} : /\ rid'[n] = rid[n] /\ doubt'[n] = doubt[n]
                                                       /\ collided'[n] = collided[n]
  BY <1>1, <1>2 DEF Reserve, TypeOK
<1>4. UniqueIds'
  BY <1>3 DEF UInv, UniqueIds
<1>5. ASSUME NEW m \in Node, NEW n \in Node, Asks(n, m)'
      PROVE  (doubt[n] \/ \E d \in net : Objection(n, m, d))'
  <2>1. CASE n = k
    <3>0. PICK d : d = [to |-> m, from |-> k, cmd |-> "RESERVEID", id |-> CreateId[i],
                         rand |-> rand[k] + 1]
      OBVIOUS
    <3>1. rid'[n] = CreateId[i] /\ sid[m] = CreateId[i] /\ sid[m] # 0 /\ m # n
      BY <1>1, <1>2, <1>3, <1>5, <2>1 DEF Asks, TypeOK
    <3>2. pc[m] # "down"
      BY <1>1, <3>1 DEF DownIsBlank
    <3>3. d \in net'
      BY <1>2, <3>0, <3>1, <3>2 DEF Multicast
    <3>4. Objection(n, m, d)'
      BY <2>1, <3>0, <3>1, <3>3 DEF Objection
    <3>5. QED
      BY <3>3, <3>4
  <2>2. CASE n # k
    <3>1. Asks(n, m)
      BY <1>3, <1>5, <2>2 DEF Asks
    <3>2. CASE doubt[n]
      BY <1>3, <2>2, <3>2
    <3>3. ASSUME NEW d \in net, Objection(n, m, d) PROVE d \in net' /\ Objection(n, m, d)'
      BY <1>2, <1>3, <2>2, <3>3 DEF Objection
    <3>4. QED
      BY <3>1, <3>2, <3>3 DEF UInv, Contested
  <2>3. QED
    BY <2>1, <2>2
<1>6. QED
  BY <1>4, <1>5 DEF Contested

\* Taking the id: whoever else asks for it is told, and if someone has it, what he
\* said or should have heard is still under way.
LEMMA TakeKeeps ==
    ASSUME UInv, NEW k \in Node, Take(k)
    PROVE  Contested' /\ UniqueIds'
<1>1. TypeOK /\ DownIsBlank
  BY DEF UInv
<1>2. /\ sid[k] = 0 /\ ~collided[k] /\ sid' = [sid EXCEPT ![k] = rid[k]]
      /\ rid' = [rid EXCEPT ![k] = 0] /\ collided' = collided
      /\ net' = net \cup Multicast(k, "BEACON", rid[k], 0)
      /\ doubt' = [doubt EXCEPT ![k] = doubt[k] \/ \E d \in net : Matters(k, d)]
  BY DEF Take
<1>3. \A n \in Node \ {k} : sid'[n] = sid[n] /\ rid'[n] = rid[n] /\ doubt'[n] = doubt[n]
  BY <1>1, <1>2 DEF TypeOK
<1>4. /\ sid'[k] = rid[k] /\ rid'[k] = 0
      /\ doubt'[k] <=> (doubt[k] \/ \E d \in net : Matters(k, d))
  BY <1>1, <1>2 DEF TypeOK
<1>5. ASSUME NEW m \in Node \ {k}, sid[m] # 0, sid[m] = rid[k] PROVE doubt'[k]
  <2>1. Asks(k, m)
    BY <1>2, <1>5 DEF Asks
  <2>2. \A d \in net : Objection(k, m, d) => Matters(k, d)
    BY <1>2, <1>5 DEF Objection, Matters
  <2>3. QED
    BY <1>4, <2>1, <2>2 DEF UInv, Contested
<1>6. UniqueIds'
  <2> SUFFICES ASSUME NEW m \in Node, NEW n \in Node, m # n, sid'[m] # 0, sid'[m] = sid'[n]
               PROVE  doubt'[m] \/ doubt'[n]
    BY DEF UniqueIds
  <2>1. CASE m = k
    BY <1>3, <1>4, <1>5, <2>1
  <2>2. CASE n = k
    BY <1>3, <1>4, <1>5, <2>2
  <2>3. CASE m # k /\ n # k
    BY <1>3, <2>3 DEF UInv, UniqueIds
  <2>4. QED
    BY <2>1, <2>2, <2>3
<1>7. ASSUME NEW m \in Node, NEW n \in Node, Asks(n, m)'
      PROVE  (doubt[n] \/ \E d \in net : Objection(n, m, d))'
  <2>1. n # k
    BY <1>4, <1>7 DEF Asks
  <2>2. CASE m = k
    <3>0. PICK d : d = [to |-> n, from |-> k, cmd |-> "BEACON", id |-> rid[k], rand |-> 0]
      OBVIOUS
    <3>1. rid[k] # 0 /\ rid'[n] = rid[k] /\ ~collided[n]
      BY <1>2, <1>4, <1>7, <2>2 DEF Asks
    <3>2. pc[n] # "down"
      BY <1>1, <3>1 DEF DownIsBlank
    <3>3. d \in net'
      BY <1>2, <3>0, <3>1, <3>2 DEF Multicast
    <3>4. Objection(n, m, d)'
      BY <2>1, <3>0, <3>1, <3>3 DEF Objection
    <3>5. QED
      BY <3>3, <3>4
  <2>3. CASE m # k
    <3>1. Asks(n, m)
      BY <1>2, <1>3, <1>7, <2>1, <2>3 DEF Asks
    <3>2. ASSUME NEW d \in net, Objection(n, m, d) PROVE d \in net' /\ Objection(n, m, d)'
      BY <1>2, <1>3, <2>1, <3>2 DEF Objection
    <3>3. QED
      BY <1>3, <2>1, <3>1, <3>2 DEF UInv, Contested
  <2>4. QED
    BY <2>2, <2>3
<1>8. QED
  BY <1>6, <1>7 DEF Contested

\* A service that dies: what was on its way to it does not matter any more.
LEMMA CrashKeeps ==
    ASSUME UInv, NEW k \in Node, Crash(k)
    PROVE  Contested' /\ UniqueIds'
<1>1. TypeOK
  BY DEF UInv
<1>2. sid'[k] = 0 /\ collided'[k]
  BY <1>1 DEF Crash, TypeOK
<1>3. \A n \in Node \ {k} : /\ sid'[n] = sid[n] /\ rid'[n] = rid[n] /\ doubt'[n] = doubt[n]
                            /\ collided'[n] = collided[n]
  BY <1>1 DEF Crash, TypeOK
<1>4. net' = {d \in net : d.to # k}
  BY DEF Crash
<1>5. UniqueIds'
  BY <1>2, <1>3 DEF UInv, UniqueIds
<1>6. ASSUME NEW m \in Node, NEW n \in Node, Asks(n, m)'
      PROVE  (doubt[n] \/ \E d \in net : Objection(n, m, d))'
  <2>1. m # k /\ n # k
    BY <1>2, <1>6 DEF Asks
  <2>2. Asks(n, m)
    BY <1>3, <1>6, <2>1 DEF Asks
  <2>3. ASSUME NEW d \in net, Objection(n, m, d) PROVE d \in net' /\ Objection(n, m, d)'
    BY <1>3, <1>4, <2>1, <2>3 DEF Objection
  <2>4. QED
    BY <1>3, <2>1, <2>2, <2>3 DEF UInv, Contested
<1>7. QED
  BY <1>5, <1>6 DEF Contested

\* A datagram received: the holder of an id objects to a request for it, and whoever
\* hears of the id it asks for gives up.
LEMMA RecvKeeps ==
    ASSUME UInv, NEW k \in Node, NEW d \in net, Recv(k, d)
    PROVE  Contested' /\ UniqueIds'
<1>1. TypeOK /\ DownIsBlank
  BY DEF UInv
<1>2. sid' = sid /\ rid' = rid /\ doubt' = doubt /\ d.to = k /\ net \ {d} \subseteq net'
  BY DEF Recv, RecvBeacon, RecvReserveId
<1>3. \A n \in Node : collided[n] => collided'[n]
  BY <1>1 DEF Recv, RecvBeacon, RecvReserveId, TypeOK
<1>4. d.from # k /\ d.id = rid[k] => collided'[k]
  BY <1>1 DEF Recv, RecvBeacon, RecvReserveId, TypeOK
<1>5. UniqueIds'
  BY <1>2 DEF UInv, UniqueIds
<1>6. ASSUME NEW m \in Node, NEW n \in Node, Asks(n, m)'
      PROVE  (doubt[n] \/ \E e \in net : Objection(n, m, e))'
  <2>1. Asks(n, m)
    BY <1>2, <1>3, <1>6 DEF Asks
  <2>2. CASE doubt[n]
    BY <1>2, <2>2
  <2>3. ASSUME NEW e \in net, Objection(n, m, e) PROVE \E o \in net' : Objection(n, m, o)'
    <3>1. CASE e # d
      <4>1. e \in net' /\ Objection(n, m, e)'
        BY <1>2, <2>3, <3>1 DEF Objection
      <4>2. QED
        BY <4>1
    <3>2. CASE e = d
      <4> DEFINE o == [to |-> n, from |-> m, cmd |-> "BEACON", id |-> d.id, rand |-> 0]
      <4>1. d.id = rid[n] /\ d.from = n /\ d.to = m /\ d.cmd = "RESERVEID"
        BY <1>2, <1>4, <1>6, <2>3, <3>2 DEF Objection, Asks
      <4>2. k = m /\ d.id = sid[m] /\ d.id # 0 /\ m # n /\ pc[n] # "down"
        BY <1>1, <1>2, <2>1, <4>1 DEF Asks, DownIsBlank
      <4>3. net' = (net \ {d}) \cup Multicast(m, "BEACON", d.id, 0)
        BY <4>1, <4>2 DEF Recv, RecvReserveId
      <4>4. o \in net'
        BY <4>2, <4>3 DEF Multicast
      <4>5. Objection(n, m, o)'
        BY <1>2, <4>1, <4>2, <4>4 DEF Objection
      <4>6. QED
        BY <4>4, <4>5
    <3>3. QED
      BY <3>1, <3>2
  <2>4. QED
    BY <2>1, <2>2, <2>3 DEF UInv, Contested
<1>7. QED
  BY <1>5, <1>6 DEF Contested

\* A datagram lost: if it was an objection, the id is taken in doubt.
LEMMA LoseKeeps ==
    ASSUME UInv, NEW d \in net, Lose(d)
    PROVE  Contested' /\ UniqueIds'
<1>1. sid' = sid /\ rid' = rid /\ collided' = collided /\ net' = net \ {d}
  BY DEF Lose, idVars
<1>2. \A n \in Node : doubt'[n] <=> doubt[n] \/ Matters(n, d)
  BY DEF Lose
<1>3. UniqueIds'
  BY <1>1, <1>2 DEF UInv, UniqueIds
<1>4. ASSUME NEW m \in Node, NEW n \in Node, Asks(n, m)'
      PROVE  (doubt[n] \/ \E e \in net : Objection(n, m, e))'
  <2>1. Asks(n, m)
    BY <1>1, <1>4 DEF Asks
  <2>2. ASSUME NEW e \in net, Objection(n, m, e)
        PROVE  doubt'[n] \/ (e \in net' /\ Objection(n, m, e)')
    BY <1>1, <1>2, <2>1, <2>2 DEF Objection, Matters, Asks
  <2>3. QED
    BY <1>2, <2>1, <2>2 DEF UInv, Contested
<1>5. QED
  BY <1>3, <1>4 DEF Contested

LEMMA NextUInv == UInv /\ [Next]_vars => UInv'
<1> SUFFICES ASSUME UInv, [Next]_vars PROVE UInv'
  OBVIOUS
<1>1. TypeOK' /\ DownIsBlank'
  BY NextTypeOK, NextDownIsBlank DEF UInv
<1>2. ASSUME NEW n \in Node,
             \/ Start(n) \/ Announce(n) \/ NotYet(n) \/ Tell(n) \/ Removed(n)
             \/ \E a \in Node : Expire(n, a) \/ RemovePeer(n, a)
      PROVE  Contested' /\ UniqueIds'
  <2>1. UNCHANGED <<idVars, doubt>> /\ net \subseteq net'
    BY <1>2 DEF Start, Announce, NotYet, Tell, Removed, Expire, RemovePeer
  <2>2. QED
    BY <2>1, QuietStep DEF UInv
<1>3. ASSUME UNCHANGED vars PROVE Contested' /\ UniqueIds'
  <2>1. UNCHANGED <<idVars, doubt>> /\ net \subseteq net'
    BY <1>3 DEF vars
  <2>2. QED
    BY <2>1, QuietStep DEF UInv
<1>4. Contested' /\ UniqueIds'
  BY <1>2, <1>3, ReserveKeeps, TakeKeeps, CrashKeeps, RecvKeeps, LoseKeeps DEF Next, Step
<1>5. QED
  BY <1>1, <1>4 DEF UInv

\* Whatever the services ask for, in whatever order their datagrams arrive and whoever
\* dies meanwhile: two of them hold the same id only if a request or an objection was
\* lost or late when one took it.
THEOREM UniqueIdsAlways == Spec => []UniqueIds
<1>1. UInv => UniqueIds
  BY DEF UInv
<1>2. QED
  BY <1>1, InitUInv, NextUInv, PTL DEF Spec

------------------------------------------------------------------------------
(* The application is told what the table holds *)

\* remove_peer() makes no peerup.
RemovesOnly == \A n \in Node : removing[n] # NoPeer => ~removing[n].up

TInv == TypeOK /\ RemovesOnly /\ ToldWhatTableHolds

\* Callbacks under way.
Ups(c, i)   == Pending(c, TRUE, i)
Downs(c, i) == Pending(c, FALSE, i)

\* What n's application was told of id i is what its table and its pending callbacks say.
Told(n, i) ==
    view[n][i] = CountOf(table[n], i) - Ups(telling[n], i)
                    + Downs(telling[n], i) + Downs(removing[n], i)

LEMMA ToldIs == ToldWhatTableHolds <=> \A n \in Node, i \in Ids : Told(n, i)
BY DEF ToldWhatTableHolds, Told, Count, CountOf, At, Ups, Downs

LEMMA ToldIsNext == ToldWhatTableHolds' <=> \A n \in Node, i \in Ids : Told(n, i)'
BY DEF ToldWhatTableHolds, Told, Count, CountOf, At, Ups, Downs

LEMMA PendingUp ==
    ASSUME NEW p \in Peer, NEW c, c = [up |-> TRUE, peer |-> p], NEW i
    PROVE  Ups(c, i) = (IF p.id = i THEN 1 ELSE 0) /\ Downs(c, i) = 0
<1>1. [up |-> TRUE, peer |-> p] \in Call
  BY DEF Call
<1>2. c # NoPeer
  BY <1>1, BeaconAssumption
<1>3. c.up = TRUE /\ c.peer = p
  OBVIOUS
<1>4. QED
  BY <1>2, <1>3 DEF Ups, Downs, Pending

LEMMA PendingDown ==
    ASSUME NEW p \in Peer, NEW c, c = [up |-> FALSE, peer |-> p], NEW i
    PROVE  Ups(c, i) = 0 /\ Downs(c, i) = (IF p.id = i THEN 1 ELSE 0)
<1>1. [up |-> FALSE, peer |-> p] \in Call
  BY DEF Call
<1>2. c # NoPeer
  BY <1>1, BeaconAssumption
<1>3. c.up = FALSE /\ c.peer = p
  OBVIOUS
<1>4. QED
  BY <1>2, <1>3 DEF Ups, Downs, Pending

LEMMA PendingNone == \A i : Ups(NoPeer, i) = 0 /\ Downs(NoPeer, i) = 0
BY DEF Ups, Downs, Pending

LEMMA PendingType == \A c, i : Ups(c, i) \in {0, 1} /\ Downs(c, i) \in {0, 1}
BY DEF Ups, Downs, Pending

LEMMA InitTInv == Init => TInv
<1> SUFFICES ASSUME Init PROVE TInv
  OBVIOUS
<1>1. \A i : At(<<>>, i) = {}
  BY DEF At
<1>2. ASSUME NEW n \in Node, NEW i \in Ids PROVE Told(n, i)
  <2>1. CountOf(table[n], i) = 0
    BY <1>1, FS_EmptySet DEF Init, CountOf
  <2>2. view[n][i] = 0 /\ telling[n] = NoPeer /\ removing[n] = NoPeer
    BY DEF Init
  <2>3. QED
    BY <2>1, <2>2, PendingNone DEF Told
<1>3. QED
  BY <1>2, InitTypeOK, ToldIs DEF Init, TInv, RemovesOnly

\* A record goes: one record less, one callback more.
LEMMA ErasedTold ==
    ASSUME TInv, NEW n \in Node, NEW k \in DOMAIN table[n],
           table' = [table EXCEPT ![n] = RemoveAt(@, k)], view' = view,
           \/ /\ telling[n] = NoPeer /\ removing' = removing
              /\ telling' = [telling EXCEPT ![n] = [up |-> FALSE, peer |-> table[n][k]]]
           \/ /\ removing[n] = NoPeer /\ telling' = telling
              /\ removing' = [removing EXCEPT ![n] = [up |-> FALSE, peer |-> table[n][k]]]
    PROVE  RemovesOnly' /\ ToldWhatTableHolds'
<1>1. /\ table \in [Node -> Seq(Peer)] /\ telling \in [Node -> Call \cup {NoPeer}]
      /\ removing \in [Node -> Call \cup {NoPeer}] /\ view \in [Node -> [Ids -> Int]]
  BY DEF TInv, TypeOK
<1>2. PICK p \in Peer : p = table[n][k]
  BY <1>1
<1>3. PICK call \in Call : call = [up |-> FALSE, peer |-> p]
  BY DEF Call
<1>4. RemovesOnly'
  <2> SUFFICES ASSUME NEW m \in Node, removing'[m] # NoPeer PROVE ~removing'[m].up
    BY DEF RemovesOnly
  <2>1. removing'[m] = removing[m] \/ removing'[m] = call
    BY <1>1, <1>2, <1>3
  <2>2. ~call.up
    BY <1>3
  <2>3. QED
    BY <2>1, <2>2 DEF TInv, RemovesOnly
<1>5. ASSUME NEW m \in Node, NEW i \in Ids PROVE Told(m, i)'
  <2>1. Told(m, i)
    BY ToldIs DEF TInv
  <2>2. CASE m # n
    <3>1. /\ view'[m] = view[m] /\ table'[m] = table[m] /\ telling'[m] = telling[m]
          /\ removing'[m] = removing[m]
      BY <1>1, <2>2
    <3>2. QED
      BY <2>1, <3>1 DEF Told
  <2>3. CASE m = n
    <3>1. CountOf(table'[n], i) = IF p.id = i THEN CountOf(table[n], i) - 1
                                              ELSE CountOf(table[n], i)
      BY <1>1, <1>2, ErasedCount
    <3>2. CountOf(table[n], i) \in Nat /\ view[n][i] \in Int
      BY <1>1, AtFinite
    <3>3. /\ Ups(call, i) = 0 /\ Downs(call, i) = (IF p.id = i THEN 1 ELSE 0)
          /\ Ups(NoPeer, i) = 0 /\ Downs(NoPeer, i) = 0
      BY <1>3, PendingDown, PendingNone
    <3>4. /\ Ups(telling[n], i) \in {0, 1} /\ Downs(telling[n], i) \in {0, 1}
          /\ Downs(removing[n], i) \in {0, 1}
      BY PendingType
    <3>5. \/ telling[n] = NoPeer /\ telling'[n] = call /\ removing'[n] = removing[n]
          \/ removing[n] = NoPeer /\ removing'[n] = call /\ telling'[n] = telling[n]
      BY <1>1, <1>2, <1>3
    <3>6. CountOf(table[n], i) = view[n][i] + Ups(telling[n], i)
             - Downs(telling[n], i) - Downs(removing[n], i)
      BY <2>1, <2>3, <3>2, <3>4 DEF Told
    <3>7. view'[n][i] = CountOf(table'[n], i) - Ups(telling'[n], i)
             + Downs(telling'[n], i) + Downs(removing'[n], i)
      <4>1. CASE telling[n] = NoPeer /\ telling'[n] = call /\ removing'[n] = removing[n]
        BY <3>1, <3>2, <3>3, <3>4, <3>6, <4>1
      <4>2. CASE removing[n] = NoPeer /\ removing'[n] = call /\ telling'[n] = telling[n]
        BY <3>1, <3>2, <3>3, <3>4, <3>6, <4>2
      <4>3. QED
        BY <3>5, <4>1, <4>2
    <3>8. QED
      BY <2>3, <3>7 DEF Told
  <2>4. QED
    BY <2>2, <2>3
<1>6. QED
  BY <1>4, <1>5, ToldIsNext

\* A record is added: one record more, one callback more.
LEMMA UpdateTold ==
    ASSUME TInv, NEW n \in Node, NEW p \in Peer, Update(n, p), telling[n] = NoPeer,
           UNCHANGED <<view, removing>>
    PROVE  RemovesOnly' /\ ToldWhatTableHolds'
<1>1. /\ table \in [Node -> Seq(Peer)] /\ telling \in [Node -> Call \cup {NoPeer}]
      /\ view \in [Node -> [Ids -> Int]]
  BY DEF TInv, TypeOK
<1>2. PICK call \in Call : call = [up |-> TRUE, peer |-> p]
  BY DEF Call
<1>3. RemovesOnly'
  BY DEF TInv, RemovesOnly
<1>4. ASSUME NEW m \in Node, NEW i \in Ids PROVE Told(m, i)'
  <2>1. Told(m, i)
    BY ToldIs DEF TInv
  <2>2. CASE UNCHANGED <<table, telling>> \/ m # n
    <3>1. /\ view'[m] = view[m] /\ table'[m] = table[m] /\ telling'[m] = telling[m]
          /\ removing'[m] = removing[m]
      BY <1>1, <2>2 DEF Update
    <3>2. QED
      BY <2>1, <3>1 DEF Told
  <2>3. CASE m = n /\ table' = [table EXCEPT ![n] = Append(@, p)]
             /\ telling' = [telling EXCEPT ![n] = call]
    <3>1. CountOf(table'[n], i) = IF p.id = i THEN CountOf(table[n], i) + 1
                                              ELSE CountOf(table[n], i)
      BY <1>1, <2>3, AppendedCount
    <3>2. CountOf(table[n], i) \in Nat /\ view[n][i] \in Int
      BY <1>1, AtFinite
    <3>3. /\ Ups(call, i) = (IF p.id = i THEN 1 ELSE 0) /\ Downs(call, i) = 0
          /\ Ups(NoPeer, i) = 0 /\ Downs(NoPeer, i) = 0
      BY <1>2, PendingUp, PendingNone
    <3>4. Downs(removing[n], i) \in {0, 1}
      BY PendingType
    <3>5. telling[n] = NoPeer /\ telling'[n] = call
      BY <1>1, <2>3
    <3>6. view[n][i] = CountOf(table[n], i) + Downs(removing[n], i)
      BY <2>1, <2>3, <3>2, <3>3, <3>4, <3>5 DEF Told
    <3>7. view'[n][i] = CountOf(table'[n], i) - Ups(telling'[n], i)
             + Downs(telling'[n], i) + Downs(removing'[n], i)
      BY <3>1, <3>2, <3>3, <3>4, <3>5, <3>6
    <3>8. QED
      BY <2>3, <3>7 DEF Told
  <2>4. QED
    BY <1>2, <2>2, <2>3 DEF Update
<1>5. QED
  BY <1>3, <1>4, ToldIsNext

\* The worker's callback is made.
LEMMA TellTold ==
    ASSUME TInv, NEW n \in Node, Tell(n)
    PROVE  RemovesOnly' /\ ToldWhatTableHolds'
<1>1. /\ table \in [Node -> Seq(Peer)] /\ telling \in [Node -> Call \cup {NoPeer}]
      /\ view \in [Node -> [Ids -> Int]]
  BY DEF TInv, TypeOK
<1>2. /\ table' = table /\ removing' = removing /\ telling[n] # NoPeer
      /\ telling' = [telling EXCEPT ![n] = NoPeer]
      /\ view' = [view EXCEPT ![n][telling[n].peer.id] = @ + IF telling[n].up THEN 1 ELSE -1]
  BY DEF Tell
<1>3. PICK up \in BOOLEAN, p \in Peer : telling[n] = [up |-> up, peer |-> p]
  BY <1>1, <1>2 DEF Call
<1>4. p.id \in Ids
  BY DEF Peer
<1>5. view' = [view EXCEPT ![n][p.id] = @ + IF up THEN 1 ELSE -1]
  BY <1>2, <1>3
<1>6. RemovesOnly'
  BY <1>2 DEF TInv, RemovesOnly
<1>7. ASSUME NEW m \in Node, NEW i \in Ids PROVE Told(m, i)'
  <2>1. Told(m, i)
    BY ToldIs DEF TInv
  <2>2. CASE m # n
    <3>1. view'[m] = view[m] /\ table'[m] = table[m] /\ telling'[m] = telling[m]
          /\ removing'[m] = removing[m]
      BY <1>1, <1>2, <1>5, <2>2
    <3>2. QED
      BY <2>1, <3>1 DEF Told
  <2>3. CASE m = n
    <3>1. CountOf(table[n], i) \in Nat /\ view[n][i] \in Int
      BY <1>1, AtFinite
    <3>2. Downs(removing[n], i) \in {0, 1}
      BY PendingType
    <3>3. telling'[n] = NoPeer /\ table'[n] = table[n] /\ removing'[n] = removing[n]
      BY <1>1, <1>2
    <3>4. view'[n][i] = CountOf(table[n], i) + Downs(removing[n], i)
      <4>1. CASE up
        <5>1. telling[n] = [up |-> TRUE, peer |-> p]
          BY <1>3, <4>1
        <5>2. Ups(telling[n], i) = (IF p.id = i THEN 1 ELSE 0) /\ Downs(telling[n], i) = 0
          BY <5>1, PendingUp
        <5>3. view'[n][i] = IF p.id = i THEN view[n][i] + 1 ELSE view[n][i]
          BY <1>1, <1>4, <1>5, <4>1
        <5>4. view[n][i] = CountOf(table[n], i) - Ups(telling[n], i)
                              + Downs(telling[n], i) + Downs(removing[n], i)
          BY <2>1, <2>3 DEF Told
        <5>5. QED
          BY <3>1, <3>2, <5>2, <5>3, <5>4
      <4>2. CASE ~up
        <5>1. telling[n] = [up |-> FALSE, peer |-> p]
          BY <1>3, <4>2
        <5>2. Ups(telling[n], i) = 0 /\ Downs(telling[n], i) = (IF p.id = i THEN 1 ELSE 0)
          BY <5>1, PendingDown
        <5>3. view'[n][i] = IF p.id = i THEN view[n][i] - 1 ELSE view[n][i]
          BY <1>1, <1>4, <1>5, <4>2
        <5>4. view[n][i] = CountOf(table[n], i) - Ups(telling[n], i)
                              + Downs(telling[n], i) + Downs(removing[n], i)
          BY <2>1, <2>3 DEF Told
        <5>5. QED
          BY <3>1, <3>2, <5>2, <5>3, <5>4
      <4>3. QED
        BY <4>1, <4>2
    <3>5. Ups(telling'[n], i) = 0 /\ Downs(telling'[n], i) = 0
      BY <3>3, PendingNone
    <3>6. view'[n][i] = CountOf(table'[n], i) - Ups(telling'[n], i)
             + Downs(telling'[n], i) + Downs(removing'[n], i)
      BY <3>1, <3>2, <3>3, <3>4, <3>5
    <3>7. QED
      BY <2>3, <3>6 DEF Told
  <2>4. QED
    BY <2>2, <2>3
<1>8. QED
  BY <1>6, <1>7, ToldIsNext

\* The callback of remove_peer() is made.
LEMMA RemovedTold ==
    ASSUME TInv, NEW n \in Node, Removed(n)
    PROVE  RemovesOnly' /\ ToldWhatTableHolds'
<1>1. /\ table \in [Node -> Seq(Peer)] /\ removing \in [Node -> Call \cup {NoPeer}]
      /\ view \in [Node -> [Ids -> Int]]
  BY DEF TInv, TypeOK
<1>2. /\ table' = table /\ telling' = telling /\ removing[n] # NoPeer
      /\ removing' = [removing EXCEPT ![n] = NoPeer]
      /\ view' = [view EXCEPT ![n][removing[n].peer.id] = @ - 1]
  BY DEF Removed
<1>3. PICK p \in Peer : removing[n] = [up |-> FALSE, peer |-> p]
  BY <1>1, <1>2 DEF Call, TInv, RemovesOnly
<1>4. p.id \in Ids
  BY DEF Peer
<1>5. view' = [view EXCEPT ![n][p.id] = @ - 1]
  BY <1>2, <1>3
<1>6. RemovesOnly'
  BY <1>1, <1>2 DEF TInv, RemovesOnly
<1>7. ASSUME NEW m \in Node, NEW i \in Ids PROVE Told(m, i)'
  <2>1. Told(m, i)
    BY ToldIs DEF TInv
  <2>2. CASE m # n
    <3>1. view'[m] = view[m] /\ table'[m] = table[m] /\ telling'[m] = telling[m]
          /\ removing'[m] = removing[m]
      BY <1>1, <1>2, <1>5, <2>2
    <3>2. QED
      BY <2>1, <3>1 DEF Told
  <2>3. CASE m = n
    <3>1. CountOf(table[n], i) \in Nat /\ view[n][i] \in Int
      BY <1>1, AtFinite
    <3>2. Ups(telling[n], i) \in {0, 1} /\ Downs(telling[n], i) \in {0, 1}
      BY PendingType
    <3>3. removing'[n] = NoPeer /\ table'[n] = table[n] /\ telling'[n] = telling[n]
      BY <1>1, <1>2
    <3>4. Downs(removing[n], i) = (IF p.id = i THEN 1 ELSE 0) /\ Downs(removing'[n], i) = 0
      BY <1>3, <3>3, PendingDown, PendingNone
    <3>5. view'[n][i] = IF p.id = i THEN view[n][i] - 1 ELSE view[n][i]
      BY <1>1, <1>4, <1>5
    <3>6. view[n][i] = CountOf(table[n], i) - Ups(telling[n], i)
                          + Downs(telling[n], i) + Downs(removing[n], i)
      BY <2>1, <2>3 DEF Told
    <3>7. view'[n][i] = CountOf(table'[n], i) - Ups(telling'[n], i)
             + Downs(telling'[n], i) + Downs(removing'[n], i)
      BY <3>1, <3>2, <3>3, <3>4, <3>5, <3>6
    <3>8. QED
      BY <2>3, <3>7 DEF Told
  <2>4. QED
    BY <2>2, <2>3
<1>8. QED
  BY <1>6, <1>7, ToldIsNext

\* A service that dies takes its table and what its application knew with it.
LEMMA CrashTold ==
    ASSUME TInv, NEW n \in Node, Crash(n)
    PROVE  RemovesOnly' /\ ToldWhatTableHolds'
<1>1. /\ table \in [Node -> Seq(Peer)] /\ removing \in [Node -> Call \cup {NoPeer}]
      /\ telling \in [Node -> Call \cup {NoPeer}] /\ view \in [Node -> [Ids -> Int]]
  BY DEF TInv, TypeOK
<1>2. /\ table' = [table EXCEPT ![n] = <<>>] /\ telling' = [telling EXCEPT ![n] = NoPeer]
      /\ removing' = [removing EXCEPT ![n] = NoPeer]
      /\ view' = [view EXCEPT ![n] = [i \in Ids |-> 0]]
  BY DEF Crash
<1>3. RemovesOnly'
  BY <1>1, <1>2 DEF TInv, RemovesOnly
<1>4. ASSUME NEW m \in Node, NEW i \in Ids PROVE Told(m, i)'
  <2>1. CASE m # n
    <3>1. Told(m, i)
      BY ToldIs DEF TInv
    <3>2. view'[m] = view[m] /\ table'[m] = table[m] /\ telling'[m] = telling[m]
          /\ removing'[m] = removing[m]
      BY <1>1, <1>2, <2>1
    <3>3. QED
      BY <3>1, <3>2 DEF Told
  <2>2. CASE m = n
    <3>1. table'[m] = <<>> /\ telling'[m] = NoPeer /\ removing'[m] = NoPeer /\ view'[m][i] = 0
      BY <1>1, <1>2, <2>2
    <3>2. At(<<>>, i) = {}
      BY DEF At
    <3>3. CountOf(table'[m], i) = 0
      BY <3>1, <3>2, FS_EmptySet DEF CountOf
    <3>4. QED
      BY <3>1, <3>3, PendingNone DEF Told
  <2>3. QED
    BY <2>1, <2>2
<1>5. QED
  BY <1>3, <1>4, ToldIsNext

LEMMA NextTInv == TInv /\ [Next]_vars => TInv'
<1> SUFFICES ASSUME TInv, [Next]_vars PROVE TInv'
  OBVIOUS
<1> USE DEF idVars, peerVars, world
<1>1. TypeOK /\ TypeOK'
  BY NextTypeOK DEF TInv
<1>2. ASSUME UNCHANGED peerVars PROVE RemovesOnly' /\ ToldWhatTableHolds'
  BY <1>2 DEF TInv, RemovesOnly, ToldWhatTableHolds, Count
<1>3. ASSUME NEW n \in Node,
             \/ Start(n) \/ Reserve(n) \/ Take(n) \/ Announce(n) \/ NotYet(n)
      PROVE  RemovesOnly' /\ ToldWhatTableHolds'
  BY <1>2, <1>3 DEF Start, Reserve, Take, Announce, NotYet
<1>4. ASSUME NEW n \in Node, NEW a \in Node, Expire(n, a)
      PROVE  RemovesOnly' /\ ToldWhatTableHolds'
  BY <1>4, ErasedTold DEF Expire
<1>5. ASSUME NEW n \in Node, NEW a \in Node, RemovePeer(n, a)
      PROVE  RemovesOnly' /\ ToldWhatTableHolds'
  BY <1>5, ErasedTold DEF RemovePeer
<1>6. ASSUME NEW n \in Node, NEW d \in net, Recv(n, d)
      PROVE  RemovesOnly' /\ ToldWhatTableHolds'
  <2>1. [id |-> d.id, addr |-> d.from] \in Peer
    BY <1>1 DEF TypeOK, Datagram, Peer
  <2>2. CASE UNCHANGED <<table, telling>>
    BY <1>2, <1>6, <2>2 DEF Recv
  <2>3. CASE Update(n, [id |-> d.id, addr |-> d.from])
    BY <1>6, <2>1, <2>3, UpdateTold DEF Recv
  <2>4. QED
    BY <1>6, <2>2, <2>3 DEF Recv, RecvBeacon, RecvReserveId
<1>7. ASSUME (\E d \in net : Lose(d)) \/ UNCHANGED vars
      PROVE  RemovesOnly' /\ ToldWhatTableHolds'
  BY <1>2, <1>7 DEF Lose, vars
<1>8. RemovesOnly' /\ ToldWhatTableHolds'
  BY <1>3, <1>4, <1>5, <1>6, <1>7, CrashTold, TellTold, RemovedTold DEF Next, Step
<1>9. QED
  BY <1>1, <1>8 DEF TInv

\* Whatever beacons come, records time out and remove_peer() takes out meanwhile: the
\* application is told of every record that comes and of every record that goes, once.
THEOREM ToldWhatTableHoldsAlways == Spec => []ToldWhatTableHolds
<1>1. TInv => ToldWhatTableHolds
  BY DEF TInv
<1>2. QED
  BY <1>1, InitTInv, NextTInv, PTL DEF Spec
==============================================================================
