------------------------ MODULE NetEngineEventsProofs ------------------------
(***************************************************************************)
(* NetEngine implements SocketEvents: under the mapping of NetEngineEvents  *)
(* every behaviour of the engine is one the abstract specification allows,  *)
(* for any number of connections, listeners, application threads, inboxes   *)
(* and threads.                                                             *)
(***************************************************************************)
EXTENDS NetEngineEvents, NetEngineWorkerProofs

------------------------------------------------------------------------------
(* The mapping.  By IInv the CHOOSEs of HomeOf and TellerOf have one candidate.  *)

Tells(t, c) == cb[t] # "none" /\ cur[t] = c

LEMMA OneTeller ==
    ASSUME TypeOK, ThreadOK, SingleOwner, NoDanglingUse, NEW c \in Tcps
    PROVE  /\ \A t, u \in Thread : Tells(t, c) /\ Tells(u, c) => t = u
           /\ \A t, u \in Thread : Tells(t, c) /\ InList(u, c) => t = u
           /\ \A t \in Thread : Tells(t, c) => mem[c] = "live"
           /\ \A t \in Thread : Tells(t, c) /\ cb[t] # "accepted" => InList(t, c)
<1>1. Owned(c)
  BY DEF SingleOwner
<1>2. \A t \in Thread : Tells(t, c) => InList(t, c) \/ Accepting(t, c)
  BY EngineAssumption DEF NoDanglingUse, Tells, Tcps
<1>3. \A t \in Thread : Accepting(t, c) => t = 0
  BY DEF ThreadOK, Accepting
<1>4. QED
  BY <1>1, <1>2, <1>3, OwnedElsewhere DEF ListOwns, Accepting

\* Where c is, seen from the abstract side.
Placed(c) ==
    /\ \A t \in Thread : HomeOf(c) = t <=> InList(t, c)
    /\ (\A t \in Thread : ~InList(t, c)) => HomeOf(c) = Nowhere
    /\ \A t \in Thread : TellerOf(c) = t <=> Tells(t, c)
    /\ (\A t \in Thread : ~Tells(t, c)) => TellerOf(c) = Nowhere /\ ToldOf(c) = "none"
    /\ \A t \in Thread : Tells(t, c) => ToldOf(c) = cb[t]

LEMMA PlacedNow == IInv => \A c \in Conn : Placed(c)
<1> SUFFICES ASSUME TypeOK, ThreadOK, SingleOwner, NoDanglingUse, NEW c \in Conn
             PROVE  Placed(c)
  BY DEF IInv
<1>0. c \in Tcps
  BY DEF Tcps
<1>1. \A t, u \in Thread : InList(t, c) /\ InList(u, c) => t = u
  BY <1>0 DEF SingleOwner, Owned, ListOwns
<1>2. \A t, u \in Thread : Tells(t, c) /\ Tells(u, c) => t = u
  BY <1>0, OneTeller
<1>3. /\ \A t \in Thread : HomeOf(c) = t <=> InList(t, c)
      /\ (\A t \in Thread : ~InList(t, c)) => HomeOf(c) = Nowhere
  BY <1>1, NowhereAssumption DEF HomeOf, InList
<1>4. /\ \A t \in Thread : TellerOf(c) = t <=> Tells(t, c)
      /\ (\A t \in Thread : ~Tells(t, c)) => TellerOf(c) = Nowhere
  BY <1>2, NowhereAssumption DEF TellerOf, Tells
<1>5. QED
  BY <1>3, <1>4, NowhereAssumption DEF Placed, ToldOf

LEMMA PlacedNext == (IInv => \A c \in Conn : Placed(c))'
BY PlacedNow, PTL

\* What the application sees of c does not change.
Unseen(c) ==
    /\ PhaseOf(c)' = PhaseOf(c)
    /\ HomeOf(c)' = HomeOf(c)
    /\ TellerOf(c)' = TellerOf(c)
    /\ ToldOf(c)' = ToldOf(c)

LEMMA SamePhase ==
    ASSUME NEW c, mem'[c] = mem[c], tcp'[c].state = tcp[c].state
    PROVE  PhaseOf(c)' = PhaseOf(c)
BY DEF PhaseOf

LEMMA SamePlace ==
    ASSUME NEW c, Placed(c), Placed(c)',
           \A t \in Thread : InList(t, c)' <=> InList(t, c),
           \A t \in Thread : Tells(t, c)' <=> Tells(t, c),
           \A t \in Thread : Tells(t, c) => cb'[t] = cb[t]
    PROVE  /\ HomeOf(c)' = HomeOf(c)
           /\ TellerOf(c)' = TellerOf(c)
           /\ ToldOf(c)' = ToldOf(c)
BY DEF Placed

\* A step of thread t on the object s: all others are left alone.
Local(t, s) ==
    /\ \A r \in Tcps \ {s} : mem'[r] = mem[r] /\ tcp'[r] = tcp[r]
    /\ \A r \in Tcps \ {s} : \A u \in Thread : r \in sockets'[u] <=> r \in sockets[u]
    /\ \A u \in Thread \ {t} : cb'[u] = cb[u] /\ cur'[u] = cur[u]
    /\ UNCHANGED <<cb, cur>> \/ (cur[t] \in {NoTcp, s} /\ cur'[t] \in {NoTcp, s})
    /\ runflag' = runflag

LEMMA OthersUnseen ==
    ASSUME IInv, IInv', NEW t \in Thread, NEW s, Local(t, s), NEW c \in Conn, c # s
    PROVE  Unseen(c)
<1>1. Placed(c) /\ Placed(c)'
  BY PlacedNow, PlacedNext
<1>2. c \in Tcps /\ c # NoTcp
  BY EngineAssumption DEF Tcps
<1>3. /\ mem'[c] = mem[c] /\ tcp'[c] = tcp[c]
      /\ \A u \in Thread : InList(u, c)' <=> InList(u, c)
  BY <1>2 DEF Local, InList
<1>4. /\ \A u \in Thread : Tells(u, c)' <=> Tells(u, c)
      /\ \A u \in Thread : Tells(u, c) => cb'[u] = cb[u]
  BY <1>2 DEF Local, Tells
<1>5. QED
  BY <1>1, <1>3, <1>4, SamePhase, SamePlace DEF Unseen

------------------------------------------------------------------------------
(* Steps of the abstract specification, one by one. *)

\* The step changes c alone, to these values.
Becomes(c, phase, home, teller, told) ==
    /\ PhaseOf(c)' = phase
    /\ HomeOf(c)' = home
    /\ TellerOf(c)' = teller
    /\ ToldOf(c)' = told
    /\ \A d \in Conn \ {c} : Unseen(d)
    /\ runflag' = runflag

LEMMA Stutters ==
    ASSUME \A d \in Conn : Unseen(d), runflag' = runflag
    PROVE  UNCHANGED Events!vars
BY DEF Unseen, Events!vars

LEMMA Opens ==
    ASSUME NEW c \in Conn, NEW p \in {"opening", "open"}, PhaseOf(c) = "unborn",
           Becomes(c, p, HomeOf(c), TellerOf(c), ToldOf(c))
    PROVE  Events!Next
<1>1. Events!Open(c, p)
  <2>1. /\ [d \in Conn |-> PhaseOf(d)]' = [[d \in Conn |-> PhaseOf(d)] EXCEPT ![c] = p]
        /\ UNCHANGED <<[d \in Conn |-> HomeOf(d)], [d \in Conn |-> TellerOf(d)],
                       [d \in Conn |-> ToldOf(d)], {t \in Thread : runflag[t]}>>
    BY DEF Becomes, Unseen
  <2>2. QED
    BY <2>1 DEF Events!Open
<1>2. p \in Events!Phase
  BY DEF Events!Phase
<1>3. QED
  BY <1>1, <1>2 DEF Events!Next

LEMMA Ends ==
    ASSUME NEW c \in Conn, PhaseOf(c) \in {"opening", "open"},
           Becomes(c, "ending", HomeOf(c), TellerOf(c), ToldOf(c))
    PROVE  Events!Next
<1>1. Events!End(c)
  <2>1. /\ [d \in Conn |-> PhaseOf(d)]' = [[d \in Conn |-> PhaseOf(d)] EXCEPT ![c] = "ending"]
        /\ UNCHANGED <<[d \in Conn |-> HomeOf(d)], [d \in Conn |-> TellerOf(d)],
                       [d \in Conn |-> ToldOf(d)], {t \in Thread : runflag[t]}>>
    BY DEF Becomes, Unseen
  <2>2. QED
    BY <2>1 DEF Events!End
<1>2. QED
  BY <1>1 DEF Events!Next

LEMMA Adopts ==
    ASSUME NEW c \in Conn, NEW t \in Thread, PhaseOf(c) \in {"opening", "open", "ending"},
           HomeOf(c) = Nowhere, ToldOf(c) = "none",
           Becomes(c, PhaseOf(c), t, TellerOf(c), ToldOf(c))
    PROVE  Events!Next
<1>1. Events!Adopt(c, t)
  <2>1. /\ [d \in Conn |-> HomeOf(d)]' = [[d \in Conn |-> HomeOf(d)] EXCEPT ![c] = t]
        /\ UNCHANGED <<[d \in Conn |-> PhaseOf(d)], [d \in Conn |-> TellerOf(d)],
                       [d \in Conn |-> ToldOf(d)], {u \in Thread : runflag[u]}>>
    BY DEF Becomes, Unseen
  <2>2. QED
    BY <2>1 DEF Events!Adopt
<1>2. QED
  BY <1>1 DEF Events!Next

\* The callback f begins on t; what the six actions that tell something share.
LEMMA Begins ==
    ASSUME NEW c \in Conn, NEW t \in Thread, NEW f, NEW p,
           ToldOf(c) = "none", \A d \in Conn : TellerOf(d) # t,
           Becomes(c, p, HomeOf(c), t, f)
    PROVE  /\ Events!Begin(c, f, t)
           /\ [d \in Conn |-> PhaseOf(d)]' = [[d \in Conn |-> PhaseOf(d)] EXCEPT ![c] = p]
           /\ p = PhaseOf(c) => UNCHANGED [d \in Conn |-> PhaseOf(d)]
           /\ UNCHANGED <<[d \in Conn |-> HomeOf(d)], {u \in Thread : runflag[u]}>>
<1>1. /\ [d \in Conn |-> TellerOf(d)]' = [[d \in Conn |-> TellerOf(d)] EXCEPT ![c] = t]
      /\ [d \in Conn |-> ToldOf(d)]' = [[d \in Conn |-> ToldOf(d)] EXCEPT ![c] = f]
      /\ [d \in Conn |-> PhaseOf(d)]' = [[d \in Conn |-> PhaseOf(d)] EXCEPT ![c] = p]
      /\ p = PhaseOf(c) => UNCHANGED [d \in Conn |-> PhaseOf(d)]
      /\ UNCHANGED <<[d \in Conn |-> HomeOf(d)], {u \in Thread : runflag[u]}>>
  BY DEF Becomes, Unseen
<1>2. QED
  BY <1>1 DEF Events!Begin, Events!Quiet

LEMMA TellsAccepted ==
    ASSUME NEW c \in Conn, NEW t \in Thread, PhaseOf(c) = "unborn",
           ToldOf(c) = "none", \A d \in Conn : TellerOf(d) # t,
           Becomes(c, "open", HomeOf(c), t, "accepted")
    PROVE  Events!Next
<1>1. Events!TellAccepted(c, t)
  BY Begins DEF Events!TellAccepted
<1>2. QED
  BY <1>1 DEF Events!Next

LEMMA TellsOpened ==
    ASSUME NEW c \in Conn, NEW t \in Thread, PhaseOf(c) = "opening", HomeOf(c) = t,
           ToldOf(c) = "none", \A d \in Conn : TellerOf(d) # t,
           Becomes(c, "open", HomeOf(c), t, "opened")
    PROVE  Events!Next
<1>1. Events!TellOpened(c, t)
  BY Begins DEF Events!TellOpened
<1>2. QED
  BY <1>1 DEF Events!Next

LEMMA TellsTimeout ==
    ASSUME NEW c \in Conn, NEW t \in Thread, PhaseOf(c) = "open", HomeOf(c) = t,
           ToldOf(c) = "none", \A d \in Conn : TellerOf(d) # t,
           Becomes(c, PhaseOf(c), HomeOf(c), t, "timeout")
    PROVE  Events!Next
<1>1. Events!TellTimeout(c, t)
  BY Begins DEF Events!TellTimeout
<1>2. QED
  BY <1>1 DEF Events!Next

LEMMA TellsIO ==
    ASSUME NEW c \in Conn, NEW t \in Thread, HomeOf(c) = t,
           NEW f \in {"sent", "recv"}, NEW p,
           PhaseOf(c) \in {"open", "ending"},
           p = PhaseOf(c) \/ (f = "recv" /\ p = "ending"),
           ToldOf(c) = "none", \A d \in Conn : TellerOf(d) # t,
           Becomes(c, p, HomeOf(c), t, f)
    PROVE  Events!Next
<1>1. Events!TellIO(c, f, t, p)
  BY Begins DEF Events!TellIO, Events!Proceed
<1>2. p \in Events!Phase
  BY DEF Events!Phase
<1>3. QED
  BY <1>1, <1>2 DEF Events!Next

LEMMA TellsEnd ==
    ASSUME NEW c \in Conn, NEW t \in Thread, PhaseOf(c) = "ending", HomeOf(c) = t,
           NEW f \in {"closed", "refused"},
           ToldOf(c) = "none", \A d \in Conn : TellerOf(d) # t,
           Becomes(c, "over", HomeOf(c), t, f)
    PROVE  Events!Next
<1>1. Events!TellEnd(c, f, t)
  BY Begins DEF Events!TellEnd
<1>2. QED
  BY <1>1 DEF Events!Next

LEMMA Returns ==
    ASSUME NEW c \in Conn, ToldOf(c) # "none", PhaseOf(c) \in Events!Phase,
           PhaseOf(c) # "over", NEW p,
           p = PhaseOf(c) \/ (PhaseOf(c) = "open" /\ p = "ending"),
           Becomes(c, p, HomeOf(c), Nowhere, "none")
    PROVE  Events!Next
<1>1. Events!Return(c, p)
  <2>1. /\ [d \in Conn |-> TellerOf(d)]' = [[d \in Conn |-> TellerOf(d)] EXCEPT ![c] = Nowhere]
        /\ [d \in Conn |-> ToldOf(d)]' = [[d \in Conn |-> ToldOf(d)] EXCEPT ![c] = "none"]
        /\ [d \in Conn |-> PhaseOf(d)]' = [[d \in Conn |-> PhaseOf(d)] EXCEPT ![c] = p]
        /\ UNCHANGED <<[d \in Conn |-> HomeOf(d)], {u \in Thread : runflag[u]}>>
    BY DEF Becomes, Unseen
  <2>2. QED
    BY <2>1 DEF Events!Return, Events!Proceed
<1>2. p \in Events!Phase
  BY DEF Events!Phase
<1>3. QED
  BY <1>1, <1>2 DEF Events!Next

LEMMA ReturnsEnd ==
    ASSUME NEW c \in Conn, ToldOf(c) # "none", PhaseOf(c) = "over",
           Becomes(c, "gone", Nowhere, Nowhere, "none")
    PROVE  Events!Next
<1>1. Events!ReturnEnd(c)
  <2>1. /\ [d \in Conn |-> TellerOf(d)]' = [[d \in Conn |-> TellerOf(d)] EXCEPT ![c] = Nowhere]
        /\ [d \in Conn |-> ToldOf(d)]' = [[d \in Conn |-> ToldOf(d)] EXCEPT ![c] = "none"]
        /\ [d \in Conn |-> PhaseOf(d)]' = [[d \in Conn |-> PhaseOf(d)] EXCEPT ![c] = "gone"]
        /\ [d \in Conn |-> HomeOf(d)]' = [[d \in Conn |-> HomeOf(d)] EXCEPT ![c] = Nowhere]
        /\ UNCHANGED {u \in Thread : runflag[u]}
    BY DEF Becomes, Unseen
  <2>2. QED
    BY <2>1 DEF Events!ReturnEnd
<1>2. QED
  BY <1>1 DEF Events!Next

\* Several connections go at once.
LEMMA Kills ==
    ASSUME NEW t \in Thread, NEW S \in SUBSET Conn, S # {}, ~runflag[t], runflag' = runflag,
           \A c \in S : /\ PhaseOf(c) \in {"opening", "open", "ending"}
                        /\ ToldOf(c) = "none" /\ HomeOf(c) \in {t, Nowhere}
                        /\ PhaseOf(c)' = "gone" /\ HomeOf(c)' = Nowhere
                        /\ ToldOf(c)' = ToldOf(c) /\ TellerOf(c)' = TellerOf(c),
           \A c \in Conn \ S : Unseen(c)
    PROVE  Events!Next
<1>1. Events!Kill(t, S)
  <2>1. /\ [d \in Conn |-> PhaseOf(d)]' =
                [d \in Conn |-> IF d \in S THEN "gone" ELSE [e \in Conn |-> PhaseOf(e)][d]]
        /\ [d \in Conn |-> HomeOf(d)]' =
                [d \in Conn |-> IF d \in S THEN Nowhere ELSE [e \in Conn |-> HomeOf(e)][d]]
        /\ UNCHANGED <<[d \in Conn |-> TellerOf(d)], [d \in Conn |-> ToldOf(d)],
                       {u \in Thread : runflag[u]}>>
    BY DEF Unseen
  <2>2. QED
    BY <2>1 DEF Events!Kill
<1>2. QED
  BY <1>1 DEF Events!Next

------------------------------------------------------------------------------
(* The invariant of a connection.  While it is allocated the engine manages it;  *)
(* it is Closed exactly while its last callback runs; and a thread that works   *)
(* on it has seen it connected.                                                 *)

Final(t, c) == cb[t] \in {"closed", "refused"} /\ cur[t] = c

ConnOK(c) ==
    mem[c] = "live" =>
        /\ tcp[c].managed
        /\ tcp[c].state \in {"Connnecting", "Connected", "Refused", "Closing", "Closed"}
        /\ tcp[c].state = "Closed" <=> \E t \in Thread : Final(t, c)
        /\ \A t \in Thread : cur[t] = c => tcp[c].state # "Connnecting"

ConnsOK == \A c \in Conn : ConnOK(c)

\* A step the abstract specification allows, or one it does not see.
Allowed == [Events!Next]_(Events!vars)

LEMMA PhaseIs == \A c :
    /\ mem[c] = "fresh" => PhaseOf(c) = "unborn"
    /\ mem[c] = "freed" => PhaseOf(c) = "gone"
    /\ mem[c] = "live" =>
          /\ tcp[c].state = "Connnecting" => PhaseOf(c) = "opening"
          /\ tcp[c].state = "Connected" => PhaseOf(c) = "open"
          /\ tcp[c].state \in {"Refused", "Closing"} => PhaseOf(c) = "ending"
          /\ tcp[c].state = "Closed" => PhaseOf(c) = "over"
BY DEF PhaseOf

LEMMA PhaseIsNext == \A c :
    /\ mem'[c] = "fresh" => PhaseOf(c)' = "unborn"
    /\ mem'[c] = "freed" => PhaseOf(c)' = "gone"
    /\ mem'[c] = "live" =>
          /\ tcp'[c].state = "Connnecting" => PhaseOf(c)' = "opening"
          /\ tcp'[c].state = "Connected" => PhaseOf(c)' = "open"
          /\ tcp'[c].state \in {"Refused", "Closing"} => PhaseOf(c)' = "ending"
          /\ tcp'[c].state = "Closed" => PhaseOf(c)' = "over"
BY DEF PhaseOf

LEMMA OthersOK ==
    ASSUME NEW t \in Thread, NEW s, Local(t, s), NEW c \in Conn, c # s, ConnOK(c)
    PROVE  ConnOK(c)'
<1>1. c \in Tcps /\ c # NoTcp
  BY EngineAssumption DEF Tcps
<1>2. mem'[c] = mem[c] /\ tcp'[c] = tcp[c]
  BY <1>1 DEF Local
<1>3. \A u \in Thread : Final(u, c)' <=> Final(u, c)
  BY <1>1 DEF Local, Final
<1>4. \A u \in Thread : cur'[u] = c <=> cur[u] = c
  BY <1>1 DEF Local
<1>5. QED
  BY <1>2, <1>3, <1>4 DEF ConnOK

\* What is left to show of a step on one object.
LEMMA OnOne ==
    ASSUME IInv, IInv', ConnsOK, NEW t \in Thread, NEW s, Local(t, s)
    PROVE  /\ s \notin Conn => ConnsOK' /\ Allowed
           /\ s \in Conn /\ ConnOK(s)' => ConnsOK'
           /\ s \in Conn /\ Unseen(s) => Allowed
           /\ s \in Conn => Becomes(s, PhaseOf(s)', HomeOf(s)', TellerOf(s)', ToldOf(s)')
<1>1. \A c \in Conn \ {s} : Unseen(c) /\ ConnOK(c)'
  BY OthersUnseen, OthersOK DEF ConnsOK
<1>2. runflag' = runflag
  BY DEF Local
<1>3. QED
  BY <1>1, <1>2, Stutters DEF ConnsOK, Allowed, Becomes

\* Steps that touch nothing the application sees.
LEMMA Inside ==
    ASSUME IInv, IInv', ConnsOK, UNCHANGED <<mem, sockets, cb, cur, runflag>>,
           \A c \in Conn : tcp'[c].state = tcp[c].state /\ tcp'[c].managed = tcp[c].managed
    PROVE  ConnsOK' /\ Allowed
<1>1. ASSUME NEW c \in Conn PROVE Unseen(c)
  <2>1. Placed(c) /\ Placed(c)'
    BY PlacedNow, PlacedNext
  <2>2. QED
    BY <2>1, SamePhase, SamePlace DEF Unseen, InList, Tells
<1>2. ConnsOK'
  BY DEF ConnsOK, ConnOK, Final
<1>3. QED
  BY <1>1, <1>2, Stutters DEF Allowed

\* A socket that a thread is about to visit.
LEMMA ToVisit ==
    ASSUME IInv, ConnsOK, NEW t \in Thread, NEW c \in todo[t], pc[t] \in {"walk", "poll"}
    PROVE  /\ c \in Tcps /\ c \in sockets[t] /\ mem[c] = "live"
           /\ cb[t] = "none" /\ cur[t] = NoTcp
           /\ \A d \in Conn : TellerOf(d) # t
           /\ c \in Conn => /\ HomeOf(c) = t /\ TellerOf(c) = Nowhere /\ ToldOf(c) = "none"
                            /\ tcp[c].managed
                            /\ tcp[c].state \in {"Connnecting", "Connected", "Refused", "Closing"}
                            /\ \A u \in Thread : cur[u] # c \/ cb[u] = "none"
<1>1. TypeOK /\ ThreadOK /\ SingleOwner /\ NoDanglingUse
  BY DEF IInv
<1>2. c \in Tcps /\ c \in sockets[t] /\ cb[t] = "none" /\ cur[t] = NoTcp
  BY <1>1 DEF TypeOK, ThreadOK, NoDanglingUse
<1>3. mem[c] = "live"
  BY <1>1, <1>2, OwnedElsewhere DEF SingleOwner, InList
<1>4. \A d \in Conn : TellerOf(d) # t
  BY <1>2, PlacedNow DEF Placed, Tells
<1>5. \A u \in Thread : ~Tells(u, c)
  BY <1>1, <1>2, OneTeller DEF Tells, InList
<1>6. ASSUME c \in Conn
      PROVE  /\ HomeOf(c) = t /\ TellerOf(c) = Nowhere /\ ToldOf(c) = "none"
             /\ tcp[c].managed
             /\ tcp[c].state \in {"Connnecting", "Connected", "Refused", "Closing"}
  <2>1. Placed(c) /\ ConnOK(c)
    BY <1>6, PlacedNow DEF ConnsOK
  <2>2. \A u \in Thread : ~Final(u, c)
    BY <1>5 DEF Final, Tells
  <2>3. QED
    BY <1>2, <1>3, <1>5, <2>1, <2>2 DEF Placed, ConnOK, InList
<1>7. QED
  BY <1>2, <1>3, <1>4, <1>5, <1>6 DEF Tells

\* A callback f begins for c, which its thread owns.
LEMMA CallBegins ==
    ASSUME IInv, IInv', NEW t \in Thread, NEW c \in Conn, c \in sockets[t], cb[t] = "none",
           NEW f, f # "none", Local(t, c), UNCHANGED <<mem, sockets>>,
           cb' = [cb EXCEPT ![t] = f], cur'[t] = c
    PROVE  /\ mem[c] = "live" /\ HomeOf(c) = t /\ ToldOf(c) = "none"
           /\ \A d \in Conn : TellerOf(d) # t
           /\ Becomes(c, PhaseOf(c)', HomeOf(c), t, f)
           /\ \A u \in Thread : Final(u, c)' <=> u = t /\ f \in {"closed", "refused"}
<1>1. TypeOK /\ ThreadOK /\ SingleOwner /\ NoDanglingUse
  BY DEF IInv
<1>2. c \in Tcps
  BY DEF Tcps
<1>3. mem[c] = "live"
  BY <1>1, <1>2, OwnedElsewhere DEF SingleOwner, InList
<1>4. Placed(c) /\ Placed(c)'
  BY PlacedNow, PlacedNext
<1>5. \A u \in Thread : ~Tells(u, c)
  BY <1>1, <1>2, OneTeller DEF Tells, InList
<1>6. HomeOf(c) = t /\ ToldOf(c) = "none" /\ HomeOf(c)' = t
  BY <1>4, <1>5 DEF Placed, InList
<1>7. cb'[t] = f
  BY <1>1 DEF TypeOK
<1>8. TellerOf(c)' = t /\ ToldOf(c)' = f
  BY <1>4, <1>7 DEF Placed, Tells
<1>9. \A d \in Conn : TellerOf(d) # t
  BY PlacedNow DEF Placed, Tells
<1>10. \A d \in Conn \ {c} : Unseen(d)
  BY OthersUnseen
<1>11. \A u \in Thread : Final(u, c)' <=> u = t /\ f \in {"closed", "refused"}
  BY <1>5, <1>7 DEF Final, Tells, Local
<1>12. QED
  BY <1>3, <1>6, <1>8, <1>9, <1>10, <1>11 DEF Becomes, Local

\* A callback ends and its socket lives on.
LEMMA CallEnds ==
    ASSUME IInv, IInv', ConnsOK, NEW t \in Thread, NEW c \in Conn, c = cur[t],
           cb[t] \notin {"none", "closed", "refused"}, Local(t, c), UNCHANGED <<mem, sockets>>,
           cb' = [cb EXCEPT ![t] = "none"]
    PROVE  /\ mem[c] = "live" /\ ToldOf(c) # "none" /\ tcp[c].managed
           /\ tcp[c].state \in {"Connected", "Refused", "Closing"}
           /\ Becomes(c, PhaseOf(c)', HomeOf(c), Nowhere, "none")
           /\ \A u \in Thread : ~Final(u, c)'
<1>1. TypeOK /\ ThreadOK /\ SingleOwner /\ NoDanglingUse
  BY DEF IInv
<1>2. c \in Tcps /\ Tells(t, c)
  BY DEF Tcps, Tells
<1>3. mem[c] = "live" /\ \A u \in Thread : Tells(u, c) => u = t
  BY <1>1, <1>2, OneTeller
<1>4. Placed(c) /\ Placed(c)' /\ ConnOK(c)
  BY PlacedNow, PlacedNext DEF ConnsOK
<1>5. ToldOf(c) = cb[t]
  BY <1>2, <1>4 DEF Placed
<1>6. \A u \in Thread : ~Final(u, c)
  BY <1>3 DEF Final, Tells
<1>7. tcp[c].managed /\ tcp[c].state \in {"Connected", "Refused", "Closing"}
  BY <1>3, <1>4, <1>6 DEF ConnOK
<1>8. cb'[t] = "none"
  BY <1>1 DEF TypeOK
<1>9. \A u \in Thread : ~Tells(u, c)'
  BY <1>3, <1>8 DEF Tells, Local
<1>10. TellerOf(c)' = Nowhere /\ ToldOf(c)' = "none" /\ HomeOf(c)' = HomeOf(c)
  BY <1>4, <1>9 DEF Placed, InList
<1>11. \A u \in Thread : ~Final(u, c)'
  BY <1>9 DEF Final, Tells
<1>12. \A d \in Conn \ {c} : Unseen(d)
  BY OthersUnseen
<1>13. QED
  BY <1>3, <1>5, <1>7, <1>10, <1>11, <1>12 DEF Becomes, Local

------------------------------------------------------------------------------
(* The steps of the engine, one by one. *)

LEMMA ControlAllowed ==
    ASSUME IInv, IInv', ConnsOK,
           (\E n \in Sizes : Start(n) \/ StartFails(n)) \/ Stop \/ ControlStep
           \/ (\E p \in Poster : Post(p))
    PROVE  ConnsOK' /\ Allowed
<1> USE DEF sockVars, runVars
<1>1. UNCHANGED <<mem, tcp, sockets, cb, cur>>
  BY DEF Start, StartFails, Stop, ControlStep, StartThread, ClearFlag, Join, Post
<1>2. CASE runflag' = runflag
  BY <1>1, <1>2, Inside
<1>3. CASE StartThread \/ ClearFlag
  <2>1. ConnsOK'
    BY <1>1 DEF ConnsOK, ConnOK, Final
  <2>2. ASSUME NEW c \in Conn PROVE Unseen(c)
    <3>1. Placed(c) /\ Placed(c)'
      BY PlacedNow, PlacedNext
    <3>2. QED
      BY <1>1, <3>1, SamePhase, SamePlace DEF Unseen, InList, Tells
  <2>3. PICK u \in Thread : \/ runflag' = [runflag EXCEPT ![u] = TRUE]
                           \/ runflag' = [runflag EXCEPT ![u] = FALSE]
    BY <1>3 DEF IInv, TypeOK, StartThread, ClearFlag
  <2>4. \/ {t \in Thread : runflag[t]}' = {t \in Thread : runflag[t]} \cup {u}
        \/ {t \in Thread : runflag[t]}' = {t \in Thread : runflag[t]} \ {u}
    BY <2>3 DEF IInv, TypeOK
  <2>5. UNCHANGED <<[c \in Conn |-> PhaseOf(c)], [c \in Conn |-> HomeOf(c)],
                    [c \in Conn |-> TellerOf(c)], [c \in Conn |-> ToldOf(c)]>>
    BY <2>2 DEF Unseen
  <2>6. Events!Serve(u) \/ Events!Halt(u)
    BY <2>4, <2>5 DEF Events!Serve, Events!Halt
  <2>7. QED
    BY <2>1, <2>6 DEF Allowed, Events!Next
<1>4. QED
  BY <1>2, <1>3 DEF Start, StartFails, Stop, ControlStep, Join, Post, ctlVars

\* connect(), from the application or from a callback.
LEMMA ConnectAllowed ==
    ASSUME IInv, IInv', ConnsOK, NEW p, NEW c, NEW x \in BOOLEAN, NEW i, Connect(p, c, x, i)
    PROVE  ConnsOK' /\ Allowed
<1>1. TypeOK /\ ThreadOK /\ SingleOwner /\ NoDanglingUse
  BY DEF IInv
<1>2. c \in Conn /\ c \in Tcps /\ mem[c] = "fresh"
  BY DEF Connect, Tcps
<1>3. /\ mem' = [mem EXCEPT ![c] = "live"]
      /\ tcp' = [tcp EXCEPT ![c] = [Connecting(NewTcp, x) EXCEPT !.managed = TRUE]]
      /\ UNCHANGED <<sockets, cb, cur, runflag>>
  BY DEF Connect, ctlVars, runVars
<1>4. PICK t \in Thread : TRUE
  BY EngineAssumption DEF Thread
<1>5. Local(t, c)
  BY <1>1, <1>3 DEF TypeOK, Local
<1>6. \A u \in Thread : ~InList(u, c) /\ ~Tells(u, c) /\ cur[u] # c
  <2>1. \A u \in Thread : ~InList(u, c) /\ ~Accepting(u, c)
    BY <1>1, <1>2, OwnedElsewhere DEF SingleOwner, Held
  <2>2. c # NoTcp
    BY <1>2, EngineAssumption
  <2>3. QED
    BY <1>1, <2>1, <2>2 DEF NoDanglingUse, Tells
<1>7. /\ mem'[c] = "live"
      /\ tcp'[c].managed
      /\ tcp'[c].state \in {"Connnecting", "Connected"}
  BY <1>1, <1>2, <1>3 DEF TypeOK, Connecting, NewTcp
<1>8. ConnOK(c)'
  BY <1>3, <1>6, <1>7 DEF ConnOK, Final, Tells
<1>9. PhaseOf(c) = "unborn" /\ PhaseOf(c)' \in {"opening", "open"}
  BY <1>2, <1>7, PhaseIs, PhaseIsNext
<1>10. HomeOf(c)' = HomeOf(c) /\ TellerOf(c)' = TellerOf(c) /\ ToldOf(c)' = ToldOf(c)
  BY <1>2, <1>3, PlacedNow, PlacedNext, SamePlace DEF InList, Tells
<1>11. Events!Next
  BY <1>2, <1>5, <1>9, <1>10, OnOne, Opens DEF Becomes
<1>12. QED
  BY <1>2, <1>5, <1>8, <1>11, OnOne DEF Allowed

LEMMA AcceptAllowed ==
    ASSUME IInv, IInv', ConnsOK, 0 \in Thread, NEW c \in Conn, Accept(c)
    PROVE  ConnsOK' /\ Allowed
<1>1. TypeOK /\ ThreadOK /\ SingleOwner /\ NoDanglingUse
  BY DEF IInv
<1>2. c \in Tcps /\ c # NoTcp /\ mem[c] = "fresh" /\ cb[0] = "none" /\ cur[0] = NoTcp
  BY <1>1, EngineAssumption DEF Accept, Tcps, ThreadOK, TypeOK
<1>3. /\ mem' = [mem EXCEPT ![c] = "live"]
      /\ tcp' = [tcp EXCEPT ![c] = Accepted(NewTcp)]
      /\ cb' = [cb EXCEPT ![0] = "accepted"] /\ cur' = [cur EXCEPT ![0] = c]
      /\ UNCHANGED <<sockets, runflag>>
  BY DEF Accept, Call, ctlVars
<1>4. Local(0, c)
  BY <1>1, <1>2, <1>3 DEF TypeOK, Local
<1>5. \A u \in Thread : ~InList(u, c) /\ ~Tells(u, c)
  <2>1. \A u \in Thread : ~InList(u, c) /\ ~Accepting(u, c)
    BY <1>1, <1>2, OwnedElsewhere DEF SingleOwner, Held
  <2>2. QED
    BY <1>1, <1>2, <2>1 DEF NoDanglingUse, Tells
<1>6. mem'[c] = "live" /\ tcp'[c].managed /\ tcp'[c].state = "Connected"
  BY <1>1, <1>2, <1>3 DEF TypeOK, Accepted, NewTcp
<1>7. cb'[0] = "accepted" /\ cur'[0] = c /\ Tells(0, c)'
  BY <1>1, <1>3 DEF TypeOK, Tells
<1>8. \A u \in Thread : ~Final(u, c)'
  BY <1>4, <1>5, <1>7 DEF Final, Tells, Local
<1>9. ConnOK(c)'
  BY <1>6, <1>8 DEF ConnOK
<1>10. PhaseOf(c) = "unborn" /\ PhaseOf(c)' = "open"
  BY <1>2, <1>6, PhaseIs, PhaseIsNext
<1>11. /\ ToldOf(c) = "none" /\ HomeOf(c) = Nowhere /\ \A d \in Conn : TellerOf(d) # 0
       /\ HomeOf(c)' = Nowhere /\ TellerOf(c)' = 0 /\ ToldOf(c)' = "accepted"
  BY <1>2, <1>3, <1>5, <1>7, PlacedNow, PlacedNext DEF Placed, InList, Tells
<1>12. Events!Next
  BY <1>4, <1>10, <1>11, OnOne, TellsAccepted
<1>13. QED
  BY <1>4, <1>9, <1>12, OnOne DEF Allowed

\* A worker (or the listen thread) takes a socket out of its inbox.
LEMMA AdoptAllowed ==
    ASSUME IInv, IInv', ConnsOK, NEW t \in Thread, (t = 0 /\ AdoptListener) \/ AdoptSocket(t)
    PROVE  ConnsOK' /\ Allowed
<1>1. TypeOK /\ ThreadOK /\ SingleOwner /\ NoDanglingUse
  BY DEF IInv
<1>2. t \in Inbox /\ inbox[t] # <<>> /\ inbox' = [inbox EXCEPT ![t] = Tail(@)]
  BY EngineAssumption DEF Thread, Inbox, AdoptListener, AdoptSocket
<1>3. PICK x \in Tcps : x = Head(inbox[t])
  BY <1>1, <1>2 DEF TypeOK
<1>4. mem[x] = "live" /\ \A u \in Thread : ~InList(u, x) /\ ~Accepting(u, x)
  BY <1>1, <1>2, <1>3, HeadLeaves
<1>5. \A u \in Thread : ~Tells(u, x) /\ cur[u] # x
  BY <1>1, <1>4, EngineAssumption DEF NoDanglingUse, Tells
<1>6. /\ sockets' = [sockets EXCEPT ![t] = @ \cup {x}]
      /\ \E m \in BOOLEAN : tcp' = tcp \/ tcp' = [tcp EXCEPT ![x].evmask = m]
      /\ UNCHANGED <<mem, cb, cur, runflag>>
  <2>1. tcp[x].evmask \in BOOLEAN
    BY <1>1, <1>3 DEF TypeOK, TcpRecord
  <2>2. QED
    BY <1>3, <2>1 DEF AdoptListener, AdoptSocket, runVars, ctlVars
<1>7. Local(t, x)
  BY <1>1, <1>6 DEF TypeOK, Local
<1>8. tcp'[x].state = tcp[x].state /\ tcp'[x].managed = tcp[x].managed
  BY <1>1, <1>6 DEF TypeOK, TcpRecord
<1>9. ASSUME x \in Conn PROVE ConnOK(x)' /\ Allowed
  <2>1. Placed(x) /\ Placed(x)' /\ ConnOK(x)
    BY <1>9, PlacedNow, PlacedNext DEF ConnsOK
  <2>2. tcp[x].state \in {"Connnecting", "Connected", "Refused", "Closing"}
    BY <1>4, <1>5, <2>1 DEF ConnOK, Final, Tells
  <2>3. ConnOK(x)'
    BY <1>6, <1>8, <2>1 DEF ConnOK, Final
  <2>4. PhaseOf(x) \in {"opening", "open", "ending"} /\ PhaseOf(x)' = PhaseOf(x)
    BY <1>4, <1>6, <1>8, <2>2, PhaseIs, SamePhase
  <2>5. InList(t, x)'
    BY <1>1, <1>6 DEF TypeOK, InList
  <2>6. /\ HomeOf(x) = Nowhere /\ ToldOf(x) = "none" /\ TellerOf(x) = Nowhere
        /\ HomeOf(x)' = t /\ ToldOf(x)' = "none" /\ TellerOf(x)' = Nowhere
    BY <1>4, <1>5, <1>6, <2>1, <2>5 DEF Placed, Tells
  <2>7. Events!Next
    BY <1>7, <1>9, <2>4, <2>6, OnOne, Adopts
  <2>8. QED
    BY <2>3, <2>7 DEF Allowed
<1>10. QED
  BY <1>7, <1>9, OnOne

\* The walk reports a socket that has ended, or an idle one.
LEMMA WalkCalls ==
    ASSUME IInv, IInv', ConnsOK, NEW t \in Thread, NEW c \in todo[t],
           WalkClosing(t, c) \/ WalkRefused(t, c) \/ WalkTimeout(t, c)
    PROVE  ConnsOK' /\ Allowed
<1> USE DEF Visit, Call, sockVars, ctlVars
<1>1. TypeOK /\ ThreadOK
  BY DEF IInv
<1>2. pc[t] = "walk"
  BY DEF WalkClosing, WalkRefused, WalkTimeout
<1>3. /\ c \in Tcps /\ c \in sockets[t] /\ mem[c] = "live"
      /\ cb[t] = "none" /\ cur[t] = NoTcp
      /\ c \in Conn => tcp[c].managed /\ \A u \in Thread : cur[u] # c \/ cb[u] = "none"
  BY <1>2, ToVisit
<1>4. /\ UNCHANGED <<mem, sockets, runflag>>
      /\ cur' = [cur EXCEPT ![t] = c]
      /\ tcp' = tcp \/ tcp' = [tcp EXCEPT ![c].state = "Closed"]
      /\ \E f : cb' = [cb EXCEPT ![t] = f]
  BY DEF WalkClosing, WalkRefused, WalkTimeout
<1>5. Local(t, c) /\ cur'[t] = c
  BY <1>1, <1>3, <1>4 DEF TypeOK, Local
<1>6. ASSUME c \in Conn, WalkTimeout(t, c) PROVE ConnOK(c)' /\ Events!Next
  <2>1. cb' = [cb EXCEPT ![t] = "timeout"] /\ tcp' = tcp /\ tcp[c].state = "Connected"
    BY <1>6 DEF WalkTimeout
  <2>2. /\ HomeOf(c) = t /\ ToldOf(c) = "none" /\ \A d \in Conn : TellerOf(d) # t
        /\ Becomes(c, PhaseOf(c)', HomeOf(c), t, "timeout")
        /\ \A u \in Thread : Final(u, c)' <=> u = t /\ "timeout" \in {"closed", "refused"}
    BY <1>3, <1>4, <1>5, <1>6, <2>1, CallBegins
  <2>3. ConnOK(c)'
    BY <1>3, <1>4, <1>6, <2>1, <2>2 DEF ConnOK
  <2>4. PhaseOf(c) = "open" /\ PhaseOf(c)' = "open"
    BY <1>3, <1>4, <2>1, PhaseIs, PhaseIsNext
  <2>5. QED
    BY <1>6, <2>2, <2>3, <2>4, TellsTimeout
<1>7. ASSUME c \in Conn, WalkClosing(t, c) \/ WalkRefused(t, c)
      PROVE  ConnOK(c)' /\ Events!Next
  <2>1. PICK f \in {"closed", "refused"} : cb' = [cb EXCEPT ![t] = f]
    BY <1>7 DEF WalkClosing, WalkRefused
  <2>2. tcp[c].state \in {"Closing", "Refused"} /\ tcp' = [tcp EXCEPT ![c].state = "Closed"]
    BY <1>7 DEF WalkClosing, WalkRefused
  <2>3. tcp'[c].state = "Closed" /\ tcp'[c].managed = tcp[c].managed
    BY <1>1, <1>3, <2>2 DEF TypeOK, TcpRecord
  <2>4. /\ HomeOf(c) = t /\ ToldOf(c) = "none" /\ \A d \in Conn : TellerOf(d) # t
        /\ Becomes(c, PhaseOf(c)', HomeOf(c), t, f)
        /\ \A u \in Thread : Final(u, c)' <=> u = t
    BY <1>3, <1>4, <1>5, <1>7, <2>1, CallBegins
  <2>5. ConnOK(c)'
    BY <1>3, <1>7, <2>3, <2>4 DEF ConnOK
  <2>6. PhaseOf(c) = "ending" /\ PhaseOf(c)' = "over"
    BY <1>3, <1>4, <2>2, <2>3, PhaseIs, PhaseIsNext
  <2>7. QED
    BY <1>7, <2>4, <2>5, <2>6, TellsEnd
<1>8. QED
  BY <1>5, <1>6, <1>7, OnOne DEF Allowed

\* The rest of the walk changes masks only.
LEMMA WalkAllowed ==
    ASSUME IInv, IInv', ConnsOK, NEW t \in Thread, Walk(t)
    PROVE  ConnsOK' /\ Allowed
<1>1. ASSUME NEW c \in todo[t], WalkConnecting(t, c) \/ WalkConnected(t, c)
      PROVE  ConnsOK' /\ Allowed
  <2>1. c \in Tcps /\ tcp \in [Tcps -> TcpRecord]
    BY DEF IInv, TypeOK
  <2>2. /\ UNCHANGED <<mem, sockets, cb, cur, runflag>>
        /\ \E m : tcp' = tcp \/ tcp' = [tcp EXCEPT ![c].evmask = m]
    BY <1>1 DEF WalkConnecting, WalkConnected, AdjustInterest, ctlVars
  <2>3. \A d \in Conn : tcp'[d].state = tcp[d].state /\ tcp'[d].managed = tcp[d].managed
    BY <2>1, <2>2 DEF TcpRecord, Tcps
  <2>4. QED
    BY <2>2, <2>3, Inside
<1>2. CASE WalkDone(t)
  BY <1>2, Inside DEF WalkDone, sockVars, ctlVars
<1>3. QED
  BY <1>1, <1>2, WalkCalls DEF Walk

\* The socket a thread is working on outside a callback.
LEMMA InWork ==
    ASSUME IInv, ConnsOK, NEW t \in Thread, pc[t] \in {"write", "read"}
    PROVE  /\ cur[t] \in Tcps /\ cur[t] \in sockets[t] /\ mem[cur[t]] = "live"
           /\ cb[t] = "none"
           /\ cur[t] \in Conn => /\ tcp[cur[t]].managed
                                 /\ tcp[cur[t]].state \in {"Connected", "Refused", "Closing"}
                                 /\ \A u \in Thread : ~Tells(u, cur[t])
<1>1. TypeOK /\ ThreadOK /\ SingleOwner /\ NoDanglingUse
  BY DEF IInv
<1>2. cb[t] = "none" /\ cur[t] # NoTcp /\ cur[t] \in Tcps
  BY <1>1 DEF TypeOK, ThreadOK
<1>3. cur[t] \in sockets[t]
  BY <1>1, <1>2 DEF NoDanglingUse, InList, Accepting
<1>4. mem[cur[t]] = "live"
  BY <1>1, <1>2, <1>3, OwnedElsewhere DEF SingleOwner, InList
<1>5. \A u \in Thread : ~Tells(u, cur[t])
  BY <1>1, <1>2, <1>3, OneTeller DEF Tells, InList
<1>6. ASSUME cur[t] \in Conn
      PROVE  /\ tcp[cur[t]].managed
             /\ tcp[cur[t]].state \in {"Connected", "Refused", "Closing"}
  <2>1. ConnOK(cur[t]) /\ \A u \in Thread : ~Final(u, cur[t])
    BY <1>5, <1>6 DEF ConnsOK, Final, Tells
  <2>2. QED
    BY <1>4, <2>1 DEF ConnOK
<1>7. QED
  BY <1>2, <1>3, <1>4, <1>5, <1>6

LEMMA EventAllowed ==
    ASSUME IInv, IInv', ConnsOK, NEW t \in Thread, NEW c \in todo[t],
           NEW events \in SUBSET ReadWrite, Event(t, c, events)
    PROVE  ConnsOK' /\ Allowed
<1>1. TypeOK /\ ThreadOK
  BY DEF IInv
<1>2. /\ c \in Tcps /\ c \in sockets[t] /\ mem[c] = "live"
      /\ cb[t] = "none" /\ cur[t] = NoTcp
      /\ c \in Conn => /\ tcp[c].managed
                       /\ tcp[c].state \in {"Connnecting", "Connected", "Refused", "Closing"}
                       /\ \A u \in Thread : cur[u] # c \/ cb[u] = "none"
  BY ToVisit DEF Event
<1>3. /\ UNCHANGED <<mem, sockets, runflag>>
      /\ cur' = [cur EXCEPT ![t] = c]
  BY DEF Event, Call, ctlVars
<1>4. CASE "W" \in events /\ tcp[c].state = "Connnecting"
  <2>1. tcp' = [tcp EXCEPT ![c].state = "Connected"] /\ cb' = [cb EXCEPT ![t] = "opened"]
    BY <1>4 DEF Event, Call
  <2>2. Local(t, c) /\ cur'[t] = c
    BY <1>1, <1>2, <1>3, <2>1 DEF TypeOK, Local
  <2>3. tcp'[c].state = "Connected" /\ tcp'[c].managed = tcp[c].managed
    BY <1>1, <1>2, <2>1 DEF TypeOK, TcpRecord
  <2>4. ASSUME c \in Conn PROVE ConnOK(c)' /\ Events!Next
    <3>1. /\ HomeOf(c) = t /\ ToldOf(c) = "none" /\ \A d \in Conn : TellerOf(d) # t
          /\ Becomes(c, PhaseOf(c)', HomeOf(c), t, "opened")
          /\ \A u \in Thread : Final(u, c)' <=> u = t /\ "opened" \in {"closed", "refused"}
      BY <1>2, <1>3, <2>1, <2>2, <2>4, CallBegins
    <3>2. ConnOK(c)'
      BY <1>2, <1>3, <2>3, <2>4, <3>1 DEF ConnOK
    <3>3. PhaseOf(c) = "opening" /\ PhaseOf(c)' = "open"
      BY <1>2, <1>3, <1>4, <2>3, PhaseIs, PhaseIsNext
    <3>4. QED
      BY <2>4, <3>1, <3>2, <3>3, TellsOpened
  <2>5. QED
    BY <2>2, <2>4, OnOne DEF Allowed
<1>5. CASE ~("W" \in events /\ tcp[c].state = "Connnecting")
  <2>1. tcp' = tcp /\ cb' = cb /\ tcp[c].state # "Connnecting"
    BY <1>5 DEF Event, Ready
  <2>2. Local(t, c)
    BY <1>1, <1>2, <1>3, <2>1 DEF TypeOK, Local
  <2>3. ASSUME c \in Conn PROVE ConnOK(c)' /\ Unseen(c)
    <3>1. Placed(c) /\ Placed(c)' /\ ConnOK(c)
      BY <2>3, PlacedNow, PlacedNext DEF ConnsOK
    <3>2. \A u \in Thread : (Tells(u, c)' <=> Tells(u, c)) /\ (Final(u, c)' <=> Final(u, c))
      BY <1>1, <1>2, <1>3, <2>1, <2>3 DEF TypeOK, Tells, Final
    <3>3. ConnOK(c)'
      BY <1>3, <2>1, <3>1, <3>2 DEF ConnOK
    <3>4. QED
      BY <1>3, <2>1, <3>1, <3>2, <3>3, SamePhase, SamePlace DEF Unseen, InList
  <2>4. QED
    BY <2>2, <2>3, OnOne
<1>6. QED
  BY <1>4, <1>5

\* io_read() and io_write() on an open connection, with what the kernel reports.
LEMMA IOStates ==
    ASSUME NEW r \in TcpRecord, r.managed, r.state \in {"Connected", "Refused", "Closing"},
           NEW x \in BOOLEAN, NEW y \in BOOLEAN
    PROVE  /\ IoWrite(r, x).managed /\ IoWrite(r, x).state = r.state
           /\ IoRead(r, x, y).managed
           /\ IoRead(r, x, y).state = r.state \/ IoRead(r, x, y).state = "Closing"
           /\ Close(r).managed /\ Close(r).state = "Closing"
<1>1. Opened(r) = r
  BY DEF Opened
<1>2. IoWrite(r, x).managed /\ IoWrite(r, x).state = r.state
  BY <1>1 DEF TcpRecord, IoWrite
<1>3. ASSUME NEW q \in TcpRecord, q.managed, q.state \in {"Connected", "Refused", "Closing"}
      PROVE  Close(q).managed /\ Close(q).state = "Closing"
  BY <1>3 DEF TcpRecord, Close
<1>4. [r EXCEPT !.ibuf = @ \/ x] \in TcpRecord
      /\ [r EXCEPT !.ibuf = @ \/ x].state = r.state /\ [r EXCEPT !.ibuf = @ \/ x].managed
  BY DEF TcpRecord
<1>5. /\ IoRead(r, x, y).managed
      /\ IoRead(r, x, y).state = r.state \/ IoRead(r, x, y).state = "Closing"
  BY <1>1, <1>3, <1>4 DEF IoRead
<1>6. QED
  BY <1>2, <1>3, <1>5

\* A handler that ends without a callback.
LEMMA WithoutCallback ==
    ASSUME IInv, IInv', ConnsOK, NEW t \in Thread, NEW c, c = cur[t],
           pc[t] \in {"write", "read"}, Local(t, c), UNCHANGED <<mem, sockets, cb>>,
           cur' = cur \/ cur' = [cur EXCEPT ![t] = NoTcp],
           c \in Conn => /\ tcp'[c].managed
                         /\ tcp'[c].state = tcp[c].state \/ tcp'[c].state = "Closing"
    PROVE  ConnsOK' /\ Allowed
<1>1. /\ c \in Tcps /\ mem[c] = "live"
      /\ c \in Conn => /\ tcp[c].state \in {"Connected", "Refused", "Closing"}
                       /\ \A u \in Thread : ~Tells(u, c)
  BY InWork
<1>2. ASSUME c \in Conn PROVE ConnOK(c)' /\ Allowed
  <2>1. Placed(c) /\ Placed(c)'
    BY <1>2, PlacedNow, PlacedNext
  <2>2. \A u \in Thread : ~Tells(u, c)' /\ ~Final(u, c)'
    BY <1>1, <1>2, EngineAssumption DEF IInv, TypeOK, Tells, Final
  <2>3. ConnOK(c)'
    BY <1>1, <1>2, <2>2 DEF ConnOK
  <2>4. HomeOf(c)' = HomeOf(c) /\ TellerOf(c)' = TellerOf(c) /\ ToldOf(c)' = ToldOf(c)
    BY <1>1, <1>2, <2>1, <2>2, SamePlace DEF InList
  <2>5. CASE PhaseOf(c)' = PhaseOf(c)
    BY <1>2, <2>3, <2>4, <2>5, OnOne DEF Unseen
  <2>6. CASE PhaseOf(c)' # PhaseOf(c)
    <3>1. tcp'[c].state = "Closing" /\ tcp[c].state = "Connected"
      BY <1>1, <1>2, <2>6, PhaseIs, PhaseIsNext
    <3>2. PhaseOf(c) = "open" /\ PhaseOf(c)' = "ending"
      BY <1>1, <3>1, PhaseIs, PhaseIsNext
    <3>3. Events!Next
      BY <1>2, <2>4, <3>2, OnOne, Ends
    <3>4. QED
      BY <2>3, <3>3 DEF Allowed
  <2>7. QED
    BY <2>5, <2>6
<1>3. QED
  BY <1>2, OnOne

\* A handler that ends in a callback: cb_net_sent or cb_net_recv.
LEMMA WithCallback ==
    ASSUME IInv, IInv', ConnsOK, NEW t \in Thread, NEW c, c = cur[t],
           pc[t] \in {"write", "read"}, Local(t, c), UNCHANGED <<mem, sockets, cur>>,
           NEW f \in {"sent", "recv"}, cb' = [cb EXCEPT ![t] = f],
           c \in Conn => /\ tcp'[c].managed
                         /\ \/ tcp'[c].state = tcp[c].state
                            \/ f = "recv" /\ tcp'[c].state = "Closing"
    PROVE  ConnsOK' /\ Allowed
<1>1. /\ c \in Tcps /\ c \in sockets[t] /\ mem[c] = "live" /\ cb[t] = "none"
      /\ c \in Conn => tcp[c].state \in {"Connected", "Refused", "Closing"}
  BY InWork
<1>2. ASSUME c \in Conn PROVE ConnOK(c)' /\ Events!Next
  <2>1. f # "none" /\ f \notin {"closed", "refused"}
    OBVIOUS
  <2>2. /\ HomeOf(c) = t /\ ToldOf(c) = "none" /\ \A d \in Conn : TellerOf(d) # t
        /\ Becomes(c, PhaseOf(c)', HomeOf(c), t, f)
        /\ \A u \in Thread : Final(u, c)' <=> u = t /\ f \in {"closed", "refused"}
    BY <1>1, <1>2, <2>1, CallBegins
  <2>3. ConnOK(c)'
    BY <1>1, <1>2, <2>1, <2>2 DEF ConnOK
  <2>4. PhaseOf(c) \in {"open", "ending"}
    BY <1>1, <1>2, PhaseIs
  <2>5. PhaseOf(c)' = PhaseOf(c) \/ (f = "recv" /\ PhaseOf(c)' = "ending")
    BY <1>1, <1>2, SamePhase, PhaseIsNext
  <2>6. PICK q : q = PhaseOf(c)'
    OBVIOUS
  <2>7. QED
    BY <1>2, <2>2, <2>3, <2>4, <2>5, <2>6, TellsIO
<1>3. QED
  BY <1>2, OnOne DEF Allowed

LEMMA HandleAllowed ==
    ASSUME IInv, IInv', ConnsOK, NEW t \in Thread, Handle(t)
    PROVE  ConnsOK' /\ Allowed
<1> USE DEF ctlVars, Call, Goto, AfterWrite
<1>1. TypeOK
  BY DEF IInv
<1>2. pc[t] \in {"write", "read"}
  BY DEF Handle, WriteEvent, ReadEvent
<1>3. PICK c \in Tcps : c = cur[t] /\ tcp[c] \in TcpRecord
  BY <1>1, <1>2, InWork DEF TypeOK
<1>4. c \in Conn => tcp[c].managed /\ tcp[c].state \in {"Connected", "Refused", "Closing"}
  BY <1>2, <1>3, InWork
<1>5. UNCHANGED <<mem, sockets, runflag>>
  BY DEF Handle, WriteEvent, ReadEvent
<1>6. ASSUME NEW drained \in BOOLEAN, WriteEvent(t, drained) PROVE ConnsOK' /\ Allowed
  <2>1. tcp' = [tcp EXCEPT ![c] = IoWrite(tcp[c], drained)]
    BY <1>3, <1>6 DEF WriteEvent
  <2>2. c \in Conn => tcp'[c].managed /\ tcp'[c].state = tcp[c].state
    BY <1>1, <1>3, <1>4, <2>1, IOStates DEF TypeOK
  <2>3. CASE tcp'[c].obuf
    <3>1. cb' = cb /\ (cur' = cur \/ cur' = [cur EXCEPT ![t] = NoTcp])
      BY <1>3, <1>6, <2>3 DEF WriteEvent
    <3>2. Local(t, c)
      BY <1>1, <1>3, <1>5, <2>1, <3>1 DEF TypeOK, Local
    <3>3. QED
      BY <1>2, <1>3, <1>5, <2>2, <3>1, <3>2, WithoutCallback
  <2>4. CASE ~tcp'[c].obuf
    <3>1. cb' = [cb EXCEPT ![t] = "sent"] /\ cur' = [cur EXCEPT ![t] = c]
      BY <1>3, <1>6, <2>4 DEF WriteEvent
    <3>2. cur' = cur
      BY <1>1, <1>3, <3>1 DEF TypeOK
    <3>3. Local(t, c)
      BY <1>1, <1>3, <1>5, <2>1, <3>1, <3>2 DEF TypeOK, Local
    <3>4. QED
      BY <1>2, <1>3, <1>5, <2>2, <3>1, <3>2, <3>3, WithCallback
  <2>5. QED
    BY <2>3, <2>4
<1>7. ASSUME NEW got \in BOOLEAN, NEW disconnected \in BOOLEAN, ReadEvent(t, got, disconnected)
      PROVE  ConnsOK' /\ Allowed
  <2>1. tcp' = [tcp EXCEPT ![c] = IoRead(tcp[c], got, disconnected)]
    BY <1>3, <1>7 DEF ReadEvent
  <2>2. c \in Conn => /\ tcp'[c].managed
                      /\ tcp'[c].state = tcp[c].state \/ tcp'[c].state = "Closing"
    BY <1>1, <1>3, <1>4, <2>1, IOStates DEF TypeOK
  <2>3. CASE ~tcp'[c].ibuf
    <3>1. cb' = cb /\ cur' = [cur EXCEPT ![t] = NoTcp]
      BY <1>3, <1>7, <2>3 DEF ReadEvent
    <3>2. Local(t, c)
      BY <1>1, <1>3, <1>5, <2>1, <3>1 DEF TypeOK, Local
    <3>3. QED
      BY <1>2, <1>3, <1>5, <2>2, <3>1, <3>2, WithoutCallback
  <2>4. CASE tcp'[c].ibuf
    <3>1. cb' = [cb EXCEPT ![t] = "recv"] /\ cur' = [cur EXCEPT ![t] = c]
      BY <1>3, <1>7, <2>4 DEF ReadEvent
    <3>2. cur' = cur
      BY <1>1, <1>3, <3>1 DEF TypeOK
    <3>3. Local(t, c)
      BY <1>1, <1>3, <1>5, <2>1, <3>1, <3>2 DEF TypeOK, Local
    <3>4. QED
      BY <1>2, <1>3, <1>5, <2>2, <3>1, <3>2, <3>3, WithCallback
  <2>5. QED
    BY <2>3, <2>4
<1>8. QED
  BY <1>6, <1>7 DEF Handle

LEMMA PollAllowed ==
    ASSUME IInv, IInv', ConnsOK, NEW t \in Thread, Poll(t)
    PROVE  ConnsOK' /\ Allowed
<1>1. CASE PollDone(t) \/ (t = 0 /\ \E l \in todo[0] : ListenEvent(l)) \/ (t = 0 /\ AcceptNone)
  BY <1>1, Inside DEF PollDone, ListenEvent, AcceptNone, sockVars, runVars, ctlVars
<1>2. QED
  BY <1>1, EventAllowed, HandleAllowed, AcceptAllowed DEF Poll

\* What a callback does before it returns.
LEMMA CallbackAllowed ==
    ASSUME IInv, IInv', ConnsOK, NEW t \in Thread, CallbackStep(t)
    PROVE  ConnsOK' /\ Allowed
<1>0. TypeOK /\ ThreadOK /\ SingleOwner /\ NoDanglingUse
  BY DEF IInv
<1>1. ASSUME NEW s \in Tcps, CbSend(t, s) \/ CbRecv(t, s) PROVE ConnsOK' /\ Allowed
  <2>1. tcp' = [tcp EXCEPT ![s] = Send(tcp[s])] \/ tcp' = [tcp EXCEPT ![s] = Recv(tcp[s])]
    BY <1>1 DEF CbSend, CbRecv
  <2>2. /\ Send(tcp[s]).state = tcp[s].state /\ Send(tcp[s]).managed = tcp[s].managed
        /\ Recv(tcp[s]).state = tcp[s].state /\ Recv(tcp[s]).managed = tcp[s].managed
    BY <1>0 DEF TypeOK, TcpRecord, Send, Recv
  <2>3. \A c \in Conn : tcp'[c].state = tcp[c].state /\ tcp'[c].managed = tcp[c].managed
    BY <1>0, <2>1, <2>2 DEF TypeOK, Tcps
  <2>4. QED
    BY <1>1, <2>3, Inside DEF CbSend, CbRecv, runVars, ctlVars
<1>2. ASSUME NEW s \in Tcps, CbClose(t, s) PROVE ConnsOK' /\ Allowed
  <2>1. /\ tcp' = [tcp EXCEPT ![s] = Close(tcp[s])]
        /\ UNCHANGED <<mem, sockets, cb, cur, runflag>>
        /\ s \in Reach(t) /\ pc[t] = "call" /\ tcp[s] # Close(tcp[s])
    BY <1>2 DEF CbClose, InCallback, runVars, ctlVars
  <2>2. Local(t, s)
    BY <1>0, <2>1 DEF TypeOK, Local
  <2>3. mem[s] = "live"
    <3>1. s \in sockets[t] => mem[s] = "live"
      BY <1>0, OwnedElsewhere DEF SingleOwner, InList
    <3>2. s = cur[t] => mem[s] = "live"
      BY <1>0, <2>1, OneTeller DEF ThreadOK, Tells
    <3>3. QED
      BY <2>1, <3>1, <3>2 DEF Reach
  <2>4. ASSUME s \in Conn PROVE ConnOK(s)' /\ Allowed
    <3>1. ConnOK(s) /\ Placed(s) /\ Placed(s)'
      BY <2>4, PlacedNow, PlacedNext DEF ConnsOK
    <3>2. /\ tcp[s].managed
          /\ tcp[s].state \in {"Connnecting", "Connected", "Refused", "Closing"}
          /\ tcp'[s].managed
          /\ tcp[s].state = "Connnecting" => tcp'[s].state = "Refused"
          /\ tcp[s].state # "Connnecting" => tcp'[s].state = "Closing"
      BY <1>0, <2>1, <2>3, <3>1 DEF ConnOK, Close, TypeOK, TcpRecord
    <3>3. ConnOK(s)'
      BY <2>1, <2>3, <3>1, <3>2 DEF ConnOK, Final
    <3>4. PhaseOf(s)' = "ending" /\ PhaseOf(s) \in {"opening", "open", "ending"}
      BY <2>1, <2>3, <3>2, PhaseIs, PhaseIsNext
    <3>5. HomeOf(s)' = HomeOf(s) /\ TellerOf(s)' = TellerOf(s) /\ ToldOf(s)' = ToldOf(s)
      BY <2>1, <3>1, SamePlace DEF InList, Tells
    <3>6. CASE PhaseOf(s) = "ending"
      BY <2>2, <2>4, <3>3, <3>4, <3>5, <3>6, OnOne DEF Unseen
    <3>7. CASE PhaseOf(s) # "ending"
      BY <2>2, <2>4, <3>3, <3>4, <3>5, <3>7, OnOne, Ends DEF Allowed
    <3>8. QED
      BY <3>6, <3>7
  <2>5. QED
    BY <2>2, <2>4, OnOne
<1>3. CASE CbConnect(t)
  BY <1>3, ConnectAllowed DEF CbConnect
<1>4. QED
  BY <1>1, <1>2, <1>3 DEF CallbackStep

\* The last callback of a socket returns.
LEMMA FinalAllowed ==
    ASSUME IInv, IInv', ConnsOK, NEW t \in Thread, ReturnFinal(t)
    PROVE  ConnsOK' /\ Allowed
<1>1. TypeOK /\ ThreadOK /\ SingleOwner /\ NoDanglingUse
  BY DEF IInv
<1>2. PICK c \in Tcps : /\ c = cur[t] /\ c \in sockets[t] /\ mem[c] = "live"
                        /\ \A u \in Thread \ {t} : c \notin sockets[u]
  BY <1>1, FinalSocket
<1>3. /\ mem' = [mem EXCEPT ![c] = "freed"]
      /\ tcp' = [tcp EXCEPT ![c] = NewTcp]
      /\ sockets' = [sockets EXCEPT ![t] = @ \ {c}]
      /\ cb' = [cb EXCEPT ![t] = "none"] /\ cur' = [cur EXCEPT ![t] = NoTcp]
      /\ runflag' = runflag /\ cb[t] \in {"closed", "refused"}
  BY <1>2 DEF ReturnFinal, Returning, EndCall, ctlVars
<1>4. Local(t, c)
  BY <1>1, <1>2, <1>3 DEF TypeOK, Local
<1>5. ASSUME c \in Conn PROVE ConnOK(c)' /\ Events!Next
  <2>1. Placed(c) /\ Placed(c)' /\ ConnOK(c)
    BY <1>5, PlacedNow, PlacedNext DEF ConnsOK
  <2>2. mem'[c] = "freed"
    BY <1>1, <1>3 DEF TypeOK
  <2>3. Tells(t, c) /\ Final(t, c) /\ \A u \in Thread \ {t} : ~Tells(u, c)
    BY <1>1, <1>2, <1>3, OneTeller DEF Tells, Final
  <2>4. PhaseOf(c) = "over" /\ PhaseOf(c)' = "gone"
    BY <1>2, <2>1, <2>2, <2>3, PhaseIs, PhaseIsNext DEF ConnOK
  <2>5. ToldOf(c) # "none"
    BY <1>3, <2>1, <2>3 DEF Placed
  <2>6. \A u \in Thread : ~InList(u, c)' /\ ~Tells(u, c)'
    BY <1>1, <1>2, <1>3, <2>3, EngineAssumption DEF TypeOK, InList, Tells
  <2>7. HomeOf(c)' = Nowhere /\ TellerOf(c)' = Nowhere /\ ToldOf(c)' = "none"
    BY <2>1, <2>6 DEF Placed
  <2>8. Events!Next
    BY <1>4, <1>5, <2>4, <2>5, <2>7, OnOne, ReturnsEnd
  <2>9. QED
    BY <2>2, <2>8 DEF ConnOK
<1>6. QED
  BY <1>4, <1>5, OnOne DEF Allowed

\* Any other callback returns, and the handler may close the socket.
LEMMA OtherReturns ==
    ASSUME IInv, IInv', ConnsOK, NEW t \in Thread, NEW c, c = cur[t],
           cb[t] \notin {"none", "closed", "refused"}, UNCHANGED <<mem, sockets, runflag>>,
           cb' = [cb EXCEPT ![t] = "none"],
           cur' = cur \/ cur' = [cur EXCEPT ![t] = NoTcp],
           \E ok : CloseUnless(ok, c) \/ AdjustInterest(c)
    PROVE  ConnsOK' /\ Allowed
<1>1. TypeOK /\ ThreadOK
  BY DEF IInv
<1>2. c \in Tcps /\ tcp[c] \in TcpRecord
  BY <1>1 DEF TypeOK, ThreadOK
<1>3. \E m : \/ tcp' = tcp \/ tcp' = [tcp EXCEPT ![c] = Close(tcp[c])]
             \/ tcp' = [tcp EXCEPT ![c].evmask = m]
  BY DEF CloseUnless, AdjustInterest
<1>4. Local(t, c)
  BY <1>1, <1>2, <1>3 DEF TypeOK, Local
<1>5. ASSUME c \in Conn PROVE ConnOK(c)' /\ Events!Next
  <2>1. /\ mem[c] = "live" /\ ToldOf(c) # "none" /\ tcp[c].managed
        /\ tcp[c].state \in {"Connected", "Refused", "Closing"}
        /\ Becomes(c, PhaseOf(c)', HomeOf(c), Nowhere, "none")
        /\ \A u \in Thread : ~Final(u, c)'
    BY <1>4, <1>5, CallEnds
  <2>2. Close(tcp[c]).managed /\ Close(tcp[c]).state = "Closing"
    BY <1>2, <2>1, IOStates
  <2>3. tcp'[c].managed /\ (tcp'[c].state = tcp[c].state \/ tcp'[c].state = "Closing")
    <3>1. tcp \in [Tcps -> TcpRecord]
      BY <1>1 DEF TypeOK
    <3>2. PICK m : \/ tcp' = tcp \/ tcp' = [tcp EXCEPT ![c] = Close(tcp[c])]
                   \/ tcp' = [tcp EXCEPT ![c].evmask = m]
      BY <1>3
    <3>3. CASE tcp' = tcp
      BY <3>3, <2>1
    <3>4. CASE tcp' = [tcp EXCEPT ![c] = Close(tcp[c])]
      <4>1. tcp'[c] = Close(tcp[c])
        BY <3>4, <3>1, <1>2
      <4>2. QED
        BY <4>1, <2>2
    <3>5. CASE tcp' = [tcp EXCEPT ![c].evmask = m]
      <4>1. tcp'[c] = [tcp[c] EXCEPT !.evmask = m]
        BY <3>5, <3>1, <1>2
      <4>2. tcp'[c].managed = tcp[c].managed /\ tcp'[c].state = tcp[c].state
        BY <4>1, <1>2 DEF TcpRecord
      <4>3. QED
        BY <4>2, <2>1
    <3>6. QED
      BY <3>2, <3>3, <3>4, <3>5
  <2>4. ConnOK(c)'
    BY <2>1, <2>3 DEF ConnOK
  <2>5. PhaseOf(c) \in {"open", "ending"}
    BY <2>1, PhaseIs
  <2>6. PhaseOf(c)' = PhaseOf(c) \/ (PhaseOf(c) = "open" /\ PhaseOf(c)' = "ending")
    BY <2>1, <2>3, <2>5, SamePhase, PhaseIs, PhaseIsNext
  <2>7. PhaseOf(c) \in Events!Phase /\ PhaseOf(c) # "over"
    BY <2>5 DEF Events!Phase
  <2>8. PICK q : q = PhaseOf(c)'
    OBVIOUS
  <2>9. Events!Next
    BY <1>5, <2>1, <2>6, <2>7, <2>8, Returns
  <2>10. QED
    BY <2>4, <2>9
<1>6. QED
  BY <1>4, <1>5, OnOne DEF Allowed

LEMMA ReturnAllowed ==
    ASSUME IInv, IInv', ConnsOK, NEW t \in Thread, Return(t)
    PROVE  ConnsOK' /\ Allowed
<1> USE DEF Returning, EndCall, AfterWrite, ctlVars
<1>1. ASSUME NEW ok \in BOOLEAN, ReturnTimeout(t, ok) PROVE ConnsOK' /\ Allowed
  BY <1>1, OtherReturns DEF ReturnTimeout
<1>2. ASSUME NEW ok \in BOOLEAN, ReturnOpened(t, ok) PROVE ConnsOK' /\ Allowed
  BY <1>2, OtherReturns DEF ReturnOpened
<1>3. ASSUME NEW ok \in BOOLEAN, ReturnSent(t, ok) PROVE ConnsOK' /\ Allowed
  BY <1>3, OtherReturns DEF ReturnSent
<1>4. ASSUME NEW ok \in BOOLEAN, ReturnRecv(t, ok) PROVE ConnsOK' /\ Allowed
  BY <1>4, OtherReturns DEF ReturnRecv
<1>5. ASSUME t = 0, NEW ok \in BOOLEAN, NEW i, ReturnAccepted(ok, i) PROVE ConnsOK' /\ Allowed
  BY <1>5, OtherReturns DEF ReturnAccepted
<1>6. QED
  BY <1>1, <1>2, <1>3, <1>4, <1>5, FinalAllowed DEF Return

\* A thread that stops deletes what is in its inbox and in its list.
LEMMA DrainAllowed ==
    ASSUME IInv, IInv', ConnsOK, DrainsStopped, NEW t \in Thread, DrainInbox(t)
    PROVE  ConnsOK' /\ Allowed
<1>1. TypeOK /\ ThreadOK /\ SingleOwner /\ NoDanglingUse
  BY DEF IInv
<1>2. t \in Inbox /\ inbox[t] # <<>> /\ inbox' = [inbox EXCEPT ![t] = Tail(@)]
  BY EngineAssumption DEF Thread, Inbox, DrainInbox
<1>3. PICK x \in Tcps : x = Head(inbox[t])
  BY <1>1, <1>2 DEF TypeOK
<1>4. mem[x] = "live" /\ \A u \in Thread : ~InList(u, x) /\ ~Accepting(u, x)
  BY <1>1, <1>2, <1>3, HeadLeaves
<1>5. /\ mem' = [mem EXCEPT ![x] = "freed"]
      /\ tcp' = [tcp EXCEPT ![x] = NewTcp]
      /\ UNCHANGED <<sockets, cb, cur, runflag>>
      /\ ~runflag[t]
  BY <1>3 DEF DrainInbox, DrainsStopped, runVars, ctlVars
<1>6. Local(t, x) /\ mem'[x] = "freed"
  BY <1>1, <1>5 DEF TypeOK, Local
<1>7. \A u \in Thread : ~Tells(u, x)
  BY <1>1, <1>4, EngineAssumption DEF NoDanglingUse, Tells
<1>8. ASSUME x \in Conn PROVE ConnOK(x)' /\ Events!Next
  <2>1. Placed(x) /\ Placed(x)' /\ ConnOK(x)
    BY <1>8, PlacedNow, PlacedNext DEF ConnsOK
  <2>2. tcp[x].state \in {"Connnecting", "Connected", "Refused", "Closing"}
    BY <1>4, <1>7, <2>1 DEF ConnOK, Final, Tells
  <2>3. PhaseOf(x) \in {"opening", "open", "ending"} /\ PhaseOf(x)' = "gone"
    BY <1>4, <1>6, <2>2, PhaseIs, PhaseIsNext
  <2>4. /\ HomeOf(x) = Nowhere /\ ToldOf(x) = "none" /\ TellerOf(x) = Nowhere
        /\ HomeOf(x)' = Nowhere /\ ToldOf(x)' = "none" /\ TellerOf(x)' = Nowhere
    BY <1>4, <1>5, <1>7, <2>1 DEF Placed, Tells, InList
  <2>5. {x} \in SUBSET Conn /\ {x} # {} /\ \A c \in Conn \ {x} : Unseen(c)
    BY <1>6, <1>8, OthersUnseen
  <2>6. Events!Next
    BY <1>5, <2>3, <2>4, <2>5, Kills
  <2>7. QED
    BY <1>6, <2>6 DEF ConnOK
<1>9. QED
  BY <1>6, <1>8, OnOne DEF Allowed

LEMMA KillAllowed ==
    ASSUME IInv, IInv', ConnsOK, DrainsStopped, NEW t \in Thread, KillSockets(t)
    PROVE  ConnsOK' /\ Allowed
<1>1. TypeOK /\ ThreadOK /\ SingleOwner /\ NoDanglingUse
  BY DEF IInv
<1>2. /\ \A s \in Tcps : /\ mem'[s] = IF s \in sockets[t] THEN "freed" ELSE mem[s]
                         /\ tcp'[s] = IF s \in sockets[t] THEN NewTcp ELSE tcp[s]
      /\ sockets' = [sockets EXCEPT ![t] = {}]
      /\ UNCHANGED <<cb, cur, runflag>>
      /\ ~runflag[t] /\ cb[t] = "none"
  BY <1>1 DEF KillSockets, DrainsStopped, runVars, ctlVars, ThreadOK, TypeOK
<1>3. ASSUME NEW c \in Conn
      PROVE  c \in Tcps /\ Placed(c) /\ Placed(c)' /\ ConnOK(c)
  BY PlacedNow, PlacedNext DEF ConnsOK, Tcps
<1>4. ASSUME NEW c \in Conn, c \notin sockets[t] PROVE Unseen(c) /\ ConnOK(c)'
  <2>1. mem'[c] = mem[c] /\ tcp'[c] = tcp[c]
    BY <1>2, <1>3, <1>4
  <2>2. \A u \in Thread : InList(u, c)' <=> InList(u, c)
    BY <1>1, <1>2, <1>4 DEF TypeOK, InList
  <2>3. \A u \in Thread : (Tells(u, c)' <=> Tells(u, c)) /\ cb'[u] = cb[u]
    BY <1>2 DEF Tells
  <2>4. Unseen(c)
    BY <1>3, <2>1, <2>2, <2>3, SamePhase, SamePlace DEF Unseen
  <2>5. ConnOK(c)'
    BY <1>2, <1>3, <2>1 DEF ConnOK, Final
  <2>6. QED
    BY <2>4, <2>5
<1>5. ASSUME NEW c \in Conn, c \in sockets[t]
      PROVE  /\ PhaseOf(c) \in {"opening", "open", "ending"}
             /\ ToldOf(c) = "none" /\ HomeOf(c) \in {t, Nowhere}
             /\ PhaseOf(c)' = "gone" /\ HomeOf(c)' = Nowhere
             /\ ToldOf(c)' = ToldOf(c) /\ TellerOf(c)' = TellerOf(c)
             /\ ConnOK(c)'
  <2>1. mem[c] = "live" /\ InList(t, c) /\ \A u \in Thread \ {t} : ~InList(u, c)
    BY <1>1, <1>3, <1>5, OwnedElsewhere DEF SingleOwner, InList, ListOwns
  <2>2. \A u \in Thread : ~Tells(u, c)
    BY <1>1, <1>2, <1>3, <2>1, OneTeller DEF Tells
  <2>3. tcp[c].state \in {"Connnecting", "Connected", "Refused", "Closing"}
    BY <1>3, <2>1, <2>2 DEF ConnOK, Final, Tells
  <2>4. mem'[c] = "freed"
    BY <1>2, <1>3, <1>5
  <2>5. PhaseOf(c) \in {"opening", "open", "ending"} /\ PhaseOf(c)' = "gone"
    BY <2>1, <2>3, <2>4, PhaseIs, PhaseIsNext
  <2>6. \A u \in Thread : ~InList(u, c)' /\ ~Tells(u, c)'
    BY <1>1, <1>2, <2>1, <2>2 DEF TypeOK, InList, Tells
  <2>7. QED
    BY <1>3, <2>1, <2>2, <2>4, <2>5, <2>6 DEF Placed, ConnOK
<1>6. ConnsOK'
  BY <1>4, <1>5 DEF ConnsOK
<1>7. CASE sockets[t] \cap Conn = {}
  BY <1>2, <1>4, <1>6, <1>7, Stutters DEF Allowed
<1>8. CASE sockets[t] \cap Conn # {}
  <2>1. PICK S \in SUBSET Conn : S = sockets[t] \cap Conn
    OBVIOUS
  <2>2. Events!Next
    BY <1>2, <1>4, <1>5, <1>8, <2>1, Kills
  <2>3. QED
    BY <1>6, <2>2 DEF Allowed
<1>9. QED
  BY <1>7, <1>8

LEMMA ThreadAllowed ==
    ASSUME IInv, IInv', ConnsOK, DrainsStopped, NEW t \in Thread, ThreadStep(t)
    PROVE  ConnsOK' /\ Allowed
<1>1. CASE ThreadInit(t) \/ Loop(t) \/ InboxDone(t)
  BY <1>1, Inside DEF ThreadInit, Loop, InboxDone, sockVars, runVars, ctlVars
<1>2. QED
  BY <1>1, AdoptAllowed, WalkAllowed, PollAllowed, DrainAllowed, KillAllowed DEF ThreadStep

LEMMA AppAllowed ==
    ASSUME IInv, IInv', ConnsOK, NEW a \in App, AppStep(a)
    PROVE  ConnsOK' /\ Allowed
<1>1. CASE AppListen(a)
  <2>1. \A c \in Conn : mem'[c] = mem[c] /\ tcp'[c] = tcp[c]
    BY <1>1, EngineAssumption DEF IInv, TypeOK, AppListen, Tcps
  <2>2. ASSUME NEW c \in Conn PROVE Unseen(c)
    <3>1. Placed(c) /\ Placed(c)'
      BY PlacedNow, PlacedNext
    <3>2. UNCHANGED <<sockets, cb, cur>>
      BY <1>1 DEF AppListen, runVars
    <3>3. QED
      BY <2>1, <3>1, <3>2, SamePhase, SamePlace DEF Unseen, InList, Tells
  <2>3. ConnsOK' /\ runflag' = runflag
    BY <1>1, <2>1 DEF ConnsOK, ConnOK, Final, AppListen, runVars, ctlVars
  <2>4. QED
    BY <2>2, <2>3, Stutters DEF Allowed
<1>2. CASE AppConnect(a)
  BY <1>2, ConnectAllowed DEF AppConnect
<1>3. QED
  BY <1>1, <1>2 DEF AppStep

LEMMA NextAllowed ==
    IInv /\ IInv' /\ ConnsOK /\ DrainsStopped /\ [Next]_vars
        => ConnsOK' /\ [Events!Next]_(Events!vars)
<1> SUFFICES ASSUME IInv, IInv', ConnsOK, DrainsStopped, [Next]_vars
             PROVE  ConnsOK' /\ Allowed
  BY DEF Allowed
<1>1. CASE UNCHANGED vars \/ Rest
  BY <1>1, Inside DEF Rest, vars, sockVars, runVars, ctlVars
<1>2. QED
  BY <1>1, ControlAllowed, AppAllowed, ThreadAllowed, CallbackAllowed, ReturnAllowed DEF Next

LEMMA InitAllowed == Init => ConnsOK /\ Events!Init
<1> SUFFICES ASSUME Init PROVE ConnsOK /\ Events!Init
  OBVIOUS
<1>1. ConnsOK
  BY DEF Init, ConnsOK, ConnOK, Tcps
<1>2. ASSUME NEW c \in Conn
      PROVE  /\ PhaseOf(c) = "unborn" /\ HomeOf(c) = Nowhere
             /\ TellerOf(c) = Nowhere /\ ToldOf(c) = "none"
  <2>1. PhaseOf(c) = "unborn"
    BY PhaseIs DEF Init, Tcps
  <2>2. Placed(c)
    BY IInvInit, PlacedNow
  <2>3. QED
    BY <2>1, <2>2 DEF Placed, InList, Tells, Init
<1>3. {t \in Thread : runflag[t]} = {}
  BY DEF Init
<1>4. QED
  BY <1>1, <1>2, <1>3 DEF Events!Init

\* The engine keeps its promise to the application (doc/engine.md, "Events"): the
\* detailed engine implements SocketEvents under the mapping of NetEngineEvents.
THEOREM EngineKeepsEvents == Spec => KeepsEvents
<1>1. Init => DrainsStopped
  BY DEF Init, DrainsStopped
<1>2. IInv => TypeOK
  BY DEF IInv
<1>3. QED
  BY <1>1, <1>2, IInvAlways, DrainsStoppedStep, InitAllowed, NextAllowed, PTL
  DEF Spec, KeepsEvents, Events!Spec
==============================================================================
