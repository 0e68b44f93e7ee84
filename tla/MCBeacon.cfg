\* Two services, one of which may die once and come back; the other calls remove_peer() once.
\* Every order of what is under way, every loss of it.
CONSTANTS
    n1 = n1  n2 = n2  NoPeer = NoPeer
    Node <- TwoNodes
    Indices = 2
    CreateId <- TwoIds
    Mortal <- OnlyN2
    Removers <- OnlyN1
    MaxCrashes = 1
    MaxDraws = 2
    MaxRemoves = 1
    MaxFlight = 3
SPECIFICATION FairSpec
INVARIANTS TypeOK UniqueIds ToldWhatTableHolds
PROPERTIES DeadPeersLeave
