----------------------------- MODULE ByteQueues -----------------------------
(***************************************************************************)
(* What a Buffer is to its user (buffer.h): a queue of bytes that grows at  *)
(* its tail in two steps - bytes are offered, then some of them committed - *)
(* and shrinks at both ends.  No memory, no head, no allocation.            *)
(***************************************************************************)
EXTENDS Naturals, Sequences

CONSTANTS Buf, Byte

VARIABLES
    queue,      \* the bytes of a buffer
    offered     \* the bytes its user has written behind them, not committed yet

vars == <<queue, offered>>

Init ==
    /\ queue = [b \in Buf |-> <<>>]
    /\ offered = [b \in Buf |-> <<>>]

\* The user has written s behind the queue.
Offer(b, s) ==
    /\ offered' = [offered EXCEPT ![b] = s]
    /\ UNCHANGED queue

\* Nothing is offered any more, and the queue is what it was.
Withdraw(b) ==
    /\ offered' = [offered EXCEPT ![b] = <<>>]
    /\ UNCHANGED queue

\* The first k bytes offered join the queue.
Commit(b, k) ==
    /\ k <= Len(offered[b])
    /\ queue' = [queue EXCEPT ![b] = @ \o SubSeq(offered[b], 1, k)]
    /\ offered' = [offered EXCEPT ![b] = <<>>]

DropHead(b, n) ==
    /\ n <= Len(queue[b])
    /\ queue' = [queue EXCEPT ![b] = SubSeq(@, n + 1, Len(@))]
    /\ UNCHANGED offered

DropTail(b, n) ==
    /\ n <= Len(queue[b])
    /\ queue' = [queue EXCEPT ![b] = SubSeq(@, 1, Len(@) - n)]
    /\ UNCHANGED offered

Clear(b) ==
    /\ queue' = [queue EXCEPT ![b] = <<>>]
    /\ UNCHANGED offered

Copy(b, o) ==
    /\ queue' = [queue EXCEPT ![b] = queue[o]]
    /\ UNCHANGED offered

Move(b, o) ==
    /\ queue' = [queue EXCEPT ![b] = queue[o], ![o] = <<>>]
    /\ UNCHANGED offered

\* A queue that is being changed is one nothing is offered to.
Next ==
    \E b \in Buf :
        \/ offered'[b] \in Seq(Byte) /\ Offer(b, offered'[b])
        \/ Withdraw(b)
        \/ \E k \in 0 .. Len(offered[b]) : Commit(b, k)
        \/ /\ offered[b] = <<>>
           /\ \/ \E n \in 0 .. Len(queue[b]) : DropHead(b, n) \/ DropTail(b, n)
              \/ Clear(b)
              \/ \E o \in Buf \ {b} : offered[o] = <<>> /\ (Copy(b, o) \/ Move(b, o))

Spec == Init /\ [][Next]_vars
=============================================================================
