------------------------------- MODULE Buffer -------------------------------
(***************************************************************************)
(* The elastic buffer of buffer.h/buffer.cpp: an allocation that only       *)
(* grows, padded to Align bytes, and the part of it that holds the bytes,   *)
(* `size' of them from `head' on.  reserve_begin() makes room behind them,  *)
(* by growing or by sliding the bytes to the front, and gives its caller    *)
(* the address; the caller fills the room and reserve_end() commits some of *)
(* it.                                                                      *)
(*                                                                          *)
(* Between the two the caller makes no other call on the buffer, and it     *)
(* commits no more than it reserved, as in Tcp::send and Tcp::io_read.      *)
(***************************************************************************)
EXTENDS Naturals, Sequences

CONSTANTS
    Buf,         \* the Buffer objects
    Byte,        \* what their users write
    Junk,        \* what fresh memory holds
    Align,       \* allocations are multiples of it (16)
    SizeLimit,   \* bound: no address space holds a larger buffer
    MaxRequest   \* bound: bytes reserved at once

ASSUME BufferAssumption ==
    /\ Align \in Nat \ {0} /\ SizeLimit \in Nat /\ MaxRequest \in Nat
    /\ Junk \notin Byte

VARIABLES
    buf,        \* the members of each object
    room        \* bytes its caller has reserved and not committed yet

vars == <<buf, room>>

Memory(n) == [0 .. n - 1 -> Byte \cup {Junk}]

\* Buffer::Buffer()
Empty == [mem |-> [i \in {} |-> Junk], allocated |-> 0, head |-> 0, size |-> 0]

TypeOK ==
    /\ buf = [b \in Buf |-> buf[b]]
    /\ \A b \in Buf :
          /\ buf[b] = [mem |-> buf[b].mem, allocated |-> buf[b].allocated,
                       head |-> buf[b].head, size |-> buf[b].size]
          /\ buf[b].allocated \in Nat /\ buf[b].head \in Nat /\ buf[b].size \in Nat
          /\ buf[b].mem \in Memory(buf[b].allocated)
    /\ room \in [Buf -> Nat]

Init ==
    /\ buf = [b \in Buf |-> Empty]
    /\ room = [b \in Buf |-> 0]

------------------------------------------------------------------------------
(* The methods, on the members of one object. *)

Pad(n) == ((n + (Align - 1)) \div Align) * Align

\* Mutant of Grown: the memory is new, the bytes are not carried over.
Grown_Fresh(r, n) ==
    IF r.allocated >= Pad(n) THEN r
    ELSE [r EXCEPT !.mem = [i \in 0 .. Pad(n) - 1 |-> Junk], !.allocated = Pad(n)]

\* realloc(): at least n bytes, never fewer than before.
Grown(r, n) ==
    IF r.allocated >= Pad(n) THEN r
    ELSE [r EXCEPT !.mem = [i \in 0 .. Pad(n) - 1 |->
                               IF i < r.allocated THEN r.mem[i] ELSE Junk],
                   !.allocated = Pad(n)]

\* Mutant of Slid: the head is forgotten.
Slid_SizeOnly(r, n) ==
    IF r.allocated > r.size + n THEN r
    ELSE [r EXCEPT !.mem = [i \in 0 .. r.allocated - 1 |->
                               IF i < r.size THEN r.mem[r.head + i] ELSE r.mem[i]],
                   !.head = 0]

\* Move the bytes to the front when n more would not fit behind them.
Slid(r, n) ==
    IF r.allocated > r.head + r.size + n THEN r
    ELSE [r EXCEPT !.mem = [i \in 0 .. r.allocated - 1 |->
                               IF i < r.size THEN r.mem[r.head + i] ELSE r.mem[i]],
                   !.head = 0]

\* The caller writes s at the address it was given.
Filled(r, s) ==
    [r EXCEPT !.mem = [i \in 0 .. r.allocated - 1 |->
        IF i >= r.head + r.size /\ i < r.head + r.size + Len(s)
        THEN s[i - (r.head + r.size) + 1] ELSE r.mem[i]]]

\* n bytes fewer, `skip' of them at the front; an empty buffer starts over.
Trimmed(r, skip, n) ==
    [mem |-> r.mem, allocated |-> r.allocated,
     head |-> IF r.size = n THEN 0 ELSE r.head + skip, size |-> r.size - n]

\* A copy is allocated for the bytes there are, which go to its front.
Copied(r) ==
    [mem       |-> [i \in 0 .. Pad(r.size) - 1 |-> IF i < r.size THEN r.mem[r.head + i] ELSE Junk],
     allocated |-> Pad(r.size), head |-> 0, size |-> r.size]

------------------------------------------------------------------------------
(* The calls. *)

Addressable(b, n) == buf[b].size + n + Align <= SizeLimit

ReserveBegin(b, s) ==
    /\ Addressable(b, Len(s))
    /\ LET n == Len(s)
       IN  buf' = [buf EXCEPT ![b] = Filled(Slid(Grown(@, @.size + n), n), s)]
    /\ room' = [room EXCEPT ![b] = Len(s)]

\* The memory could not be had: false, and the caller has nothing to write to.
ReserveFails(b, n) ==
    /\ buf[b].allocated < Pad(buf[b].size + n)
    /\ room' = [room EXCEPT ![b] = 0]
    /\ UNCHANGED buf

ReserveEnd(b, k) ==
    /\ k <= room[b]
    /\ buf' = IF k > 0 /\ buf[b].head + buf[b].size + k <= buf[b].allocated
              THEN [buf EXCEPT ![b].size = @ + k] ELSE buf
    /\ room' = [room EXCEPT ![b] = 0]

\* Mutant of TrimHead: it takes what it is told.
TrimHead_Unchecked(b, n) ==
    /\ room[b] = 0
    /\ buf' = [buf EXCEPT ![b] = Trimmed(@, n, n)]
    /\ UNCHANGED room

\* trim_head() and trim_tail() turn down more than there is.
TrimHead(b, n) ==
    /\ room[b] = 0 /\ n <= buf[b].size
    /\ buf' = [buf EXCEPT ![b] = Trimmed(@, n, n)]
    /\ UNCHANGED room

TrimTail(b, n) ==
    /\ room[b] = 0 /\ n <= buf[b].size
    /\ buf' = [buf EXCEPT ![b] = Trimmed(@, 0, n)]
    /\ UNCHANGED room

Free(b) ==
    /\ room[b] = 0
    /\ buf' = [buf EXCEPT ![b] = Empty]
    /\ UNCHANGED room

\* operator=(const Buffer&) and, on a new object, the copy constructor.
CopyAssign(b, o) ==
    /\ b # o /\ room[b] = 0 /\ room[o] = 0
    /\ buf' = [buf EXCEPT ![b] = Copied(buf[o])]
    /\ UNCHANGED room

\* std::bad_alloc: b has been freed.
CopyFails(b, o) ==
    /\ b # o /\ room[b] = 0 /\ room[o] = 0 /\ buf[o].size > 0
    /\ buf' = [buf EXCEPT ![b] = Empty]
    /\ UNCHANGED room

\* operator=(Buffer&&) and, on a new object, the move constructor.
MoveAssign(b, o) ==
    /\ b # o /\ room[b] = 0 /\ room[o] = 0
    /\ buf' = [buf EXCEPT ![b] = buf[o], ![o] = Empty]
    /\ UNCHANGED room

Next ==
    \E b \in Buf :
        \/ \E n \in 0 .. MaxRequest :
              \/ \E s \in [1 .. n -> Byte] : ReserveBegin(b, s)
              \/ ReserveFails(b, n)
        \/ \E k \in 0 .. MaxRequest : ReserveEnd(b, k)
        \/ \E n \in 0 .. SizeLimit : TrimHead(b, n) \/ TrimTail(b, n)
        \/ Free(b)
        \/ \E o \in Buf : CopyAssign(b, o) \/ CopyFails(b, o) \/ MoveAssign(b, o)

Spec == Init /\ [][Next]_vars

------------------------------------------------------------------------------

\* The bytes of a buffer and the room its caller writes to lie inside the
\* allocation, after any sequence of calls (buffer.cpp:64-91: three numbers are kept
\* by hand, and the address given out depends on all of them).
InBounds ==
    \A b \in Buf : buf[b].head + buf[b].size + room[b] <= buf[b].allocated

Content(r)    == [i \in 1 .. r.size |-> r.mem[r.head + i - 1]]
Written(r, n) == [i \in 1 .. n |-> r.mem[r.head + r.size + i - 1]]

Queues == INSTANCE ByteQueues WITH
    queue   <- [b \in Buf |-> Content(buf[b])],
    offered <- [b \in Buf |-> Written(buf[b], room[b])]

\* A buffer is a queue of bytes: growing, sliding, trimming, copying and failing
\* calls lose, repeat and reorder nothing (buffer.h:34-56).
KeepsBytes == Queues!Spec
=============================================================================
