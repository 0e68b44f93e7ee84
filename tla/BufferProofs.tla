---------------------------- MODULE BufferProofs ----------------------------
(***************************************************************************)
(* Buffer stays inside its allocation and is a queue of bytes, for any      *)
(* alignment, any number of buffers and any sequence of calls.              *)
(***************************************************************************)
EXTENDS Buffer, SequenceTheorems, TLAPS

\* The members of one object describe a part of its allocation.
Sound(r) ==
    /\ r = [mem |-> r.mem, allocated |-> r.allocated, head |-> r.head, size |-> r.size]
    /\ r.allocated \in Nat /\ r.head \in Nat /\ r.size \in Nat
    /\ r.mem \in Memory(r.allocated)
    /\ r.head + r.size <= r.allocated

LEMMA PadBound == \A n \in Nat : Pad(n) \in Nat /\ Pad(n) >= n
<1>a. TAKE n \in Nat
<1> DEFINE d == n + (Align - 1)
<1>1. d \in Nat /\ Align \in Nat /\ Align > 0
  BY BufferAssumption
<1>2. d = Align * (d \div Align) + (d % Align) /\ d % Align \in 0 .. Align - 1
  BY <1>1
<1>3. d \div Align \in Nat
  BY <1>1
<1>4. QED
  BY <1>1, <1>2, <1>3 DEF Pad

------------------------------------------------------------------------------
(* The methods keep the members sound. *)

LEMMA EmptySound == Sound(Empty)
BY DEF Sound, Empty, Memory

\* realloc() leaves the bytes alone and makes room for n bytes in all.
LEMMA GrownSound ==
    ASSUME NEW r, Sound(r), NEW n \in Nat
    PROVE  /\ Sound(Grown(r, n))
           /\ Grown(r, n).allocated >= n
           /\ Grown(r, n).head = r.head /\ Grown(r, n).size = r.size
           /\ \A i \in 0 .. r.allocated - 1 : Grown(r, n).mem[i] = r.mem[i]
<1>1. Pad(n) \in Nat /\ Pad(n) >= n
  BY PadBound
<1>2. CASE r.allocated >= Pad(n)
  BY <1>1, <1>2 DEF Grown, Sound
<1>3. CASE ~(r.allocated >= Pad(n))
  <2> DEFINE g == Grown(r, n)
             m == [i \in 0 .. Pad(n) - 1 |-> IF i < r.allocated THEN r.mem[i] ELSE Junk]
  <2>1. g = [mem |-> m, allocated |-> Pad(n), head |-> r.head, size |-> r.size]
    BY <1>3 DEF Grown, Sound
  <2>2. m \in Memory(Pad(n))
    BY DEF Sound, Memory
  <2>3. \A i \in 0 .. r.allocated - 1 : m[i] = r.mem[i]
    BY <1>1, <1>3 DEF Sound
  <2> HIDE DEF g, m
  <2>4. QED
    BY <1>1, <1>3, <2>1, <2>2, <2>3 DEF Sound, g
<1>4. QED
  BY <1>2, <1>3

\* After the slide n more bytes fit behind the bytes there are, which are the same.
LEMMA SlidSound ==
    ASSUME NEW r, Sound(r), NEW n \in Nat, r.allocated >= r.size + n
    PROVE  /\ Sound(Slid(r, n))
           /\ Slid(r, n).allocated >= Slid(r, n).head + Slid(r, n).size + n
           /\ Slid(r, n).size = r.size
           /\ \A i \in 0 .. r.size - 1 :
                 Slid(r, n).mem[Slid(r, n).head + i] = r.mem[r.head + i]
<1>1. CASE r.allocated > r.head + r.size + n
  BY <1>1 DEF Slid, Sound
<1>2. CASE ~(r.allocated > r.head + r.size + n)
  <2> DEFINE g == Slid(r, n)
             m == [i \in 0 .. r.allocated - 1 |->
                      IF i < r.size THEN r.mem[r.head + i] ELSE r.mem[i]]
  <2>1. g = [mem |-> m, allocated |-> r.allocated, head |-> 0, size |-> r.size]
    BY <1>2 DEF Slid, Sound
  <2>2. m \in Memory(r.allocated)
    BY DEF Sound, Memory
  <2>3. \A i \in 0 .. r.size - 1 : m[i] = r.mem[r.head + i]
    BY DEF Sound
  <2> HIDE DEF g, m
  <2>4. QED
    BY <2>1, <2>2, <2>3 DEF Sound, g
<1>3. QED
  BY <1>1, <1>2

\* What the caller writes goes behind the bytes there are, which are the same.
LEMMA FilledSound ==
    ASSUME NEW r, Sound(r), NEW s \in Seq(Byte), r.allocated >= r.head + r.size + Len(s)
    PROVE  /\ Sound(Filled(r, s))
           /\ Filled(r, s).allocated = r.allocated
           /\ Filled(r, s).head = r.head /\ Filled(r, s).size = r.size
           /\ \A i \in 0 .. r.size - 1 : Filled(r, s).mem[r.head + i] = r.mem[r.head + i]
           /\ \A i \in 1 .. Len(s) : Filled(r, s).mem[r.head + r.size + i - 1] = s[i]
<1> DEFINE g == Filled(r, s)
           m == [i \in 0 .. r.allocated - 1 |->
                    IF i >= r.head + r.size /\ i < r.head + r.size + Len(s)
                    THEN s[i - (r.head + r.size) + 1] ELSE r.mem[i]]
<1> HIDE DEF m
<1>a. [r EXCEPT !.mem = m] = [mem |-> m, allocated |-> r.allocated, head |-> r.head,
                              size |-> r.size]
  BY DEF Sound
<1>b. g = [r EXCEPT !.mem = m]
  BY Zenon DEF Filled, m
<1>1. g = [mem |-> m, allocated |-> r.allocated, head |-> r.head, size |-> r.size]
  BY <1>a, <1>b
<1> USE DEF m
<1>2. m \in Memory(r.allocated)
  <2>1. ASSUME NEW i \in 0 .. r.allocated - 1, i >= r.head + r.size, i < r.head + r.size + Len(s)
        PROVE  s[i - (r.head + r.size) + 1] \in Byte
    <3>1. i - (r.head + r.size) + 1 \in 1 .. Len(s)
      BY <2>1 DEF Sound
    <3>2. QED
      BY <3>1
  <2>2. QED
    BY <2>1 DEF Sound, Memory
<1>3. \A i \in 0 .. r.size - 1 : m[r.head + i] = r.mem[r.head + i]
  BY DEF Sound
<1>4. ASSUME NEW i \in 1 .. Len(s) PROVE m[r.head + r.size + i - 1] = s[i]
  <2>1. r.head + r.size + i - 1 \in 0 .. r.allocated - 1
    BY DEF Sound
  <2>2. r.head + r.size + i - 1 - (r.head + r.size) + 1 = i
    BY DEF Sound
  <2>3. QED
    BY <2>1, <2>2 DEF Sound
<1> HIDE DEF g, m
<1>5. QED
  BY <1>1, <1>2, <1>3, <1>4 DEF Sound, g

LEMMA TrimmedSound ==
    ASSUME NEW r, Sound(r), NEW n \in Nat, n <= r.size, NEW skip \in {0, n}
    PROVE  Sound(Trimmed(r, skip, n)) /\ Trimmed(r, skip, n).size = r.size - n
<1> DEFINE h == IF r.size = n THEN 0 ELSE r.head + skip
<1>1. Trimmed(r, skip, n) = [mem |-> r.mem, allocated |-> r.allocated, head |-> h,
                             size |-> r.size - n]
  BY DEF Trimmed
<1>2. h \in Nat /\ r.size - n \in Nat /\ h + (r.size - n) <= r.allocated
  BY DEF Sound
<1> HIDE DEF h
<1>3. QED
  BY <1>1, <1>2 DEF Sound

LEMMA CopiedSound ==
    ASSUME NEW r, Sound(r)
    PROVE  /\ Sound(Copied(r)) /\ Copied(r).size = r.size
           /\ \A i \in 0 .. r.size - 1 : Copied(r).mem[i] = r.mem[r.head + i]
<1> DEFINE m == [i \in 0 .. Pad(r.size) - 1 |-> IF i < r.size THEN r.mem[r.head + i] ELSE Junk]
<1>1. Pad(r.size) \in Nat /\ Pad(r.size) >= r.size
  BY PadBound DEF Sound
<1>2. m \in Memory(Pad(r.size))
  BY <1>1 DEF Sound, Memory
<1>3. \A i \in 0 .. r.size - 1 : m[i] = r.mem[r.head + i]
  BY <1>1 DEF Sound
<1>4. Copied(r) = [mem |-> m, allocated |-> Pad(r.size), head |-> 0, size |-> r.size]
  BY DEF Copied
<1> HIDE DEF m
<1>5. QED
  BY <1>1, <1>2, <1>3, <1>4 DEF Sound

------------------------------------------------------------------------------
(* The invariant: TypeOK and InBounds together are inductive. *)

IInv == TypeOK /\ InBounds

LEMMA BufSound == ASSUME IInv, NEW b \in Buf PROVE Sound(buf[b]) /\ room[b] \in Nat
BY DEF IInv, TypeOK, InBounds, Sound

\* A call that changes one object, which is left sound with its room inside.
LEMMA OneChanges ==
    ASSUME IInv, NEW b \in Buf, NEW r, Sound(r), NEW k \in Nat,
           r.head + r.size + k <= r.allocated,
           buf' = [buf EXCEPT ![b] = r], room' = [room EXCEPT ![b] = k]
    PROVE  IInv'
<1>1. /\ buf' = [c \in Buf |-> IF c = b THEN r ELSE buf[c]]
      /\ room' = [c \in Buf |-> IF c = b THEN k ELSE room[c]]
  BY DEF IInv, TypeOK
<1>2. \A c \in Buf : /\ Sound(buf[c]) /\ room[c] \in Nat
                     /\ buf[c].head + buf[c].size + room[c] <= buf[c].allocated
  BY BufSound DEF IInv, InBounds
<1>3. \A c \in Buf : /\ Sound(buf'[c]) /\ room'[c] \in Nat
                     /\ buf'[c].head + buf'[c].size + room'[c] <= buf'[c].allocated
  BY <1>1, <1>2
<1>4. room' \in [Buf -> Nat] /\ buf' = [c \in Buf |-> buf'[c]]
  BY <1>1, <1>2
<1>5. QED
  BY <1>3, <1>4 DEF IInv, TypeOK, InBounds, Sound

LEMMA IInvInit == Init => IInv
BY EmptySound DEF Init, IInv, TypeOK, InBounds, Sound, Empty

\* What reserve_begin() makes of the members, and what its caller then holds.
Reserved(r, s) == Filled(Slid(Grown(r, r.size + Len(s)), Len(s)), s)

LEMMA ReservedSound ==
    ASSUME NEW r, Sound(r), NEW s \in Seq(Byte)
    PROVE  LET g == Reserved(r, s)
           IN  /\ Sound(g) /\ g.size = r.size
               /\ g.head + g.size + Len(s) <= g.allocated
               /\ \A i \in 0 .. r.size - 1 : g.mem[g.head + i] = r.mem[r.head + i]
               /\ \A i \in 1 .. Len(s) : g.mem[g.head + g.size + i - 1] = s[i]
<1> DEFINE n == Len(s)
           w == Grown(r, r.size + n)
           v == Slid(w, n)
           g == Filled(v, s)
<1>1. n \in Nat /\ r.size + n \in Nat /\ r.size \in Nat /\ r.head \in Nat
  BY DEF Sound
<1>2. /\ Sound(w) /\ w.allocated >= r.size + n /\ w.head = r.head /\ w.size = r.size
      /\ \A i \in 0 .. r.allocated - 1 : w.mem[i] = r.mem[i]
  BY <1>1, GrownSound
<1>3. \A i \in 0 .. r.size - 1 : w.mem[w.head + i] = r.mem[r.head + i]
  BY <1>1, <1>2 DEF Sound
<1> HIDE DEF w, n
<1>4. /\ Sound(v) /\ v.allocated >= v.head + v.size + n /\ v.size = w.size
      /\ \A i \in 0 .. w.size - 1 : v.mem[v.head + i] = w.mem[w.head + i]
  BY <1>1, <1>2, SlidSound
<1> HIDE DEF v
<1>5. /\ Sound(g) /\ g.allocated = v.allocated /\ g.head = v.head /\ g.size = v.size
      /\ \A i \in 0 .. v.size - 1 : g.mem[v.head + i] = v.mem[v.head + i]
      /\ \A i \in 1 .. n : g.mem[v.head + v.size + i - 1] = s[i]
  BY <1>4, FilledSound DEF n
<1>6. g = Reserved(r, s)
  BY DEF g, v, w, n, Reserved
<1> HIDE DEF g
<1>7. /\ Sound(g) /\ g.size = r.size
      /\ g.head + g.size + n <= g.allocated
      /\ \A i \in 0 .. r.size - 1 : g.mem[g.head + i] = r.mem[r.head + i]
      /\ \A i \in 1 .. n : g.mem[g.head + g.size + i - 1] = s[i]
  BY <1>2, <1>3, <1>4, <1>5
<1>8. QED
  BY <1>6, <1>7 DEF n

LEMMA Requests == ASSUME NEW n \in Nat, NEW s \in [1 .. n -> Byte]
                  PROVE  s \in Seq(Byte) /\ Len(s) = n
OBVIOUS

LEMMA ReserveStep ==
    ASSUME IInv, NEW b \in Buf, NEW s \in Seq(Byte), ReserveBegin(b, s)
    PROVE  IInv'
<1>1. buf' = [buf EXCEPT ![b] = Reserved(buf[b], s)] /\ room' = [room EXCEPT ![b] = Len(s)]
  BY DEF ReserveBegin, Reserved
<1>2. /\ Sound(Reserved(buf[b], s)) /\ Len(s) \in Nat
      /\ Reserved(buf[b], s).head + Reserved(buf[b], s).size + Len(s)
            <= Reserved(buf[b], s).allocated
  BY BufSound, ReservedSound
<1>3. QED
  BY <1>1, <1>2, OneChanges

LEMMA CommitStep ==
    ASSUME IInv, NEW b \in Buf, NEW k \in Nat, ReserveEnd(b, k)
    PROVE  IInv' /\ buf' = [buf EXCEPT ![b].size = @ + k]
<1>1. /\ Sound(buf[b]) /\ k <= room[b] /\ room[b] \in Nat
      /\ buf[b].head + buf[b].size + room[b] <= buf[b].allocated
      /\ buf = [c \in Buf |-> buf[c]]
  BY BufSound DEF IInv, InBounds, TypeOK, ReserveEnd
<1> DEFINE r == [buf[b] EXCEPT !.size = @ + k]
<1>2. r = [mem |-> buf[b].mem, allocated |-> buf[b].allocated, head |-> buf[b].head,
           size |-> buf[b].size + k]
  BY <1>1 DEF Sound
<1>3. Sound(r) /\ 0 \in Nat /\ r.head + r.size + 0 <= r.allocated
  <2>1. buf[b].size + k \in Nat /\ buf[b].head + (buf[b].size + k) <= buf[b].allocated
    BY <1>1 DEF Sound
  <2> HIDE DEF r
  <2>2. QED
    BY <1>1, <1>2, <2>1 DEF Sound
<1>4. CASE k > 0
  <2>1. buf' = [buf EXCEPT ![b] = r] /\ room' = [room EXCEPT ![b] = 0]
    BY <1>1, <1>4 DEF ReserveEnd, Sound
  <2> HIDE DEF r
  <2>2. IInv'
    BY Zenon, <1>3, <2>1, OneChanges
  <2>3. QED
    BY <2>1, <2>2 DEF r
<1>5. CASE k = 0
  <2>1. buf' = buf /\ room' = [room EXCEPT ![b] = 0]
    BY <1>5 DEF ReserveEnd
  <2>2. r = buf[b]
    BY <1>1, <1>2, <1>5 DEF Sound
  <2> HIDE DEF r
  <2>3. buf' = [buf EXCEPT ![b] = r]
    BY <1>1, <2>1, <2>2
  <2>4. IInv'
    BY Zenon, <1>3, <2>1, <2>3, OneChanges
  <2>5. QED
    BY <2>3, <2>4 DEF r
<1>6. QED
  BY <1>4, <1>5

\* A call made while nothing is reserved.
LEMMA ChangeStep ==
    ASSUME IInv, NEW b \in Buf, room[b] = 0, NEW r, Sound(r),
           buf' = [buf EXCEPT ![b] = r], UNCHANGED room
    PROVE  IInv'
<1>1. room' = [room EXCEPT ![b] = 0]
  BY DEF IInv, TypeOK
<1>2. 0 \in Nat /\ r.head + r.size + 0 <= r.allocated
  BY DEF Sound
<1>3. QED
  BY Zenon, <1>1, <1>2, OneChanges

LEMMA MoveStep ==
    ASSUME IInv, NEW b \in Buf, NEW o \in Buf, MoveAssign(b, o)
    PROVE  IInv' /\ buf' = [c \in Buf |-> IF c = b THEN buf[o] ELSE IF c = o THEN Empty ELSE buf[c]]
<1>1. buf' = [c \in Buf |-> IF c = b THEN buf[o] ELSE IF c = o THEN Empty ELSE buf[c]]
  BY DEF MoveAssign, IInv, TypeOK
<1>2. \A c \in Buf : /\ Sound(buf[c]) /\ room[c] \in Nat
                     /\ buf[c].head + buf[c].size + room[c] <= buf[c].allocated
  BY BufSound DEF IInv, InBounds
<1>3. room[b] = 0 /\ room[o] = 0 /\ room' = room
  BY DEF MoveAssign
<1>4. Sound(Empty) /\ Empty.head + Empty.size + 0 <= Empty.allocated
  BY EmptySound DEF Empty
<1>5. \A c \in Buf : /\ Sound(buf'[c]) /\ room'[c] \in Nat
                     /\ buf'[c].head + buf'[c].size + room'[c] <= buf'[c].allocated
  BY <1>1, <1>2, <1>3, <1>4 DEF Sound
<1>6. room' \in [Buf -> Nat] /\ buf' = [c \in Buf |-> buf'[c]]
  BY <1>1, <1>3 DEF IInv, TypeOK
<1>7. IInv'
  BY <1>5, <1>6 DEF IInv, TypeOK, InBounds, Sound
<1>8. QED
  BY <1>1, <1>7

LEMMA IInvStep == IInv /\ [Next]_vars => IInv'
<1> SUFFICES ASSUME IInv, [Next]_vars PROVE IInv'
  OBVIOUS
<1>1. ASSUME NEW b \in Buf, NEW n \in 0 .. MaxRequest, NEW s \in [1 .. n -> Byte],
             ReserveBegin(b, s)
      PROVE  IInv'
  <2>1. s \in Seq(Byte)
    BY Requests, BufferAssumption
  <2>2. QED
    BY <1>1, <2>1, ReserveStep
<1>2. ASSUME NEW b \in Buf, NEW n \in Nat, ReserveFails(b, n) PROVE IInv'
  <2>1. Sound(buf[b]) /\ buf' = [buf EXCEPT ![b] = buf[b]]
    BY <1>2, BufSound DEF ReserveFails, IInv, TypeOK
  <2>2. buf[b].head + buf[b].size + 0 <= buf[b].allocated
    BY <2>1 DEF Sound
  <2>3. QED
    BY <1>2, <2>1, <2>2, OneChanges DEF ReserveFails
<1>3. ASSUME NEW b \in Buf, NEW k \in Nat, ReserveEnd(b, k) PROVE IInv'
  BY <1>3, CommitStep
<1>4. ASSUME NEW b \in Buf, NEW n \in Nat, TrimHead(b, n) \/ TrimTail(b, n) PROVE IInv'
  <2>1. n <= buf[b].size /\ Sound(buf[b]) /\ room[b] = 0 /\ UNCHANGED room
    BY <1>4, BufSound DEF TrimHead, TrimTail
  <2>2. Sound(Trimmed(buf[b], n, n)) /\ Sound(Trimmed(buf[b], 0, n))
    BY <2>1, TrimmedSound
  <2>3. \/ buf' = [buf EXCEPT ![b] = Trimmed(buf[b], n, n)]
        \/ buf' = [buf EXCEPT ![b] = Trimmed(buf[b], 0, n)]
    BY <1>4 DEF TrimHead, TrimTail
  <2>4. QED
    BY <2>1, <2>2, <2>3, ChangeStep
<1>5. ASSUME NEW b \in Buf, NEW o \in Buf, Free(b) \/ CopyFails(b, o) PROVE IInv'
  <2>1. room[b] = 0 /\ UNCHANGED room /\ buf' = [buf EXCEPT ![b] = Empty]
    BY <1>5 DEF Free, CopyFails
  <2>2. QED
    BY <2>1, EmptySound, ChangeStep
<1>6. ASSUME NEW b \in Buf, NEW o \in Buf, CopyAssign(b, o) PROVE IInv'
  BY <1>6, BufSound, CopiedSound, ChangeStep DEF CopyAssign
<1>7. ASSUME NEW b \in Buf, NEW o \in Buf, MoveAssign(b, o) PROVE IInv'
  BY <1>7, MoveStep
<1>8. CASE UNCHANGED vars
  BY <1>8 DEF vars, IInv, TypeOK, InBounds
<1>9. 0 .. MaxRequest \subseteq Nat /\ 0 .. SizeLimit \subseteq Nat
  OBVIOUS
<1>10. QED
  BY <1>1, <1>2, <1>3, <1>4, <1>5, <1>6, <1>7, <1>8, <1>9 DEF Next

LEMMA IInvAlways == Spec => []IInv
BY IInvInit, IInvStep, PTL DEF Spec

\* The members of a Buffer keep their types: no size or head goes below zero and the
\* memory is as long as the object says (buffer.cpp:46-91).
THEOREM TypeCorrect == Spec => []TypeOK
BY IInvAlways, PTL DEF IInv

\* No byte that a caller reads or writes through a Buffer lies outside of its
\* allocation, for any alignment, sizes and order of calls (buffer.cpp:64-91).
THEOREM InBoundsAlways == Spec => []InBounds
BY IInvAlways, PTL DEF IInv

------------------------------------------------------------------------------
(* A buffer is a queue of bytes. *)

Cell == Byte \cup {Junk}

LEMMA ContentSeq ==
    ASSUME NEW r, Sound(r)
    PROVE  /\ Content(r) \in Seq(Cell) /\ Len(Content(r)) = r.size
           /\ \A i \in 1 .. r.size : Content(r)[i] = r.mem[r.head + i - 1]
<1>1. \A i \in 1 .. r.size : r.mem[r.head + i - 1] \in Cell
  <2>1. ASSUME NEW i \in 1 .. r.size PROVE r.head + i - 1 \in 0 .. r.allocated - 1
    BY DEF Sound
  <2>2. QED
    BY <2>1 DEF Sound, Memory, Cell
<1>2. r.size \in Nat
  BY DEF Sound
<1>3. Content(r) \in [1 .. r.size -> Cell]
  BY <1>1 DEF Content
<1>4. Content(r) \in Seq(Cell) /\ Len(Content(r)) = r.size
  BY <1>2, <1>3
<1>5. QED
  BY <1>4 DEF Content

LEMMA WrittenSeq ==
    ASSUME NEW r, Sound(r), NEW n \in Nat, r.head + r.size + n <= r.allocated
    PROVE  /\ Written(r, n) \in Seq(Cell) /\ Len(Written(r, n)) = n
           /\ \A i \in 1 .. n : Written(r, n)[i] = r.mem[r.head + r.size + i - 1]
<1>1. \A i \in 1 .. n : r.mem[r.head + r.size + i - 1] \in Cell
  <2>1. ASSUME NEW i \in 1 .. n PROVE r.head + r.size + i - 1 \in 0 .. r.allocated - 1
    BY DEF Sound
  <2>2. QED
    BY <2>1 DEF Sound, Memory, Cell
<1>2. Written(r, n) \in [1 .. n -> Cell]
  BY <1>1 DEF Written
<1>3. Written(r, n) \in Seq(Cell) /\ Len(Written(r, n)) = n
  BY <1>2
<1>4. QED
  BY <1>3 DEF Written

LEMMA NothingWritten == \A r : Written(r, 0) = <<>>
<1>1. ASSUME NEW r PROVE Written(r, 0) \in [1 .. 0 -> Cell]
  BY DEF Written
<1>2. ASSUME NEW r PROVE Written(r, 0) \in Seq(Cell) /\ Len(Written(r, 0)) = 0
  BY <1>1
<1>3. QED
  BY <1>2, EmptySeq

\* Same bytes from possibly another place.
LEMMA SameContent ==
    ASSUME NEW r, Sound(r), NEW g, Sound(g), g.size = r.size,
           \A i \in 0 .. r.size - 1 : g.mem[g.head + i] = r.mem[r.head + i]
    PROVE  Content(g) = Content(r)
<1>1. ASSUME NEW i \in 1 .. r.size PROVE Content(g)[i] = Content(r)[i]
  <2>1. i - 1 \in 0 .. r.size - 1
    BY DEF Sound
  <2>2. g.head + (i - 1) = g.head + i - 1 /\ r.head + (i - 1) = r.head + i - 1
    BY DEF Sound
  <2>3. g.mem[g.head + (i - 1)] = r.mem[r.head + (i - 1)]
    BY <2>1
  <2>4. QED
    BY <2>2, <2>3, ContentSeq
<1>2. /\ Content(g) \in Seq(Cell) /\ Content(r) \in Seq(Cell)
      /\ Len(Content(g)) = r.size /\ Len(Content(r)) = r.size
  BY ContentSeq
<1>3. QED
  BY <1>1, <1>2, SeqEqual

LEMMA CommitContent ==
    ASSUME NEW r, Sound(r), NEW n \in Nat, r.head + r.size + n <= r.allocated,
           NEW k \in 0 .. n, NEW g, Sound(g),
           g.mem = r.mem, g.head = r.head, g.size = r.size + k
    PROVE  Content(g) = Content(r) \o SubSeq(Written(r, n), 1, k)
<1> DEFINE q == Content(r)
           w == SubSeq(Written(r, n), 1, k)
<1>1. /\ q \in Seq(Cell) /\ Len(q) = r.size /\ r.size \in Nat /\ r.head \in Nat
      /\ \A i \in 1 .. r.size : q[i] = r.mem[r.head + i - 1]
  BY ContentSeq DEF Sound
<1>2. /\ w \in Seq(Cell) /\ Len(w) = k
      /\ \A i \in 1 .. k : w[i] = r.mem[r.head + r.size + i - 1]
  <2>1. \A i \in 1 .. k : Written(r, n)[i] \in Cell
    BY WrittenSeq
  <2>2. /\ w \in Seq(Cell) /\ Len(w) = IF 1 <= k THEN k - 1 + 1 ELSE 0
        /\ \A i \in 1 .. k - 1 + 1 : w[i] = Written(r, n)[1 + i - 1]
    BY <2>1, SubSeqProperties
  <2>3. QED
    BY <2>2, WrittenSeq
<1> HIDE DEF w, q
<1>a. /\ q \o w \in Seq(Cell)
      /\ Len(q \o w) = Len(q) + Len(w)
      /\ \A i \in 1 .. Len(q) + Len(w) : (q \o w)[i] = IF i <= Len(q) THEN q[i] ELSE w[i - Len(q)]
  BY <1>1, <1>2, ConcatProperties, Zenon
<1>3. /\ q \o w \in Seq(Cell) /\ Len(q \o w) = r.size + k
      /\ \A i \in 1 .. r.size + k : (q \o w)[i] = IF i <= r.size THEN q[i] ELSE w[i - r.size]
  BY <1>1, <1>2, <1>a
<1>4. /\ Content(g) \in Seq(Cell) /\ Len(Content(g)) = r.size + k
      /\ \A i \in 1 .. r.size + k : Content(g)[i] = r.mem[r.head + i - 1]
  BY ContentSeq
<1>5. ASSUME NEW i \in 1 .. r.size + k PROVE Content(g)[i] = (q \o w)[i]
  <2>1. CASE i <= r.size
    <3>1. i \in 1 .. r.size
      BY <1>1, <2>1
    <3>2. (q \o w)[i] = q[i]
      BY <1>3, <2>1
    <3>3. q[i] = r.mem[r.head + i - 1]
      BY <1>1, <3>1
    <3>4. Content(g)[i] = r.mem[r.head + i - 1]
      BY <1>4
    <3>5. QED
      BY <3>2, <3>3, <3>4
  <2>2. CASE ~(i <= r.size)
    <3>1. i - r.size \in 1 .. k /\ r.head + r.size + (i - r.size) - 1 = r.head + i - 1
      BY <1>1, <2>2
    <3>2. w[i - r.size] = r.mem[r.head + r.size + (i - r.size) - 1]
      BY <1>2, <3>1
    <3>3. (q \o w)[i] = w[i - r.size]
      BY <1>3, <2>2
    <3>4. Content(g)[i] = r.mem[r.head + i - 1]
      BY <1>4
    <3>5. QED
      BY <3>1, <3>2, <3>3, <3>4
  <2>3. QED
    BY <2>1, <2>2
<1>6. Content(g) = q \o w
  BY <1>3, <1>4, <1>5, SeqEqual
<1>7. QED
  BY <1>6 DEF q, w

LEMMA TrimContent ==
    ASSUME NEW r, Sound(r), NEW n \in 0 .. r.size
    PROVE  /\ Content(Trimmed(r, n, n)) = SubSeq(Content(r), n + 1, Len(Content(r)))
           /\ Content(Trimmed(r, 0, n)) = SubSeq(Content(r), 1, Len(Content(r)) - n)
<1>1. /\ r.size \in Nat /\ r.head \in Nat /\ n \in Nat /\ n <= r.size
      /\ Len(Content(r)) = r.size
      /\ \A i \in 1 .. r.size : Content(r)[i] \in Cell /\ Content(r)[i] = r.mem[r.head + i - 1]
  BY ContentSeq, ElementOfSeq DEF Sound
<1>2. ASSUME NEW skip \in {0, n}, NEW from \in Int, NEW to \in Int,
             from = skip + 1, to = skip + (r.size - n)
      PROVE  Content(Trimmed(r, skip, n)) = SubSeq(Content(r), from, to)
  <2> DEFINE g == Trimmed(r, skip, n)
             q == SubSeq(Content(r), from, to)
  <2>1. Sound(g) /\ g.size = r.size - n /\ g.mem = r.mem
    BY <1>1, TrimmedSound DEF Trimmed
  <2>2. r.size # n => g.head = r.head + skip
    BY DEF Trimmed
  <2> HIDE DEF g
  <2>3. /\ q \in Seq(Cell) /\ Len(q) = IF from <= to THEN to - from + 1 ELSE 0
        /\ \A i \in 1 .. to - from + 1 : q[i] = Content(r)[from + i - 1]
    <3>1. \A i \in from .. to : Content(r)[i] \in Cell
      BY <1>1, <1>2
    <3>2. QED
      BY <3>1, SubSeqProperties
  <2>4. Len(q) = r.size - n
    BY <1>1, <1>2, <2>3
  <2> HIDE DEF q
  <2>5. /\ Content(g) \in Seq(Cell) /\ Len(Content(g)) = r.size - n
        /\ \A i \in 1 .. r.size - n : Content(g)[i] = r.mem[g.head + i - 1]
    BY <2>1, ContentSeq
  <2>6. ASSUME NEW i \in 1 .. r.size - n PROVE Content(g)[i] = q[i]
    <3>a. /\ i \in Nat /\ i >= 1 /\ i <= r.size - n /\ skip \in Nat /\ skip <= n
      BY <1>1
    <3>b. g.head = r.head + skip
      BY <1>1, <2>2, <3>a
    <3>c. i \in 1 .. to - from + 1 /\ from + i - 1 \in 1 .. r.size
      BY <1>1, <1>2, <3>a
    <3>d. r.head + (from + i - 1) - 1 = (r.head + skip) + i - 1
      BY <1>1, <1>2, <3>a
    <3>1. /\ i \in 1 .. to - from + 1 /\ from + i - 1 \in 1 .. r.size /\ g.head = r.head + skip
          /\ r.head + (from + i - 1) - 1 = g.head + i - 1
      BY <3>b, <3>c, <3>d
    <3>2. q[i] = r.mem[r.head + (from + i - 1) - 1]
      BY <1>1, <2>3, <3>1
    <3>3. QED
      BY <2>5, <3>1, <3>2
  <2>7. Content(g) = q
    BY <2>3, <2>4, <2>5, <2>6, SeqEqual
  <2>8. QED
    BY <2>7 DEF g, q
<1>3. Content(Trimmed(r, n, n)) = SubSeq(Content(r), n + 1, r.size)
  <2>1. n + 1 \in Int /\ r.size \in Int /\ r.size = n + (r.size - n)
    BY <1>1
  <2>2. QED
    BY <1>2, <2>1
<1>4. Content(Trimmed(r, 0, n)) = SubSeq(Content(r), 1, r.size - n)
  <2>1. 1 \in Int /\ 1 = 0 + 1 /\ r.size - n \in Int /\ r.size - n = 0 + (r.size - n)
    BY <1>1
  <2>2. QED
    BY <1>2, <2>1
<1>5. QED
  BY <1>1, <1>3, <1>4

\* The mapping of Queues.
queues == [b \in Buf |-> Content(buf[b])]
offers == [b \in Buf |-> Written(buf[b], room[b])]

LEMMA OneQueue ==
    ASSUME IInv, NEW b \in Buf, NEW r, NEW k,
           buf' = [buf EXCEPT ![b] = r], room' = [room EXCEPT ![b] = k]
    PROVE  /\ queues' = [queues EXCEPT ![b] = Content(r)]
           /\ offers' = [offers EXCEPT ![b] = Written(r, k)]
<1>1. \A c \in Buf : buf'[c] = (IF c = b THEN r ELSE buf[c])
                    /\ room'[c] = (IF c = b THEN k ELSE room[c])
  BY DEF IInv, TypeOK
<1>2. queues' = [c \in Buf |-> Content(buf'[c])] /\ offers' = [c \in Buf |-> Written(buf'[c], room'[c])]
  BY DEF queues, offers
<1>3. \A c \in Buf : /\ Content(buf'[c]) = IF c = b THEN Content(r) ELSE Content(buf[c])
                     /\ Written(buf'[c], room'[c])
                          = IF c = b THEN Written(r, k) ELSE Written(buf[c], room[c])
  BY <1>1
<1>4. QED
  BY <1>2, <1>3 DEF queues, offers

\* A call made while nothing is reserved.
LEMMA OnlyQueue ==
    ASSUME IInv, NEW b \in Buf, NEW r, room[b] = 0,
           buf' = [buf EXCEPT ![b] = r], UNCHANGED room
    PROVE  queues' = [queues EXCEPT ![b] = Content(r)] /\ offers' = offers /\ offers[b] = <<>>
<1>1. \A c \in Buf : buf'[c] = IF c = b THEN r ELSE buf[c]
  BY DEF IInv, TypeOK
<1>2. queues' = [c \in Buf |-> Content(buf'[c])] /\ offers' = [c \in Buf |-> Written(buf'[c], room'[c])]
  BY DEF queues, offers
<1>3. \A c \in Buf : Content(buf'[c]) = IF c = b THEN Content(r) ELSE Content(buf[c])
  BY <1>1
<1>4. \A c \in Buf : Written(buf'[c], room'[c]) = Written(buf[c], room[c])
  <2>1. Written(buf'[b], room'[b]) = <<>> /\ Written(buf[b], room[b]) = <<>>
    BY NothingWritten
  <2>2. QED
    BY <1>1, <2>1
<1>5. offers[b] = <<>>
  BY NothingWritten DEF offers
<1>6. QED
  BY <1>2, <1>3, <1>4, <1>5 DEF queues, offers

LEMMA EmptyContent == Content(Empty) = <<>>
<1>1. Content(Empty) \in Seq(Cell) /\ Len(Content(Empty)) = 0
  BY ContentSeq, EmptySound DEF Empty
<1>2. QED
  BY <1>1, EmptySeq

LEMMA InitRefines == Init => Queues!Init
<1> SUFFICES ASSUME Init PROVE Queues!Init
  OBVIOUS
<1>1. \A b \in Buf : Content(buf[b]) = <<>> /\ Written(buf[b], room[b]) = <<>>
  BY EmptyContent, NothingWritten DEF Init
<1>2. QED
  BY <1>1 DEF Queues!Init

LEMMA ReserveRefines ==
    ASSUME IInv, NEW b \in Buf, NEW s \in Seq(Byte), ReserveBegin(b, s)
    PROVE  queues' = queues /\ offers' = [offers EXCEPT ![b] = s]
<1> DEFINE g == Reserved(buf[b], s)
<1>1. buf' = [buf EXCEPT ![b] = g] /\ room' = [room EXCEPT ![b] = Len(s)]
  BY DEF ReserveBegin, Reserved
<1>2. /\ Sound(buf[b]) /\ Sound(g) /\ g.size = buf[b].size /\ Len(s) \in Nat
      /\ g.head + g.size + Len(s) <= g.allocated
      /\ \A i \in 0 .. buf[b].size - 1 : g.mem[g.head + i] = buf[b].mem[buf[b].head + i]
      /\ \A i \in 1 .. Len(s) : g.mem[g.head + g.size + i - 1] = s[i]
  BY BufSound, ReservedSound
<1> HIDE DEF g
<1>3. Content(g) = Content(buf[b])
  BY <1>2, SameContent
<1>4. Written(g, Len(s)) = s
  <2>1. /\ Written(g, Len(s)) \in Seq(Cell) /\ Len(Written(g, Len(s))) = Len(s)
        /\ \A i \in 1 .. Len(s) : Written(g, Len(s))[i] = s[i]
    BY <1>2, WrittenSeq
  <2>2. s \in Seq(Cell)
    BY DEF Cell
  <2>3. QED
    BY <2>1, <2>2, SeqEqual
<1>5. /\ queues' = [queues EXCEPT ![b] = Content(g)]
      /\ offers' = [offers EXCEPT ![b] = Written(g, Len(s))]
  BY <1>1, OneQueue
<1>6. [queues EXCEPT ![b] = Content(buf[b])] = queues
  BY DEF queues
<1>7. QED
  BY <1>3, <1>4, <1>5, <1>6

LEMMA CommitRefines ==
    ASSUME IInv, IInv', NEW b \in Buf, NEW k \in Nat, ReserveEnd(b, k)
    PROVE  /\ k <= Len(offers[b])
           /\ queues' = [queues EXCEPT ![b] = @ \o SubSeq(offers[b], 1, k)]
           /\ offers' = [offers EXCEPT ![b] = <<>>]
<1> DEFINE g == [buf[b] EXCEPT !.size = @ + k]
<1>1. /\ Sound(buf[b]) /\ k \in 0 .. room[b] /\ room[b] \in Nat /\ buf = [c \in Buf |-> buf[c]]
      /\ buf[b].head + buf[b].size + room[b] <= buf[b].allocated
  BY BufSound DEF IInv, InBounds, TypeOK, ReserveEnd
<1>2. buf' = [buf EXCEPT ![b] = g] /\ room' = [room EXCEPT ![b] = 0]
  BY <1>1, CommitStep DEF ReserveEnd
<1>3. /\ g.mem = buf[b].mem /\ g.head = buf[b].head /\ g.size = buf[b].size + k
  BY <1>1 DEF Sound
<1>4. Sound(g)
  <2>1. buf'[b] = g
    BY <1>1, <1>2
  <2>2. Sound(buf'[b])
    BY DEF IInv, TypeOK, InBounds, Sound
  <2>3. QED
    BY <2>1, <2>2
<1> HIDE DEF g
<1>5. Content(g) = Content(buf[b]) \o SubSeq(Written(buf[b], room[b]), 1, k)
  BY <1>1, <1>3, <1>4, CommitContent
<1>6. queues' = [queues EXCEPT ![b] = Content(g)] /\ offers' = [offers EXCEPT ![b] = Written(g, 0)]
  BY <1>2, OneQueue
<1>7. queues[b] = Content(buf[b]) /\ offers[b] = Written(buf[b], room[b])
  BY DEF queues, offers
<1>8. Len(offers[b]) = room[b] /\ k <= room[b]
  BY <1>1, <1>7, WrittenSeq
<1>9. Content(g) = queues[b] \o SubSeq(offers[b], 1, k)
  BY Zenon, <1>5, <1>7
<1>10. queues' = [queues EXCEPT ![b] = queues[b] \o SubSeq(offers[b], 1, k)]
  BY Zenon, <1>6, <1>9
<1>11. offers' = [offers EXCEPT ![b] = <<>>]
  BY <1>6, NothingWritten
<1>12. QED
  BY Zenon, <1>8, <1>10, <1>11

LEMMA MoveRefines ==
    ASSUME IInv, NEW b \in Buf, NEW o \in Buf, MoveAssign(b, o)
    PROVE  /\ queues' = [queues EXCEPT ![b] = queues[o], ![o] = <<>>]
           /\ offers' = offers /\ offers[b] = <<>> /\ offers[o] = <<>>
<1>1. /\ b # o /\ room[b] = 0 /\ room[o] = 0 /\ room' = room
      /\ \A c \in Buf : buf'[c] = IF c = b THEN buf[o] ELSE IF c = o THEN Empty ELSE buf[c]
  BY MoveStep DEF MoveAssign
<1>2. queues' = [c \in Buf |-> Content(buf'[c])] /\ offers' = [c \in Buf |-> Written(buf'[c], room'[c])]
  BY DEF queues, offers
<1>3. \A c \in Buf : Content(buf'[c])
          = IF c = b THEN queues[o] ELSE IF c = o THEN <<>> ELSE queues[c]
  BY <1>1, EmptyContent DEF queues
<1>4. \A c \in Buf : Written(buf'[c], room'[c]) = offers[c]
  BY <1>1, NothingWritten DEF offers
<1>5. queues' = [queues EXCEPT ![b] = queues[o], ![o] = <<>>]
  BY <1>1, <1>2, <1>3 DEF queues
<1>6. QED
  BY <1>1, <1>2, <1>4, <1>5, NothingWritten DEF offers

LEMMA StepRefines == IInv /\ IInv' /\ [Next]_vars => [Queues!Next]_(Queues!vars)
<1> SUFFICES ASSUME IInv, IInv', [Next]_vars PROVE [Queues!Next]_(Queues!vars)
  OBVIOUS
<1>0. Queues!vars = <<queues, offers>>
  BY DEF Queues!vars, queues, offers
<1>1. ASSUME NEW b \in Buf, NEW n \in 0 .. MaxRequest, NEW s \in [1 .. n -> Byte],
             ReserveBegin(b, s)
      PROVE  Queues!Next
  <2>1. s \in Seq(Byte)
    BY Requests, BufferAssumption
  <2>2. queues' = queues /\ offers' = [offers EXCEPT ![b] = s]
    BY <1>1, <2>1, ReserveRefines
  <2>3. offers'[b] = s
    BY <2>2 DEF offers
  <2>4. QED
    BY <2>1, <2>2, <2>3 DEF Queues!Next, Queues!Offer, queues, offers
<1>2. ASSUME NEW b \in Buf, NEW n \in Nat, ReserveFails(b, n) PROVE Queues!Next
  <2>1. /\ buf' = [buf EXCEPT ![b] = buf[b]] /\ room' = [room EXCEPT ![b] = 0]
    BY <1>2 DEF ReserveFails, IInv, TypeOK
  <2>a. /\ queues' = [queues EXCEPT ![b] = Content(buf[b])]
        /\ offers' = [offers EXCEPT ![b] = Written(buf[b], 0)]
    BY Zenon, <2>1, OneQueue
  <2>2. /\ queues' = [queues EXCEPT ![b] = Content(buf[b])]
        /\ offers' = [offers EXCEPT ![b] = <<>>]
    BY <2>a, NothingWritten
  <2>3. queues' = queues
    BY <2>2 DEF queues
  <2>4. QED
    BY <2>2, <2>3 DEF Queues!Next, Queues!Withdraw, queues, offers
<1>3. ASSUME NEW b \in Buf, NEW k \in Nat, ReserveEnd(b, k) PROVE Queues!Next
  <2>1. /\ k <= Len(offers[b])
        /\ queues' = [queues EXCEPT ![b] = @ \o SubSeq(offers[b], 1, k)]
        /\ offers' = [offers EXCEPT ![b] = <<>>]
    BY <1>3, CommitRefines
  <2>2. Queues!Commit(b, k)
    BY <2>1 DEF Queues!Commit, queues, offers
  <2>3. offers[b] = Written(buf[b], room[b]) /\ Len(offers[b]) = room[b] /\ room[b] \in Nat
    BY BufSound, WrittenSeq DEF offers, IInv, InBounds
  <2>4. k \in 0 .. Len(Written(buf[b], room[b]))
    BY <2>1, <2>3
  <2>5. QED
    BY <2>2, <2>3, <2>4 DEF Queues!Next, offers
<1>4. ASSUME NEW b \in Buf, NEW n \in Nat, TrimHead(b, n) \/ TrimTail(b, n) PROVE Queues!Next
  <2>1. n \in 0 .. buf[b].size /\ Sound(buf[b]) /\ room[b] = 0 /\ UNCHANGED room
    BY <1>4, BufSound DEF TrimHead, TrimTail, Sound
  <2>2. queues[b] = Content(buf[b]) /\ Len(queues[b]) = buf[b].size
    BY <2>1, ContentSeq DEF queues
  <2>3. CASE TrimHead(b, n)
    <3>1. buf' = [buf EXCEPT ![b] = Trimmed(buf[b], n, n)]
      BY <2>3 DEF TrimHead
    <3>a. /\ queues' = [queues EXCEPT ![b] = Content(Trimmed(buf[b], n, n))]
          /\ offers' = offers /\ offers[b] = <<>>
      BY Zenon, <2>1, <3>1, OnlyQueue
    <3>b. Content(Trimmed(buf[b], n, n)) = SubSeq(Content(buf[b]), n + 1, Len(Content(buf[b])))
      BY Zenon, <2>1, TrimContent
    <3>2. /\ queues' = [queues EXCEPT ![b] = SubSeq(@, n + 1, Len(@))]
          /\ offers' = offers /\ offers[b] = <<>>
      BY Zenon, <2>2, <3>a, <3>b
    <3>3. Queues!DropHead(b, n)
      BY <2>1, <2>2, <3>2 DEF Queues!DropHead, queues, offers
    <3>4. QED
      BY <2>1, <2>2, <3>2, <3>3 DEF Queues!Next, queues, offers
  <2>4. CASE TrimTail(b, n)
    <3>1. buf' = [buf EXCEPT ![b] = Trimmed(buf[b], 0, n)]
      BY <2>4 DEF TrimTail
    <3>a. /\ queues' = [queues EXCEPT ![b] = Content(Trimmed(buf[b], 0, n))]
          /\ offers' = offers /\ offers[b] = <<>>
      BY Zenon, <2>1, <3>1, OnlyQueue
    <3>b. Content(Trimmed(buf[b], 0, n)) = SubSeq(Content(buf[b]), 1, Len(Content(buf[b])) - n)
      BY Zenon, <2>1, TrimContent
    <3>2. /\ queues' = [queues EXCEPT ![b] = SubSeq(@, 1, Len(@) - n)]
          /\ offers' = offers /\ offers[b] = <<>>
      BY Zenon, <2>2, <3>a, <3>b
    <3>3. Queues!DropTail(b, n)
      BY <2>1, <2>2, <3>2 DEF Queues!DropTail, queues, offers
    <3>4. QED
      BY <2>1, <2>2, <3>2, <3>3 DEF Queues!Next, queues, offers
  <2>5. QED
    BY <1>4, <2>3, <2>4
<1>5. ASSUME NEW b \in Buf, NEW o \in Buf, Free(b) \/ CopyFails(b, o) PROVE Queues!Next
  <2>1. room[b] = 0 /\ UNCHANGED room /\ buf' = [buf EXCEPT ![b] = Empty]
    BY <1>5 DEF Free, CopyFails
  <2>2. queues' = [queues EXCEPT ![b] = <<>>] /\ offers' = offers /\ offers[b] = <<>>
    BY <2>1, OnlyQueue, EmptyContent
  <2>3. Queues!Clear(b)
    BY <2>2 DEF Queues!Clear, queues, offers
  <2>4. QED
    BY <2>2, <2>3 DEF Queues!Next, offers
<1>6. ASSUME NEW b \in Buf, NEW o \in Buf, CopyAssign(b, o) PROVE Queues!Next
  <2>1. /\ b # o /\ room[b] = 0 /\ room[o] = 0 /\ UNCHANGED room
        /\ buf' = [buf EXCEPT ![b] = Copied(buf[o])]
    BY <1>6 DEF CopyAssign
  <2>2. Content(Copied(buf[o])) = Content(buf[o])
    <3>1. /\ Sound(buf[o]) /\ Sound(Copied(buf[o])) /\ Copied(buf[o]).size = buf[o].size
          /\ Copied(buf[o]).head = 0
          /\ \A i \in 0 .. buf[o].size - 1 : Copied(buf[o]).mem[i] = buf[o].mem[buf[o].head + i]
      BY BufSound, CopiedSound DEF Copied
    <3>2. \A i \in 0 .. buf[o].size - 1 :
              Copied(buf[o]).mem[Copied(buf[o]).head + i] = buf[o].mem[buf[o].head + i]
      BY <3>1
    <3>3. QED
      BY <3>1, <3>2, SameContent
  <2>3. /\ queues' = [queues EXCEPT ![b] = queues[o]] /\ offers' = offers
        /\ offers[b] = <<>> /\ offers[o] = <<>>
    <3>1. /\ queues' = [queues EXCEPT ![b] = Content(Copied(buf[o]))]
          /\ offers' = offers /\ offers[b] = <<>>
      BY Zenon, <2>1, OnlyQueue
    <3>2. queues[o] = Content(buf[o]) /\ offers[o] = <<>>
      BY <2>1, NothingWritten DEF queues, offers
    <3>3. QED
      BY Zenon, <2>2, <3>1, <3>2
  <2>4. Queues!Copy(b, o)
    BY <2>3 DEF Queues!Copy, queues, offers
  <2>5. QED
    BY <2>1, <2>3, <2>4 DEF Queues!Next, offers
<1>7. ASSUME NEW b \in Buf, NEW o \in Buf, MoveAssign(b, o) PROVE Queues!Next
  <2>1. /\ b # o /\ queues' = [queues EXCEPT ![b] = queues[o], ![o] = <<>>]
        /\ offers' = offers /\ offers[b] = <<>> /\ offers[o] = <<>>
    BY <1>7, MoveRefines DEF MoveAssign
  <2>2. Queues!Move(b, o)
    BY <2>1 DEF Queues!Move, queues, offers
  <2>3. QED
    BY <2>1, <2>2 DEF Queues!Next, offers
<1>8. CASE UNCHANGED vars
  <2>1. buf' = buf /\ room' = room
    BY <1>8 DEF vars
  <2>2. QED
    BY <2>1 DEF Queues!vars
<1>9. 0 .. MaxRequest \subseteq Nat /\ 0 .. SizeLimit \subseteq Nat
  OBVIOUS
<1>10. CASE Next
  <2>1. PICK b \in Buf :
            \/ \E n \in 0 .. MaxRequest :
                  \/ \E s \in [1 .. n -> Byte] : ReserveBegin(b, s)
                  \/ ReserveFails(b, n)
            \/ \E k \in 0 .. MaxRequest : ReserveEnd(b, k)
            \/ \E n \in 0 .. SizeLimit : TrimHead(b, n) \/ TrimTail(b, n)
            \/ Free(b)
            \/ \E o \in Buf : CopyAssign(b, o) \/ CopyFails(b, o) \/ MoveAssign(b, o)
    BY <1>10 DEF Next
  <2>2. Queues!Next
    BY Zenon, <2>1, <1>1, <1>2, <1>3, <1>4, <1>5, <1>6, <1>7, <1>9
  <2>3. QED
    BY <2>2
<1>11. QED
  BY <1>8, <1>10

\* A Buffer is a queue of bytes for its user: whatever growing, sliding, trimming,
\* copying, moving and failing happens inside, bytes are neither lost, repeated nor
\* reordered (buffer.h:34-56, buffer.cpp:14-91).
THEOREM BytesKept == Spec => KeepsBytes
<1>1. []IInv /\ [][Next]_vars => [][Queues!Next]_(Queues!vars)
  BY StepRefines, PTL
<1>2. QED
  BY <1>1, InitRefines, IInvAlways, PTL DEF Spec, KeepsBytes, Queues!Spec
=============================================================================
