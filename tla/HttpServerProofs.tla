--------------------------- MODULE HttpServerProofs ---------------------------
(* Proofs about HttpServer, for any requests, cut in any way. *)
EXTENDS HttpServer, WellFoundedInduction, TLAPS

\* What AtMostOneAnswer rests on: two counts and a history.
IsHistory(s) == \E S : s \in Seq(S)
Counts == obuf \in Nat /\ flushed \in Nat /\ IsHistory(calls)

------------------------------------------------------------------------------
\* Whatever the handler returns and http_response() does, one call puts at most one
\* answer into _obuf: an application that declined has put none, and the 404 is one.
LEMMA OneAnswer ==
    ASSUME NEW o, NEW p
    PROVE  Served(o, p).queued \in {0, 1}
<1>1. HttpResponse(o).queued \in {0, 1} /\ HttpResponse(p).queued \in {0, 1}
      BY DEF HttpResponse
<1>2. CASE CbHttp(o).result
      BY <1>1, <1>2 DEF Served, CbHttp
<1>3. CASE ~CbHttp(o).result
  <2>1. CbHttp(o).queued = 0
        BY <1>3 DEF CbHttp, HttpResponse
  <2>2. Served(o, p).queued = HttpResponse(p).queued + 0
        BY <1>3, <2>1 DEF Served, HttpResponse
  <2>. QED BY <1>1, <2>2
<1>. QED BY <1>2, <1>3

LEMMA HistoryGrows ==
    ASSUME NEW s, NEW e, IsHistory(s)
    PROVE  IsHistory(Append(s, e)) /\ Len(Append(s, e)) = Len(s) + 1 /\ Len(s) \in Nat
<1>1. PICK S : s \in Seq(S)
      BY DEF IsHistory
<1>2. s \in Seq(S \cup {e}) /\ e \in S \cup {e}
      BY <1>1
<1>3. Append(s, e) \in Seq(S \cup {e}) /\ Len(Append(s, e)) = Len(s) + 1 /\ Len(s) \in Nat
      BY <1>2
<1>. QED BY <1>3 DEF IsHistory

\* A read event: the only step that answers, and it does so in a handler call.
LEMMA ReadableAnswersOnce ==
    ASSUME Counts, AtMostOneAnswer,
           NEW n, NEW eof, NEW o, NEW p, Readable(n, eof, o, p)
    PROVE  Counts' /\ AtMostOneAnswer'
<1>1. Served(o, p).queued \in {0, 1}
      BY OneAnswer
<1>2. flushed' = flushed /\ Len(calls) \in Nat
      BY HistoryGrows DEF Readable, Counts
<1>3. \/ calls' = calls /\ obuf' = obuf
      \/ obuf' = obuf + Served(o, p).queued /\ \E e : calls' = Append(calls, e)
      BY DEF Readable
<1>4. CASE calls' = calls /\ obuf' = obuf
      BY <1>2, <1>4 DEF Counts, AtMostOneAnswer
<1>5. CASE obuf' = obuf + Served(o, p).queued /\ \E e : calls' = Append(calls, e)
  <2>1. PICK e : calls' = Append(calls, e)
        BY <1>5
  <2>2. IsHistory(calls') /\ Len(calls') = Len(calls) + 1
        BY <2>1, HistoryGrows DEF Counts
  <2>3. obuf' \in Nat /\ obuf' <= obuf + 1
        BY <1>1, <1>5 DEF Counts
  <2>. QED BY <1>2, <2>2, <2>3 DEF Counts, AtMostOneAnswer
<1>. QED BY <1>3, <1>4, <1>5

LEMMA InitAnswers == Init => Counts /\ AtMostOneAnswer
<1> SUFFICES ASSUME Init PROVE Counts /\ AtMostOneAnswer
  OBVIOUS
<1>1. calls = <<>> /\ obuf = 0 /\ flushed = 0
  BY DEF Init
<1>2. calls \in Seq({}) /\ Len(calls) = 0
  BY <1>1
<1>3. QED
  BY <1>1, <1>2 DEF Counts, AtMostOneAnswer, IsHistory

\* The steps that neither run the handler nor delete anything.
Quiet == \/ Walk \/ Timeout \/ ClientLeaves
         \/ \E n \in 1 .. End(Len(script)) : ClientSends(n)

LEMMA NextAnswers ==
    ASSUME Counts, AtMostOneAnswer, [Next]_vars
    PROVE  Counts' /\ AtMostOneAnswer'
<1>1. Len(calls) \in Nat
  BY HistoryGrows DEF Counts
<1>2. ASSUME Accept \/ Quiet \/ UNCHANGED vars PROVE Counts' /\ AtMostOneAnswer'
  BY <1>2 DEF Accept, Quiet, Walk, Timeout, ClientLeaves, ClientSends, setting, client, http, vars,
              Counts, AtMostOneAnswer
<1>3. ASSUME Reap \/ EngineStops PROVE Counts' /\ AtMostOneAnswer'
  BY <1>1, <1>3 DEF Reap, EngineStops, http, Counts, AtMostOneAnswer
<1>4. ASSUME NEW n, NEW eof, NEW o, NEW p, Readable(n, eof, o, p)
      PROVE  Counts' /\ AtMostOneAnswer'
  BY <1>4, ReadableAnswersOnce
<1>5. ASSUME NEW n \in 0 .. obuf, Writable(n) PROVE Counts' /\ AtMostOneAnswer'
  BY <1>1, <1>5 DEF Writable, http, Counts, AtMostOneAnswer
<1>6. QED
  BY <1>2, <1>3, <1>4, <1>5 DEF Next, Worker, Quiet

\* On every connection, whatever the client sends and however the handler behaves,
\* there are never more answers, sent or queued, than handler calls (http_recv,
\* http_response).
THEOREM AnswersPaired == Spec => []AtMostOneAnswer
<1>1. Counts /\ AtMostOneAnswer /\ [Next]_vars => (Counts /\ AtMostOneAnswer)'
  BY NextAnswers
<1>2. QED
  BY <1>1, InitAnswers, PTL DEF Spec

------------------------------------------------------------------------------
(* The stream: where its requests end.  Facts about a recursive function are *)
(* proved by looking at the least number that has not got them.              *)

LEMMA LeastElement ==
    ASSUME NEW T, T \subseteq Nat, NEW n \in T
    PROVE  \E m \in T : \A k \in T : m <= k
<1>1. PICK R : R = OpToRel(<, Nat)
  OBVIOUS
<1>2. R = {p \in Nat \X Nat : p[1] < p[2]}
  BY <1>1, Zenon DEF OpToRel
<1>3. IsWellFoundedOn(R, Nat)
  BY <1>1, NatLessThanWellFounded
<1>4. PICK m \in T : \A k \in T : <<k, m>> \notin R
  BY <1>3, WFMin
<1>5. \A k \in T : m \in Nat /\ k \in Nat /\ ~(k < m)
  BY <1>2, <1>4
<1>6. QED
  BY <1>4, <1>5

\* The ends of the requests of s up to n, by recursion.
Ends(s, n, g) ==
    g = [j \in 0 .. n |-> IF j = 0 THEN 0 ELSE g[j - 1] + (s[j].head + s[j].body)]

LEMMA EndsExist ==
    ASSUME NEW s, NEW n \in Nat
    PROVE  \E g : Ends(s, n, g)
<1> SUFFICES ASSUME ~ \E g : Ends(s, n, g) PROVE FALSE
  OBVIOUS
<1> DEFINE T == {k \in Nat : ~ \E g : Ends(s, k, g)}
<1>1. PICK m \in T : \A k \in T : m <= k
  BY LeastElement
<1>2. CASE m = 0
  <2>1. Ends(s, 0, [j \in 0 .. 0 |-> 0])
    BY DEF Ends
  <2>2. QED
    BY <1>2, <2>1
<1>3. CASE m # 0
  <2>1. m \in Nat /\ m - 1 \in Nat /\ m - 1 \notin T
    BY <1>1, <1>3
  <2>2. PICK g : Ends(s, m - 1, g)
    BY <2>1
  <2>3. PICK h : h = [j \in 0 .. m |-> IF j = m THEN g[m - 1] + (s[m].head + s[m].body) ELSE g[j]]
    OBVIOUS
  <2>4. ASSUME NEW j \in 0 .. m
        PROVE  h[j] = IF j = 0 THEN 0 ELSE h[j - 1] + (s[j].head + s[j].body)
    <3>1. CASE j = m
      BY <1>3, <2>1, <2>3, <3>1
    <3>2. CASE j # m
      <4>1. j \in 0 .. m - 1
        BY <2>1, <3>2
      <4>2. g[j] = IF j = 0 THEN 0 ELSE g[j - 1] + (s[j].head + s[j].body)
        BY <2>2, <4>1 DEF Ends
      <4>3. h[j] = g[j] /\ (j # 0 => h[j - 1] = g[j - 1])
        BY <2>1, <2>3, <3>2, <4>1
      <4>4. QED
        BY <4>2, <4>3
    <3>3. QED
      BY <3>1, <3>2
  <2>5. Ends(s, m, h)
    BY <2>3, <2>4 DEF Ends
  <2>6. QED
    BY <2>5
<1>4. QED
  BY <1>2, <1>3

\* What End is: the first request starts at 0, and each ends after its own bytes.
LEMMA EndIs ==
    ASSUME script \in Seq(Request)
    PROVE  /\ End(0) = 0
           /\ \A k \in 1 .. Len(script) : End(k) = End(k - 1) + (script[k].head + script[k].body)
<1> DEFINE e == CHOOSE g : Ends(script, Len(script), g)
<1>1. Ends(script, Len(script), e)
  BY EndsExist
<1>2. \A k : End(k) = e[k]
  BY DEF End, Ends
<1> HIDE DEF e
<1>3. /\ e[0] = 0
      /\ \A k \in 1 .. Len(script) : e[k] = e[k - 1] + (script[k].head + script[k].body)
  BY <1>1 DEF Ends
<1>4. QED
  BY <1>2, <1>3

\* Requests have at least one byte.
LEMMA EndGrows ==
    ASSUME script \in Seq(Request)
    PROVE  /\ \A k \in 0 .. Len(script) : End(k) \in Nat
           /\ \A j, k \in 0 .. Len(script) : j < k => End(j) < End(k)
<1>1. Len(script) \in Nat /\ \A k \in 1 .. Len(script) : script[k].head + script[k].body \in Nat \ {0}
  <2>1. ASSUME NEW k \in 1 .. Len(script) PROVE script[k].head + script[k].body \in Nat \ {0}
    <3>1. script[k] \in Request
      OBVIOUS
    <3>2. script[k].head \in Nat \ {0} /\ script[k].body \in Nat
      BY <3>1 DEF Request
    <3>3. QED
      BY <3>2
  <2>2. QED
    BY <2>1
<1>2. \A k \in 0 .. Len(script) : End(k) \in Nat
  <2> SUFFICES ASSUME NEW n \in 0 .. Len(script), End(n) \notin Nat PROVE FALSE
    OBVIOUS
  <2> DEFINE T == {k \in 0 .. Len(script) : End(k) \notin Nat}
  <2>0. T \subseteq Nat /\ n \in T
    OBVIOUS
  <2>1. PICK m \in T : \A k \in T : m <= k
    <3> HIDE DEF T
    <3>1. QED
      BY <2>0, LeastElement
  <2>2. m # 0
    BY EndIs
  <2>3. m \in 1 .. Len(script) /\ m - 1 \in 0 .. Len(script) /\ m - 1 \notin T
    BY <1>1, <2>1, <2>2
  <2>4. End(m - 1) \in Nat
    BY <2>3
  <2>5. End(m) = End(m - 1) + (script[m].head + script[m].body)
    BY <2>3, EndIs
  <2>6. QED
    BY <1>1, <2>3, <2>4, <2>5
<1>3. \A k \in 1 .. Len(script) : End(k - 1) < End(k) /\ k - 1 \in 0 .. Len(script)
  BY <1>1, <1>2, EndIs
<1>4. ASSUME NEW i \in 0 .. Len(script), NEW n \in 0 .. Len(script), i < n PROVE End(i) < End(n)
  <2> SUFFICES ASSUME ~(End(i) < End(n)) PROVE FALSE
    OBVIOUS
  <2> DEFINE T == {k \in 0 .. Len(script) : i < k /\ ~(End(i) < End(k))}
  <2>0. T \subseteq Nat /\ n \in T
    BY <1>4
  <2>1. PICK m \in T : \A k \in T : m <= k
    <3> HIDE DEF T
    <3>1. QED
      BY <2>0, LeastElement
  <2>2. m \in 1 .. Len(script) /\ m - 1 \in 0 .. Len(script) /\ m - 1 \notin T
    BY <1>1, <2>1
  <2>3. m - 1 = i \/ End(i) < End(m - 1)
    BY <1>1, <2>1, <2>2
  <2>4. End(m - 1) < End(m)
    BY <1>3, <2>2
  <2>5. End(i) < End(m)
    BY <1>2, <2>2, <2>3, <2>4
  <2>6. QED
    BY <2>1, <2>5
<1>5. QED
  BY <1>2, <1>4

\* The first request starts at byte 0, and no other does.
LEMMA OnlyFirstAtZero ==
    ASSUME script \in Seq(Request), script # <<>>, off = 0
    PROVE  Current = 1
<1>1. Len(script) \in Nat \ {0}
  OBVIOUS
<1>2. End(0) = 0 /\ \A k \in 1 .. Len(script) : k - 1 \in 0 .. Len(script)
  BY <1>1, EndIs
<1>3. \A k \in 1 .. Len(script) : End(k - 1) = 0 => k = 1
  BY <1>1, <1>2, EndGrows
<1>4. 1 \in 1 .. Len(script) /\ End(1 - 1) = 0
  BY <1>1, <1>2
<1>5. QED
  BY <1>3, <1>4 DEF Current

------------------------------------------------------------------------------
(* What header_len and content_len are: nothing, or what the first request says *)

Script == /\ script \in Scripts /\ pipelining \in Pipelining
          /\ script \in Seq(Request) /\ script # <<>> /\ Len(script) \in Nat \ {0}

First == script[1]

\* What http_recv() makes of the first request's header.
DataOf(h) == [header_len  |-> h,
              content_len |-> IF h < 0 THEN 0 ELSE First.content,
              header      |-> 1]
Parseds == {DataOf(IF First.ok THEN First.head ELSE -1)}

\* Only a connection in use has events, and it has ConnectionData; nothing is consumed before the
\* first header was parsed, and no other header ever is.
DataOK ==
    /\ data \in {NoData, NewData} \cup Parseds
    /\ state \in {"Connected", "Closing"} => data \in {NewData} \cup Parseds
    /\ data = NewData => off = 0
    /\ state = "Accepted" => off = 0 /\ data = NoData
    /\ due # <<>> => state \in {"Connected", "Closing"}

LEMMA FirstIs ==
    ASSUME Script
    PROVE  /\ First \in Request /\ First.head \in Nat \ {0} /\ First.body \in Nat
           /\ First.content \in Int
           /\ End(1) = First.head + First.body /\ End(1) <= End(Len(script))
<1>1. First \in Request
  BY DEF Script, First
<1>2. First.head \in Nat \ {0} /\ First.body \in Nat /\ First.content \in Int
  BY <1>1 DEF Request
<1>3. End(1) = End(1 - 1) + (First.head + First.body) /\ End(0) = 0
  BY EndIs DEF Script, First
<1>4. 1 \in 0 .. Len(script) /\ Len(script) \in 0 .. Len(script)
  BY DEF Script
<1>5. End(1) \in Nat /\ End(Len(script)) \in Nat
  BY <1>4, EndGrows DEF Script
<1>6. End(1) <= End(Len(script))
  BY <1>4, <1>5, EndGrows DEF Script
<1>7. QED
  BY <1>1, <1>2, <1>3, <1>6

LEMMA DataTypes ==
    ASSUME Script, NEW d \in {NewData} \cup Parseds
    PROVE  /\ d.header_len \in Int /\ d.content_len \in Int
           /\ d \in Parseds => d.header_len # 0 /\ d # NewData /\ d.header = 1
           /\ d = NewData => d.header_len = 0
           /\ d \in [header_len : {-1} \cup 0 .. End(Len(script)), content_len : Int,
                     header : 0 .. Len(script)]
<1>1. End(Len(script)) \in Nat /\ First.head \in 0 .. End(Len(script)) /\ 1 \in 0 .. Len(script)
  <2>1. Len(script) \in 0 .. Len(script)
    BY DEF Script
  <2>2. End(Len(script)) \in Nat
    BY <2>1, EndGrows DEF Script
  <2>3. QED
    BY <2>2, FirstIs DEF Script
<1>2. CASE d = NewData
  <2>1. NewData \notin Parseds
    BY FirstIs DEF NewData, Parseds, DataOf
  <2>2. QED
    BY <1>1, <1>2, <2>1 DEF NewData, Script
<1>3. CASE d \in Parseds
  <2>1. PICK h \in {-1, First.head} : d = DataOf(h)
    BY <1>3 DEF Parseds
  <2>2. d.header_len = h /\ d.header = 1 /\ d.content_len \in {0, First.content}
    BY <2>1 DEF DataOf
  <2>3. h \in Int /\ h # 0
    BY FirstIs
  <2>4. d # NewData
    BY <2>2, <2>3 DEF NewData
  <2>5. d \in [header_len : {-1} \cup 0 .. End(Len(script)), content_len : Int,
               header : 0 .. Len(script)]
    BY <1>1, <2>1, FirstIs DEF DataOf
  <2>6. QED
    BY <2>2, <2>3, <2>4, <2>5, FirstIs
<1>4. QED
  BY <1>2, <1>3

\* The first half of http_recv(): the header of the first request is parsed once, as
\* soon as it is there, and no other header is.
LEMMA ParsedIs ==
    ASSUME Script, data \in {NewData} \cup Parseds, data = NewData => off = 0,
           NEW rlen \in Nat
    PROVE  /\ Parsed(data, rlen) \in {NewData} \cup Parseds
           /\ data \in Parseds => Parsed(data, rlen) = data
           /\ Parsed(data, rlen) = NewData => data = NewData /\ rlen < First.head
<1>1. CASE data \in Parseds
  <2>1. data.header_len # 0 /\ data # NewData
    BY <1>1, DataTypes
  <2>2. Parsed(data, rlen) = data
    BY <2>1 DEF Parsed
  <2>3. QED
    BY <1>1, <2>1, <2>2
<1>2. CASE data = NewData
  <2>1. data.header_len = 0 /\ off = 0 /\ data \notin Parseds
    BY <1>2, DataTypes
  <2>2. Current = 1
    BY <2>1, OnlyFirstAtZero DEF Script
  <2>3. First.head \in Nat \ {0}
    BY FirstIs
  <2>4. CASE rlen < First.head
    <3>1. Parsed(data, rlen) = data
      BY <2>2, <2>4 DEF Parsed, ReadFrom, First
    <3>2. QED
      BY <1>2, <2>1, <2>4, <3>1
  <2>5. CASE ~(rlen < First.head)
    <3>1. PICK h : h = IF First.ok THEN First.head ELSE -1
      OBVIOUS
    <3>2. h \in {First.head, -1} /\ ReadFrom(1, rlen) = h /\ rlen # 0 /\ h # 0
      BY <2>3, <2>5, <3>1 DEF ReadFrom, First
    <3>3. Parsed(data, rlen) = DataOf(h)
      BY <2>1, <2>2, <3>2 DEF Parsed, DataOf, First
    <3>4. Parsed(data, rlen) \in Parseds
      BY <3>1, <3>3 DEF Parseds
    <3>5. QED
      BY <2>1, <3>4, DataTypes
  <2>6. QED
    BY <2>4, <2>5
<1>3. QED
  BY <1>1, <1>2

\* The second half: what counts as received, and what is then consumed.
LEMMA CompleteIs ==
    ASSUME Script, NEW d \in {NewData} \cup Parseds, NEW rlen \in Nat
    PROVE  /\ Complete(d, rlen) <=> /\ d \in Parseds /\ First.ok /\ First.content >= 0
                                    /\ rlen >= First.head + First.content
           /\ TrimHead(d, rlen) = IF Complete(d, rlen) THEN First.head + First.content ELSE 0
<1>1. /\ First.head \in Nat \ {0} /\ First.content \in Int
  BY FirstIs
<1>2. CASE d = NewData
  <2>1. d.header_len = 0 /\ d \notin Parseds
    BY <1>2, DataTypes
  <2>2. ~Complete(d, rlen)
    BY <2>1 DEF Complete
  <2>3. QED
    BY <2>1, <2>2 DEF TrimHead
<1>3. CASE d \in Parseds
  <2>1. PICK h : h = (IF First.ok THEN First.head ELSE -1) /\ d = DataOf(h)
    BY <1>3 DEF Parseds
  <2>2. d.header_len = h /\ d.content_len = (IF h < 0 THEN 0 ELSE First.content)
    BY <2>1 DEF DataOf
  <2>3. CASE First.ok
    BY <1>1, <1>3, <2>1, <2>2, <2>3 DEF Complete, Refused, TrimHead
  <2>4. CASE ~First.ok
    BY <1>1, <1>3, <2>1, <2>2, <2>4 DEF Complete, Refused, TrimHead
  <2>5. QED
    BY <2>3, <2>4
<1>4. QED
  BY <1>2, <1>3

\* A client never sends beyond its script, and one that waits for its answers at most
\* one request beyond what it has the answers of.
LEMMA SendableIs ==
    ASSUME Script, flushed \in Nat
    PROVE  /\ Sendable \in Nat /\ Sendable <= End(Len(script))
           /\ ~pipelining /\ flushed < Len(script) => Sendable = End(flushed + 1)
<1>1. Len(script) \in 0 .. Len(script) /\ End(Len(script)) \in Nat
  BY EndGrows DEF Script
<1>2. CASE pipelining \/ flushed >= Len(script)
  BY <1>1, <1>2 DEF Sendable, Script
<1>3. CASE ~pipelining /\ flushed < Len(script)
  <2>1. flushed + 1 \in 0 .. Len(script)
    BY <1>3 DEF Script
  <2>2. End(flushed + 1) \in Nat /\ End(flushed + 1) <= End(Len(script))
    BY <1>1, <2>1, EndGrows DEF Script
  <2>3. QED
    BY <1>3, <2>2 DEF Sendable, Script
<1>4. QED
  BY <1>2, <1>3 DEF Script

\* An answer that arrives lets it send more, never less.
LEMMA SendableGrows ==
    ASSUME Script, UNCHANGED <<script, pipelining>>,
           flushed \in Nat, flushed' \in Nat, flushed <= flushed'
    PROVE  Sendable' \in Nat /\ Sendable <= Sendable'
<1>1. \A k : End(k)' = End(k)
  BY DEF End
<1>2. PICK n \in Nat : n = Len(script)
  BY DEF Script
<1>3. /\ Sendable  = End(IF pipelining \/ flushed >= n THEN n ELSE flushed + 1)
      /\ Sendable' = End(IF pipelining \/ flushed' >= n THEN n ELSE flushed' + 1)
  BY <1>1, <1>2 DEF Sendable
<1>4. PICK a \in 0 .. n, b \in 0 .. n : a <= b /\ Sendable = End(a) /\ Sendable' = End(b)
  <2>1. CASE pipelining \/ flushed >= n
    BY <1>2, <1>3, <2>1
  <2>2. CASE ~(pipelining \/ flushed >= n) /\ flushed' >= n
    BY <1>2, <1>3, <2>2
  <2>3. CASE ~(pipelining \/ flushed' >= n)
    BY <1>2, <1>3, <2>3
  <2>4. QED
    BY <2>1, <2>2, <2>3
<1>5. End(a) \in Nat /\ (a < b => End(a) < End(b)) /\ End(b) \in Nat
  BY <1>2, EndGrows DEF Script
<1>6. QED
  BY <1>4, <1>5

\* What a batch has for the connection are halves of the event handler.
LEMMA HalvesAre ==
    ASSUME NEW ready
    PROVE  Halves(ready) \in Seq({"W", "R"})
<1>1. PICK w : w = (IF "W" \in ready THEN <<"W">> ELSE <<>>)
  OBVIOUS
<1>2. PICK r : r = (IF "R" \in ready THEN <<"R">> ELSE <<>>)
  OBVIOUS
<1>3. PICK x : x = (IF ready = {"W", "R"} THEN <<"W", "R">> ELSE <<>>)
  OBVIOUS
<1>4. /\ w \in Seq({"W", "R"}) /\ r \in Seq({"W", "R"}) /\ x \in Seq({"W", "R"})
      /\ <<"W", "R">> \in Seq({"W", "R"})
  <2>1. /\ <<>> \in Seq({"W", "R"}) /\ <<"W">> \in Seq({"W", "R"})
        /\ <<"R">> \in Seq({"W", "R"}) /\ <<"W", "R">> \in Seq({"W", "R"})
    OBVIOUS
  <2>2. /\ w = <<"W">> \/ w = <<>>
        /\ r = <<"R">> \/ r = <<>>
        /\ x = <<"W", "R">> \/ x = <<>>
    BY <1>1, <1>2, <1>3, Zenon
  <2>3. QED
    BY <2>1, <2>2, Zenon
<1>5. w \o r \in Seq({"W", "R"}) /\ <<"W", "R">> \o x \in Seq({"W", "R"})
  BY <1>4
<1>6. Halves(ready) = IF ~kqueue \/ ready = {} THEN w \o r ELSE <<"W", "R">> \o x
  BY <1>1, <1>2, <1>3 DEF Halves
<1>7. QED
  BY <1>5, <1>6

------------------------------------------------------------------------------
(* The inductive invariant *)

\* Until the handler is called nothing is consumed, and a well-formed first request has
\* not come whole; when it is called first, it is for that request.
FirstCall ==
    /\ calls = <<>> => off = 0 /\ (WellFormed(First) => arrived < End(1))
    /\ calls # <<>> => /\ calls[1].off = 0 /\ calls[1].header = 1
                       /\ calls[1].upto >= First.head + First.content

\* Every request of the script is like the first.
Identical == WellFormed(First) /\ \A k \in DOMAIN script : script[k] = First

\* The calls were for the requests up to Len(calls), one for one.
InTurn ==
    /\ Len(calls) <= Len(script) /\ off = End(Len(calls))
    /\ \A k \in DOMAIN calls : /\ calls[k].off = End(k - 1)
                               /\ calls[k].upto >= End(k)
                               /\ pipelining \/ calls[k].upto = End(k)

\* The client has sent no more than it may.
Waits == sent <= Sendable

IInv == /\ Script /\ TypeOK /\ AtMostOneAnswer /\ DataOK /\ Waits
        /\ FirstCall /\ (Identical => InTurn)

LEMMA InitScript == Init => Script
<1> SUFFICES ASSUME Init PROVE Script
  OBVIOUS
<1>1. script \in Scripts /\ pipelining \in Pipelining
  BY DEF Init
<1>2. script \in Seq(Request) /\ script # <<>>
  BY <1>1, HttpAssumption
<1>3. Len(script) \in Nat \ {0}
  BY <1>2
<1>4. QED
  BY <1>1, <1>2, <1>3 DEF Script

LEMMA InitIInv == Init => IInv
<1> SUFFICES ASSUME Init PROVE IInv
  OBVIOUS
<1>1. Script /\ AtMostOneAnswer
  BY InitScript, InitAnswers
<1>2. Len(script) \in 0 .. Len(script) /\ 0 \in 0 .. Len(script) /\ End(Len(script)) \in Nat /\ End(0) = 0
  BY <1>1, EndIs, EndGrows DEF Script
<1>3. calls = <<>> /\ Len(calls) = 0 /\ off = 0 /\ arrived = 0 /\ End(1) > 0
  BY <1>1, FirstIs DEF Init
<1>4. TypeOK
  <2>1. calls \in Seq([off : Nat, header : 1 .. Len(script), upto : 0 .. arrived])
    BY <1>3
  <2>2. script \in Scripts /\ pipelining \in Pipelining /\ kqueue \in Kqueue
    BY DEF Init
  <2>3. /\ off \in 0 .. arrived /\ arrived \in 0 .. sent /\ sent \in 0 .. End(Len(script))
        /\ obuf \in Nat /\ flushed \in Nat
    BY <1>2, <1>3 DEF Init
  <2>4. /\ state = "Accepted" /\ data = NoData /\ stopped \in BOOLEAN
        /\ left \in BOOLEAN /\ interest \in BOOLEAN
    BY DEF Init
  <2>6. due \in Seq({"W", "R"})
    <3>1. due = <<>>
      BY DEF Init
    <3>2. QED
      BY <3>1
  <2>5. QED
    BY <2>1, <2>2, <2>3, <2>4, <2>6 DEF TypeOK
<1>5. DataOK
  BY DEF Init, DataOK
<1>6. FirstCall
  BY <1>3 DEF FirstCall
<1>7. InTurn
  BY <1>2, <1>3 DEF InTurn
<1>8. Waits
  BY <1>1, SendableIs DEF Init, Waits
<1>9. QED
  BY <1>1, <1>4, <1>5, <1>6, <1>7, <1>8 DEF IInv

LEMMA CountsIs == TypeOK => Counts
BY DEF TypeOK, Counts, IsHistory

\* The client's script does not change, nor do the ends of its requests.
LEMMA ScriptStays ==
    ASSUME Script, UNCHANGED <<script, pipelining>>
    PROVE  /\ Script' /\ First' = First /\ \A k : End(k)' = End(k)
           /\ (WellFormed(First)' <=> WellFormed(First)) /\ (Identical' <=> Identical)
           /\ Parseds' = Parseds
BY DEF Script, First, End, Identical, WellFormed, Parseds, DataOf

\* A step that neither brings bytes nor consumes any.
LEMMA QuietStep ==
    ASSUME IInv, UNCHANGED <<script, pipelining, arrived, off, calls>>,
           TypeOK', AtMostOneAnswer', DataOK', Waits'
    PROVE  IInv'
<1>1. Script' /\ First' = First /\ (\A k : End(k)' = End(k)) /\ (Identical' <=> Identical)
      /\ (WellFormed(First)' <=> WellFormed(First))
  BY ScriptStays DEF IInv
<1>2. FirstCall'
  BY <1>1 DEF IInv, FirstCall
<1>3. Identical' => InTurn'
  BY <1>1 DEF IInv, InTurn
<1>4. QED
  BY <1>1, <1>2, <1>3 DEF IInv

LEMMA OtherSteps ==
    ASSUME IInv, \/ Accept \/ Reap \/ EngineStops \/ Quiet \/ UNCHANGED vars
                 \/ \E n \in 0 .. obuf : Writable(n)
    PROVE  IInv'
<1>1. UNCHANGED <<setting, arrived, off, calls>> /\ UNCHANGED <<script, pipelining, kqueue>>
  BY DEF Accept, Walk, Timeout, Reap, EngineStops, Writable, ClientLeaves, ClientSends, Quiet,
         setting, http, vars
<1>2. AtMostOneAnswer'
  BY CountsIs, NextAnswers DEF IInv, Next, Worker, Quiet
<1>3. /\ Parseds' = Parseds /\ End(Len(script))' = End(Len(script))
      /\ \A d \in {NewData} \cup Parseds :
            d \in [header_len : {-1} \cup 0 .. End(Len(script)), content_len : Int,
                   header : 0 .. Len(script)]
  BY <1>1, ScriptStays, DataTypes DEF IInv
<1>4. obuf' \in Nat /\ flushed' \in Nat /\ flushed <= flushed' /\ flushed \in Nat
  BY DEF IInv, TypeOK, Accept, Walk, Timeout, Reap, EngineStops, Writable, ClientLeaves, ClientSends,
         Quiet, vars
<1>5. /\ state' \in {"Accepted", "Connected", "Closing", "Closed"} /\ stopped' \in BOOLEAN
      /\ data' \in {data, NewData, NoData}
  BY DEF IInv, TypeOK, Accept, Walk, Timeout, Reap, EngineStops, Writable, ClientLeaves, ClientSends,
         Quiet, http, vars
<1>6. DataOK'
  <2>1. CASE Accept
    BY <1>3, <2>1 DEF IInv, DataOK, Accept
  <2>2. CASE Timeout
    BY <1>1, <1>3, <2>2 DEF IInv, DataOK, Timeout, http
  <2>3. CASE Reap
    <3>1. NoData # NewData
      BY HttpAssumption DEF NewData
    <3>2. QED
      BY <1>3, <2>3, <3>1 DEF IInv, DataOK, Reap
  <2>4. CASE EngineStops
    BY <1>3, <2>4 DEF IInv, DataOK, EngineStops, http
  <2>5. CASE state' = state /\ data' = data /\ (due' # <<>> => due # <<>> \/ state = "Connected")
    BY <1>1, <1>3, <2>5 DEF IInv, DataOK
  <2>6. CASE \/ Walk \/ ClientLeaves \/ (\E n \in 1 .. End(Len(script)) : ClientSends(n))
             \/ UNCHANGED vars \/ \E n \in 0 .. obuf : Writable(n)
    BY <2>5, <2>6 DEF Walk, ClientLeaves, ClientSends, Writable, http, vars
  <2>7. QED
    BY <2>1, <2>2, <2>3, <2>4, <2>6 DEF Quiet
<1>7. /\ sent \in Nat /\ sent <= sent' /\ sent' \in Nat
      /\ sent' <= Sendable \/ sent' = sent
  BY EndGrows DEF IInv, TypeOK, Script, Accept, Walk, Timeout, Reap, EngineStops, Writable, ClientLeaves,
         ClientSends, Quiet, client, vars
<1>8. /\ Sendable \in Nat /\ Sendable' \in Nat /\ Sendable <= Sendable'
      /\ Sendable <= End(Len(script)) /\ sent <= End(Len(script)) /\ End(Len(script)) \in Nat
  BY <1>1, <1>4, SendableIs, SendableGrows, EndGrows DEF IInv, TypeOK, Script
<1>9. Waits'
  BY <1>7, <1>8 DEF IInv, Waits
<1>10. left' \in BOOLEAN /\ interest' \in BOOLEAN /\ due' \in Seq({"W", "R"})
  <2>1. left \in BOOLEAN /\ interest \in BOOLEAN /\ due \in Seq({"W", "R"}) /\ (obuf > 0) \in BOOLEAN
    BY DEF IInv, TypeOK
  <2>2. CASE Walk \/ Timeout
    <3>1. \E ready : due' = Halves(ready)
      BY <2>2 DEF Walk, Timeout, PollFor
    <3>2. left' = left /\ interest' \in {interest, obuf > 0}
      BY <2>2 DEF Walk, Timeout, client
    <3>3. QED
      BY <2>1, <3>1, <3>2, HalvesAre
  <2>3. CASE \E n \in 0 .. obuf : Writable(n)
    <3>1. due # <<>> /\ due' = Tail(due) /\ left' = left /\ interest' = interest
      BY <2>3 DEF Writable, client
    <3>2. QED
      BY <2>1, <3>1
  <2>4. CASE \/ Accept \/ Reap \/ EngineStops \/ ClientLeaves \/ UNCHANGED vars
             \/ \E n \in 1 .. End(Len(script)) : ClientSends(n)
    BY <2>1, <2>4 DEF Accept, Reap, EngineStops, ClientLeaves, ClientSends, client, vars
  <2>5. QED
    BY <2>2, <2>3, <2>4 DEF Quiet
<1>11. sent' \in 0 .. End(Len(script))' /\ arrived' \in 0 .. sent' /\ End(Len(script))' \in Nat
  BY <1>1, <1>3, <1>7, <1>8, <1>9 DEF IInv, TypeOK, Waits
<1>12. TypeOK'
  BY <1>1, <1>3, <1>4, <1>5, <1>6, <1>10, <1>11 DEF IInv, TypeOK, DataOK
<1>13. QED
  BY <1>1, <1>2, <1>6, <1>9, <1>12, QuietStep

LEMMA SeqGrows ==
    ASSUME NEW S, NEW T, S \subseteq T, NEW s \in Seq(S)
    PROVE  s \in Seq(T)
OBVIOUS

LEMMA Appended ==
    ASSUME NEW S, NEW s \in Seq(S), NEW e \in S
    PROVE  Append(s, e) \in Seq(S)
OBVIOUS

\* What a read event does, whatever is complete.
LEMMA ReadableIs ==
    ASSUME IInv, NEW n \in 0 .. End(Len(script)), NEW eof \in BOOLEAN, NEW o, NEW p,
           Readable(n, eof, o, p)
    PROVE  \E d \in {NewData} \cup Parseds, rlen \in Nat :
              /\ rlen = arrived' - off /\ off \in Nat /\ arrived' \in Nat
              /\ arrived <= arrived' /\ arrived' <= sent /\ arrived' <= Sendable
              /\ arrived' <= End(Len(script))
              /\ data' = d /\ (d = NewData => off = 0 /\ rlen < First.head)
              /\ state' \in {"Connected", "Closing"} /\ flushed' = flushed /\ stopped' = stopped
              /\ \/ /\ Complete(d, rlen) /\ off' = off + (First.head + First.content)
                    /\ calls' = Append(calls, [off |-> off, header |-> 1, upto |-> arrived'])
                 \/ ~Complete(d, rlen) /\ off' = off /\ calls' = calls
<1>1. /\ off \in Nat /\ arrived \in Nat /\ off <= arrived /\ n \in Nat /\ flushed \in Nat
      /\ sent \in Nat /\ sent <= End(Len(script)) /\ End(Len(script)) \in Nat /\ arrived + n <= sent
  BY EndGrows DEF IInv, TypeOK, Script, Readable
<1>2. /\ arrived' = arrived + n /\ arrived' <= sent /\ arrived' <= Sendable
      /\ arrived' <= End(Len(script))
  BY <1>1, SendableIs DEF IInv, Waits, Readable
<1>3. PICK rlen \in Nat : rlen = arrived + n - off
  BY <1>1
<1>4. data \in {NewData} \cup Parseds /\ (data = NewData => off = 0)
  BY Zenon DEF IInv, DataOK, Readable
<1>5. PICK d \in {NewData} \cup Parseds : d = Parsed(data, rlen)
  BY <1>4, ParsedIs DEF IInv
<1>6. d = NewData => off = 0 /\ rlen < First.head
  BY <1>4, <1>5, ParsedIs DEF IInv
<1>0. state \in {"Connected", "Closing"}
  BY DEF IInv, DataOK, Readable
<1>7. /\ data' = d /\ off' = off + TrimHead(d, rlen) /\ flushed' = flushed /\ stopped' = stopped
      /\ state' \in {"Connected", "Closing"}
  BY <1>0, <1>3, <1>5 DEF Readable
<1>8. CASE Complete(d, rlen)
  <2>1. calls' = Append(calls, [off |-> off, header |-> d.header, upto |-> arrived + n])
    BY <1>3, <1>5, <1>8 DEF Readable
  <2>2. d \in Parseds /\ TrimHead(d, rlen) = First.head + First.content
    BY <1>8, CompleteIs DEF IInv
  <2>3. d.header = 1
    BY <2>2, DataTypes DEF IInv
  <2>4. QED
    BY <1>1, <1>2, <1>3, <1>6, <1>7, <1>8, <2>1, <2>2, <2>3
<1>9. CASE ~Complete(d, rlen)
  <2>1. calls' = calls
    BY <1>3, <1>5, <1>9 DEF Readable
  <2>2. TrimHead(d, rlen) = 0
    BY <1>9, CompleteIs DEF IInv
  <2>3. QED
    BY <1>1, <1>2, <1>3, <1>6, <1>7, <1>9, <2>1, <2>2
<1>10. QED
  BY <1>8, <1>9

LEMMA ReadableKeeps ==
    ASSUME IInv, NEW n \in 0 .. End(Len(script)), NEW eof \in BOOLEAN, NEW o, NEW p,
           Readable(n, eof, o, p)
    PROVE  IInv'
<1>1. PICK d \in {NewData} \cup Parseds, rlen \in Nat :
              /\ rlen = arrived' - off /\ off \in Nat /\ arrived' \in Nat
              /\ arrived <= arrived' /\ arrived' <= sent /\ arrived' <= Sendable
              /\ arrived' <= End(Len(script))
              /\ data' = d /\ (d = NewData => off = 0 /\ rlen < First.head)
              /\ state' \in {"Connected", "Closing"} /\ flushed' = flushed /\ stopped' = stopped
              /\ \/ /\ Complete(d, rlen) /\ off' = off + (First.head + First.content)
                    /\ calls' = Append(calls, [off |-> off, header |-> 1, upto |-> arrived'])
                 \/ ~Complete(d, rlen) /\ off' = off /\ calls' = calls
  BY ReadableIs
<1>2. /\ Script /\ TypeOK /\ FirstCall /\ (Identical => InTurn) /\ Waits
      /\ UNCHANGED setting /\ UNCHANGED <<script, pipelining, kqueue>> /\ UNCHANGED client
      /\ UNCHANGED <<sent, left, interest>>
  BY DEF IInv, Readable, setting, client
<1>3. /\ Script' /\ First' = First /\ \A k : End(k)' = End(k)
      /\ (WellFormed(First)' <=> WellFormed(First)) /\ (Identical' <=> Identical)
      /\ Parseds' = Parseds
  BY <1>2, ScriptStays
<1>4. AtMostOneAnswer' /\ Counts'
  BY <1>2, CountsIs, ReadableAnswersOnce DEF IInv
<1>5. /\ First.head \in Nat \ {0} /\ First.body \in Nat /\ First.content \in Int
      /\ End(1) = First.head + First.body
  BY <1>2, FirstIs
<1>6. Complete(d, rlen) => /\ First.content >= 0 /\ off' \in Nat /\ off < off' /\ off' <= arrived'
                           /\ d \in Parseds
  <2>1. Complete(d, rlen) => /\ d \in Parseds /\ First.content >= 0
                             /\ rlen >= First.head + First.content
    BY <1>2, CompleteIs
  <2>2. QED
    BY <1>1, <1>5, <2>1
<1>7. off' \in 0 .. arrived'
  BY <1>1, <1>2, <1>6 DEF TypeOK
<1>8. d # NewData => d \in Parseds
  OBVIOUS
<1>9. DataOK'
  <2>1. d = NewData => ~Complete(d, rlen)
    BY <1>2, CompleteIs, DataTypes
  <2>2. QED
    BY <1>1, <1>3, <2>1 DEF DataOK
<1>10. calls \in Seq([off : Nat, header : 1 .. Len(script), upto : 0 .. arrived])
  BY <1>2 DEF TypeOK
<1>11. calls' \in Seq([off : Nat, header : 1 .. Len(script), upto : 0 .. arrived'])
  <2>1. calls \in Seq([off : Nat, header : 1 .. Len(script), upto : 0 .. arrived'])
    <3>1. [off : Nat, header : 1 .. Len(script), upto : 0 .. arrived] \subseteq
             [off : Nat, header : 1 .. Len(script), upto : 0 .. arrived']
      BY <1>1, <1>2 DEF TypeOK
    <3>2. QED
      BY <1>10, <3>1, SeqGrows
  <2>2. [off |-> off, header |-> 1, upto |-> arrived'] \in
           [off : Nat, header : 1 .. Len(script), upto : 0 .. arrived']
    BY <1>1, <1>2 DEF Script
  <2>3. CASE calls' = calls
    BY <2>1, <2>3
  <2>4. CASE calls' = Append(calls, [off |-> off, header |-> 1, upto |-> arrived'])
    BY <2>1, <2>2, <2>4, Appended
  <2>5. QED
    BY <1>1, <2>3, <2>4
<1>12. TypeOK'
  <2>1. d \in [header_len : {-1} \cup 0 .. End(Len(script)), content_len : Int,
               header : 0 .. Len(script)]
    BY <1>2, DataTypes
  <2>2. /\ arrived' \in 0 .. sent' /\ sent' \in 0 .. End(Len(script))
        /\ End(Len(script))' = End(Len(script))
    <3>1. sent \in 0 .. End(Len(script)) /\ sent' = sent
      BY <1>2, Zenon DEF TypeOK
    <3>2. End(Len(script))' = End(Len(script))
      BY <1>2, <1>3
    <3>3. End(Len(script)) \in Nat
      BY <1>2, EndGrows DEF Script
    <3>4. arrived' \in Nat /\ arrived' <= sent /\ sent \in Nat
      BY <1>1, <3>1, <3>3
    <3>5. QED
      BY <3>1, <3>2, <3>4, SMTT(30)
  <2>3. stopped' \in BOOLEAN /\ obuf' \in Nat /\ flushed' \in Nat
    BY <1>1, <1>2, <1>4 DEF TypeOK, Counts
  <2>4. /\ script' \in Scripts /\ pipelining' \in Pipelining /\ kqueue' \in Kqueue
        /\ left' \in BOOLEAN /\ interest' \in BOOLEAN
    BY <1>2 DEF TypeOK
  <2>5. due' \in Seq({"W", "R"})
    <3>1. due \in Seq({"W", "R"}) /\ due # <<>> /\ due' = Tail(due)
      BY <1>2 DEF TypeOK, Readable
    <3>2. QED
      BY <3>1
  <2>6. /\ state' \in {"Accepted", "Connected", "Closing", "Closed"} /\ script' = script
        /\ data' = d
    BY <1>1, <1>2
  <2>7. QED
    BY <1>7, <1>11, <2>1, <2>2, <2>3, <2>4, <2>5, <2>6 DEF TypeOK
<1>13. FirstCall'
  <2>1. CASE ~Complete(d, rlen)
    <3>1. off' = off /\ calls' = calls
      BY <1>1, <2>1
    <3>2. ASSUME calls = <<>>, WellFormed(First) PROVE arrived' < End(1)
      <4>0. off = 0
        BY <1>2, <3>2 DEF FirstCall
      <4>1. rlen = arrived' /\ First.content = First.body
        <5>1. First.content = First.body
          BY <3>2, Zenon DEF WellFormed
        <5>2. rlen = arrived'
          <6>1. \A x \in Nat : x - 0 = x
            OBVIOUS
          <6>2. rlen = arrived' - 0 /\ arrived' \in Nat
            BY <1>1, <4>0, Zenon
          <6>3. QED
            BY <6>1, <6>2, Zenon
        <5>3. QED
          BY <5>1, <5>2
      <4>2. ASSUME arrived' >= End(1) PROVE FALSE
        <5>1. rlen >= First.head + First.content /\ ~(rlen < First.head) /\ First.content >= 0
          BY <1>5, <4>1, <4>2
        <5>2. d \in Parseds
          BY <1>1, <5>1
        <5>3. QED
          BY <1>2, <2>1, <3>2, <4>1, <5>1, <5>2, CompleteIs DEF WellFormed
      <4>3. QED
        BY <1>1, <1>5, <4>2
    <3>3. QED
      BY <1>2, <1>3, <3>1, <3>2 DEF FirstCall
  <2>2. CASE Complete(d, rlen)
    <3>1. PICK e : /\ e = [off |-> off, header |-> 1, upto |-> arrived']
                   /\ calls' = Append(calls, e)
      BY <1>1, <2>2
    <3>2. calls' # <<>> /\ calls'[1] = IF calls = <<>> THEN e ELSE calls[1]
      BY <1>10, <3>1
    <3>3. arrived' >= First.head + First.content
      BY <1>1, <1>5, <1>6, <2>2
    <3>4. calls = <<>> => off = 0
      BY <1>2 DEF FirstCall
    <3>5. QED
      BY <1>2, <1>3, <3>1, <3>2, <3>3, <3>4 DEF FirstCall
  <2>3. QED
    BY <2>1, <2>2
<1>14. ASSUME Identical PROVE InTurn'
  <2>0. InTurn
    BY <1>2, <1>14
  <2>1. CASE ~Complete(d, rlen)
    <3>1. off' = off /\ calls' = calls /\ UNCHANGED <<script, pipelining>>
      BY <1>1, <1>2, <2>1
    <3>2. QED
      BY <1>3, <2>0, <3>1 DEF InTurn
  <2>2. CASE Complete(d, rlen)
    <3>1. PICK c \in Nat : c = Len(calls)
      BY <1>10
    <3>2. PICK e : /\ e = [off |-> off, header |-> 1, upto |-> arrived']
                   /\ calls' = Append(calls, e)
      BY <1>1, <2>2
    <3>3. /\ Len(calls') = c + 1 /\ calls'[c + 1] = e
          /\ \A k \in 1 .. c : calls'[k] = calls[k]
          /\ DOMAIN calls' = 1 .. c + 1 /\ DOMAIN calls = 1 .. c
      BY <1>10, <3>1, <3>2
    <3>4. off = End(c) /\ c <= Len(script) /\ c \in 0 .. Len(script) /\ Len(script) \in Nat
      BY <1>2, <2>0, <3>1 DEF InTurn, Script
    <3>5. First.content = First.body
      BY <1>14 DEF Identical, WellFormed
    <3>6. off' = off + (First.head + First.body)
      BY <1>1, <2>2, <3>5
    <3>7. c # Len(script)
      BY <1>1, <1>5, <1>6, <2>2, <3>4
    <3>8. c + 1 \in 1 .. Len(script) /\ c + 1 \in 0 .. Len(script)
      BY <3>4, <3>7
    <3>9. script[c + 1] = First
      BY <1>2, <1>14, <3>8 DEF Identical, Script
    <3>10. End(c + 1) = off'
      <4>1. End(c + 1) = End(c + 1 - 1) + (script[c + 1].head + script[c + 1].body)
        BY <1>2, <3>8, EndIs DEF Script
      <4>2. QED
        BY <3>1, <3>4, <3>6, <3>9, <4>1
    <3>11. arrived' >= End(c + 1)
      BY <1>6, <2>2, <3>10
    <3>12. pipelining \/ arrived' = End(c + 1)
      <4>1. SUFFICES ASSUME ~pipelining PROVE arrived' <= End(c + 1)
        BY <1>1, <1>6, <2>2, <3>10, <3>11
      <4>2. flushed \in Nat /\ flushed <= c
        BY <1>2, <3>1 DEF IInv, TypeOK, AtMostOneAnswer
      <4>3. flushed < Len(script)
        BY <3>4, <3>7, <4>2
      <4>4. Sendable = End(flushed + 1)
        BY <1>2, <4>1, <4>2, <4>3, SendableIs
      <4>5. flushed + 1 \in 0 .. Len(script) /\ (flushed + 1 < c + 1 \/ flushed + 1 = c + 1)
        BY <3>4, <4>2, <4>3
      <4>6. End(flushed + 1) \in Nat /\ End(c + 1) \in Nat /\ End(flushed + 1) <= End(c + 1)
        BY <1>2, <3>8, <4>5, EndGrows DEF Script
      <4>7. QED
        BY <1>1, <4>4, <4>6
    <3>13. ASSUME NEW k \in 1 .. c + 1
           PROVE  /\ calls'[k].off = End(k - 1) /\ calls'[k].upto >= End(k)
                  /\ pipelining \/ calls'[k].upto = End(k)
      <4>1. CASE k \in 1 .. c
        BY <2>0, <3>3, <4>1 DEF InTurn
      <4>2. CASE k = c + 1
        <5>1. e.off = End(c) /\ e.upto = arrived' /\ k - 1 = c
          BY <3>1, <3>2, <3>4, <4>2
        <5>2. QED
          BY <3>3, <3>11, <3>12, <4>2, <5>1
      <4>3. QED
        BY <3>1, <4>1, <4>2
    <3>14. QED
      BY <1>2, <1>3, <3>3, <3>8, <3>10, <3>13 DEF InTurn
  <2>3. QED
    BY <2>1, <2>2
<1>15. Waits'
  <2>1. flushed \in Nat /\ flushed' = flushed /\ Sendable' = Sendable
    BY <1>1, <1>2, <1>3 DEF TypeOK, Sendable
  <2>2. QED
    BY <1>2, <2>1 DEF Waits
<1>16. QED
  BY <1>3, <1>4, <1>9, <1>12, <1>13, <1>14, <1>15 DEF IInv

LEMMA NextIInv == IInv /\ [Next]_vars => IInv'
BY OtherSteps, ReadableKeeps DEF Next, Worker, Quiet

LEMMA IInvAlways == Spec => []IInv
BY InitIInv, NextIInv, PTL DEF Spec

------------------------------------------------------------------------------
(* The theorems *)

\* For any requests, cut in any way: nothing beyond what has arrived is consumed, what
\* http_recv() remembers is a length or the -1, and nothing has arrived that was not sent.
THEOREM TypeOKAlways == Spec => []TypeOK
<1>1. IInv => TypeOK
  BY DEF IInv
<1>2. QED
  BY <1>1, IInvAlways, PTL

\* For any first request, cut in any way, whatever follows it: the handler first gets it
\* with its own header and from its first byte, not before its declared length is there,
\* and if it is well-formed in the very event that brings its last byte.
THEOREM FirstServedWholeAlways == Spec => []FirstServedWhole
<1>1. ASSUME IInv PROVE FirstServedWhole
  <2>1. Script /\ DataOK /\ FirstCall /\ TypeOK
    BY <1>1 DEF IInv
  <2>2. ASSUME data # NoData, data.header_len = 0 PROVE off = 0
    <3>1. data \in {NewData} \cup Parseds
      BY <2>1, <2>2 DEF DataOK
    <3>2. data = NewData
      BY <2>1, <2>2, <3>1, DataTypes
    <3>3. QED
      BY <2>1, <3>2 DEF DataOK
  <2>3. End(1) \in Nat /\ arrived \in Nat
    BY <2>1, FirstIs, EndGrows DEF TypeOK, Script
  <2>4. QED
    BY <2>1, <2>2, <2>3 DEF FirstServedWhole, FirstCall, First
<1>2. QED
  BY <1>1, IInvAlways, PTL

\* For any number of identical well-formed requests, cut in any way: they are served in
\* turn, each once and over its own bytes, although header_len and content_len are never
\* set again.
THEOREM IdenticalServedInTurnAlways == Spec => []IdenticalServedInTurn
<1>1. IInv => IdenticalServedInTurn
  BY DEF IInv, IdenticalServedInTurn, Identical, InTurn, First
<1>2. QED
  BY <1>1, IInvAlways, PTL

\* The -1 that stands for a refused request is never taken for a length: nothing more is
\* consumed and the handler is not called.
THEOREM RefusedIsInertAlways == Spec => RefusedIsInert
<1>1. ASSUME IInv, [Next]_vars, data # NoData, Refused(data)
      PROVE  off' = off /\ calls' = calls
  <2>1. CASE \/ Accept \/ Reap \/ EngineStops \/ Quiet \/ UNCHANGED vars
             \/ \E n \in 0 .. obuf : Writable(n)
    BY <2>1 DEF Accept, Walk, Timeout, Reap, EngineStops, Writable, ClientLeaves, ClientSends, Quiet,
                http, vars
  <2>2. ASSUME NEW n \in 0 .. End(Len(script)), NEW eof \in BOOLEAN, NEW o, NEW p,
               Readable(n, eof, o, p)
        PROVE  off' = off /\ calls' = calls
    <3>1. PICK d \in {NewData} \cup Parseds, rlen \in Nat :
             /\ data' = d /\ (~Complete(d, rlen) => off' = off /\ calls' = calls)
      BY <1>1, <2>2, ReadableIs
    <3>2. data \in {NewData} \cup Parseds /\ Script
      BY <1>1, Zenon DEF IInv, DataOK
    <3>3. data.header_len # 0
      BY <1>1, <3>2, DataTypes DEF Refused
    <3>4. data' = data
      BY <2>2, <3>3 DEF Readable, Parsed
    <3>5. ~Complete(d, rlen)
      BY <1>1, <3>1, <3>4 DEF Complete
    <3>6. QED
      BY <3>1, <3>5
  <2>3. QED
    BY <1>1, <2>1, <2>2 DEF Next, Worker, Quiet
<1>2. QED
  BY <1>1, IInvAlways, PTL DEF Spec, RefusedIsInert
==============================================================================
