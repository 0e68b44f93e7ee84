------------------------------ MODULE HttpServer ------------------------------
(***************************************************************************)
(* The HTTP helper of httpserver.cpp on one connection of the engine: the   *)
(* requests a client sends, cut into reads at any byte, the rounds of the   *)
(* worker, the framing state kept in ConnectionData, the handler and its    *)
(* answers, and the ways a connection ends (the client leaves, close()      *)
(* inside send(), the idle timeout, stop() of the engine).                  *)
(*                                                                          *)
(* Bytes are counted, not spelled: a request is the length of its header,   *)
(* the body that follows, and what parsing the header gives.  One thread    *)
(* serves a connection, so a callback is one step, and so is what lies      *)
(* between two batches of events: the walk and the wait that follows.       *)
(* Connections share no HTTP state, so one connection is modelled.          *)
(***************************************************************************)
EXTENDS Integers, Sequences

CONSTANTS
    Scripts,        \* the sequences of requests a client may send
    Pipelining,     \* subset of BOOLEAN: do clients send before the last answer came
    Kqueue,         \* subset of BOOLEAN: is the poller kqueue, or else epoll or select
    NoData          \* no '_htp' entry in Tcp::ud

\* ok: read_from() accepts the header.  head: the bytes it takes to say so, up to the
\* empty line, and not fewer than the 9 below which it never answers.  content: atoi()
\* of the content-length header, 0 without one.
Request == [uri : STRING, head : Nat \ {0}, content : Int, body : Nat, ok : BOOLEAN]
WellFormed(r) == r.ok /\ r.content = r.body

ASSUME HttpAssumption ==
    /\ Scripts # {} /\ Scripts \subseteq Seq(Request) /\ <<>> \notin Scripts
    /\ Pipelining \subseteq BOOLEAN /\ Kqueue \subseteq BOOLEAN
    /\ NoData \notin [header_len : Int, content_len : Int, header : Nat]

VARIABLES
    script,     \* what this client sends ...
    pipelining, \* ... and whether it waits for answers
    kqueue,     \* which poller this program has
    sent,       \* bytes the client has sent so far ...
    left,       \* ... and whether it has ended or reset the connection
    interest,   \* _evmask & kWrite
    due,        \* the halves of the event handler this batch still has for it
    state,      \* Tcp::_state; "Closed" once the engine has deleted the object
    arrived,    \* bytes io_read() has put into _ibuf so far ...
    off,        \* ... and how many of them trim_head() has removed
    data,       \* ConnectionData, or NoData
    obuf,       \* answers in _obuf
    flushed,    \* answers the client has received
    calls,      \* history: the invocations of cb_http
    stopped     \* stop() has deleted the connection

setting == <<script, pipelining, kqueue>>
client  == <<sent, left>>
http    == <<arrived, off, data, calls>>
vars    == <<setting, client, http, interest, due, state, obuf, flushed, stopped>>

\* Where request k ends in the stream.
End(k) ==
    LET ends[j \in 0 .. Len(script)] ==
            IF j = 0 THEN 0 ELSE ends[j - 1] + (script[j].head + script[j].body)
    IN  ends[k]

\* ConnectionData(); header is the request whose header was parsed, 0 before.
NewData == [header_len |-> 0, content_len |-> -1, header |-> 0]

TypeOK ==
    /\ script \in Scripts /\ pipelining \in Pipelining /\ kqueue \in Kqueue
    /\ state \in {"Accepted", "Connected", "Closing", "Closed"}
    /\ off \in 0 .. arrived /\ arrived \in 0 .. sent /\ sent \in 0 .. End(Len(script))
    /\ left \in BOOLEAN /\ interest \in BOOLEAN /\ due \in Seq({"W", "R"})
    /\ \/ data = NoData
       \/ data \in [header_len : {-1} \cup 0 .. End(Len(script)),
                    content_len : Int, header : 0 .. Len(script)]
    /\ obuf \in Nat /\ flushed \in Nat
    /\ calls \in Seq([off : Nat, header : 1 .. Len(script), upto : 0 .. arrived])
    /\ stopped \in BOOLEAN

Init ==
    /\ script \in Scripts /\ pipelining \in Pipelining /\ kqueue \in Kqueue
    /\ sent = 0 /\ left = FALSE /\ interest = FALSE /\ due = <<>>
    /\ state = "Accepted" /\ data = NoData
    /\ arrived = 0 /\ off = 0 /\ obuf = 0 /\ flushed = 0 /\ calls = <<>>
    /\ stopped = FALSE

------------------------------------------------------------------------------
(* The client (external): a sequence of requests, cut anywhere. *)

\* A client that does not pipeline sends a request when the last one was answered.
Sendable ==
    End(IF pipelining \/ flushed >= Len(script) THEN Len(script) ELSE flushed + 1)

ClientSends(n) ==
    /\ state # "Closed" /\ ~left /\ sent + n <= Sendable
    /\ sent' = sent + n
    /\ UNCHANGED <<setting, left, http, interest, due, state, obuf, flushed, stopped>>

ClientLeaves ==
    /\ state # "Closed" /\ ~left
    /\ left' = TRUE
    /\ UNCHANGED <<setting, sent, http, interest, due, state, obuf, flushed, stopped>>

------------------------------------------------------------------------------
(* http_recv() and what it calls *)

\* HttpRequestHeader::read_from() on what is in _ibuf: 0 for fewer bytes than it wants
\* or without the empty line (see Request), -1 for a header it does not accept, else
\* its length.  It only ever runs where a request starts (see FirstServedWhole).
ReadFrom(k, rlen) ==
    IF rlen < script[k].head THEN 0 ELSE IF script[k].ok THEN script[k].head ELSE -1

\* The request at the front of _ibuf.
Current == CHOOSE k \in 1 .. Len(script) : End(k - 1) = off

\* ConnectionData after the first half of http_recv().
Parsed(d, rlen) ==
    LET h == ReadFrom(Current, rlen)
    IN  IF d.header_len # 0 \/ rlen = 0 \/ h = 0 THEN d
        ELSE [header_len  |-> h,
              content_len |-> IF h < 0 THEN 0 ELSE script[Current].content,
              header      |-> Current]

\* http_recv() returns -1.
Refused(d) == d.header_len < 0 \/ (d.header_len > 0 /\ d.content_len < 0)

\* Mutant of Complete: only the header is waited for.
Complete_HeaderOnly(d, rlen) ==
    d.header_len > 0 /\ ~Refused(d) /\ rlen >= d.header_len

\* The request counts as received.
Complete(d, rlen) ==
    d.header_len > 0 /\ ~Refused(d) /\ rlen >= d.header_len + d.content_len

\* Mutant of TrimHead: as much as there is.
TrimHead_Clamped(d, rlen) ==
    CASE Refused(d)        -> rlen
      [] Complete(d, rlen) -> d.header_len + d.content_len
      [] OTHER             -> 0

\* Mutant of TrimHead: the size is not checked, and adding SIZE_MAX steps back.
TrimHead_Unchecked(d, rlen) ==
    CASE Refused(d)        -> -1
      [] Complete(d, rlen) -> d.header_len + d.content_len
      [] OTHER             -> 0

\* Mutant of TrimHead: the handler was given everything, so everything is consumed.
TrimHead_All(d, rlen) == IF Complete(d, rlen) THEN rlen ELSE 0

\* What Tcp::recv() then removes: trim_head() refuses -1, SIZE_MAX to it.
TrimHead(d, rlen) == IF Complete(d, rlen) THEN d.header_len + d.content_len ELSE 0

\* Mutant of HttpResponse: the empty text is found out after the header was sent.
HttpResponse_LateCheck(o) ==
    [queued |-> IF o \in {"fits", "empty"} THEN 1 ELSE 0,
     closes |-> o = "long", result |-> o \in {"fits", "long"}]

\* http_response(): refused for an empty text ("empty") or when _obuf cannot grow
\* ("nomem"); an answer that does not fit what was reserved ("long") closes the
\* connection, and send() still returns true.
HttpResponse(o) ==
    [queued |-> IF o = "fits" THEN 1 ELSE 0,
     closes |-> o = "long", result |-> o \in {"fits", "long"}]

\* cb_http(): the application answers, stays silent or declines ...
CbHttp(o) ==
    IF o \in {"silent", "decline"}
    THEN [queued |-> 0, closes |-> FALSE, result |-> o = "silent"]
    ELSE HttpResponse(o)

\* ... and a request it declines gets a 404, without a text.
Served(o, p) ==
    LET answer == CbHttp(o)
    IN  IF answer.result THEN answer
        ELSE [HttpResponse(p) EXCEPT !.queued = @ + answer.queued]

------------------------------------------------------------------------------
(* The rounds of worker_socket(): the walk, the wait, then a batch of events. *)

\* cb_net_accepted: http_accepted().
Accept ==
    /\ state = "Accepted"
    /\ state' = "Connected" /\ data' = NewData
    /\ UNCHANGED <<setting, client, arrived, off, calls, interest, due, obuf, flushed, stopped>>

\* The handler writes, then reads.  epoll and select make one call for what is ready;
\* kqueue one for each event, and takes every event for both (netpoller.cpp).
Halves(ready) ==
    LET one == (IF "W" \in ready THEN <<"W">> ELSE <<>>) \o (IF "R" \in ready THEN <<"R">> ELSE <<>>)
    IN  IF ~kqueue \/ ready = {} THEN one
        ELSE <<"W", "R">> \o (IF ready = {"W", "R"} THEN <<"W", "R">> ELSE <<>>)

\* poller.poll(): some of what can be ready with this interest.
PollFor(writes) ==
    \E ready \in SUBSET {e \in {"W", "R"} : IF e = "W" THEN writes ELSE sent > arrived \/ left} :
       due' = Halves(ready)

\* The walk over a connection in use: the interest follows _obuf.
Walk ==
    /\ state = "Connected" /\ due = <<>>
    /\ interest' = (obuf > 0) /\ PollFor(interest')
    /\ UNCHANGED <<setting, client, http, state, obuf, flushed, stopped>>

\* Mutant of Timeout: closes only what is between two requests.
Timeout_WhenIdle ==
    /\ state = "Connected" /\ due = <<>> /\ off = arrived
    /\ state' = "Closing"
    /\ interest' \in {interest, obuf > 0} /\ PollFor(interest')
    /\ UNCHANGED <<setting, client, http, obuf, flushed, stopped>>

\* The walk over one that was idle too long: http_timeout(), which closes it and
\* returns true, or false as in the example, which skips the interest.
Timeout ==
    /\ state = "Connected" /\ due = <<>>
    /\ state' = "Closing"
    /\ interest' \in {interest, obuf > 0} /\ PollFor(interest')
    /\ UNCHANGED <<setting, client, http, obuf, flushed, stopped>>

\* The walk over a closed one: cb_net_closed, http_closed(), and the engine deletes
\* the object, _obuf with it.
Reap ==
    /\ state = "Closing" /\ due = <<>>
    /\ state' = "Closed" /\ data' = NoData /\ obuf' = 0
    /\ UNCHANGED <<setting, client, arrived, off, calls, interest, due, flushed, stopped>>

\* stop(): the worker deletes the object and calls nobody; ConnectionData stays.
EngineStops ==
    /\ state \in {"Connected", "Closing"} /\ due = <<>>
    /\ state' = "Closed" /\ obuf' = 0 /\ stopped' = TRUE
    /\ UNCHANGED <<setting, client, http, interest, due, flushed>>

\* The write half: io_write() sends some answers; http_sent() does nothing.
Writable(n) ==
    /\ due # <<>> /\ Head(due) = "W" /\ due' = Tail(due)
    /\ n <= obuf
    /\ obuf' = obuf - n /\ flushed' = flushed + n
    /\ UNCHANGED <<setting, client, http, interest, state, stopped>>

\* The read half: io_read() gets the n bytes that are there, or none of them after a
\* reset, and may see that the client has left, which it does when there is nothing
\* else; then cb_net_recv, http_recv(), if _ibuf holds anything.  A connection closed
\* in the walk or earlier in the batch is still read.
Readable(n, eof, o, p) ==
    /\ due # <<>> /\ Head(due) = "R" /\ due' = Tail(due)
    /\ n \in {0, sent - arrived}
    /\ IF eof THEN left ELSE n = sent - arrived /\ (left => n > 0)
    /\ LET rlen   == arrived + n - off
           d      == Parsed(data, rlen)
           answer == Served(o, p)
       IN  /\ data' = d
           /\ off' = off + TrimHead(d, rlen)
           /\ IF Complete(d, rlen)
              THEN /\ calls' = Append(calls, [off |-> off, header |-> d.header,
                                              upto |-> arrived + n])
                   /\ obuf' = obuf + answer.queued
                   /\ state' = IF eof \/ answer.closes THEN "Closing" ELSE state
              ELSE /\ state' = IF eof THEN "Closing" ELSE state
                   /\ UNCHANGED <<calls, obuf>>
    /\ arrived' = arrived + n
    /\ UNCHANGED <<setting, client, interest, flushed, stopped>>

Worker ==
    \/ Accept \/ Walk \/ Reap
    \/ \E n \in 0 .. obuf : Writable(n)
    \/ \E n \in 0 .. End(Len(script)), eof \in BOOLEAN,
          o \in {"fits", "empty", "nomem", "long", "decline", "silent"}, p \in {"fits", "nomem"} :
             Readable(n, eof, o, p)

Next ==
    \/ Worker \/ Timeout \/ EngineStops \/ ClientLeaves
    \/ \E n \in 1 .. End(Len(script)) : ClientSends(n)

Spec == Init /\ [][Next]_vars

\* The worker comes round, and a connection that keeps being walked over times out:
\* what a client sends comes to an end (set_timeout() was called; see the README).
FairSpec == Spec /\ WF_vars(Worker) /\ SF_vars(Timeout)

------------------------------------------------------------------------------
(* Properties *)

\* However the network cuts the stream, the first request reaches the handler
\* exactly when it is whole: not before its declared length has come, with its own
\* header, from its first byte; and a well-formed one in the very event that
\* brings its last byte (http_recv, "not fully received, wait for next event").
FirstServedWhole ==
    /\ data # NoData /\ data.header_len = 0 => off = 0
    /\ calls # <<>> => /\ calls[1].off = 0 /\ calls[1].header = 1
                       /\ calls[1].upto >= script[1].head + script[1].content
    /\ WellFormed(script[1]) /\ arrived >= End(1) => calls # <<>>

\* Identical requests on one connection (what the stress test of the httpd example
\* sends) are served one after the other, each once and over its own bytes, though
\* header_len and content_len are those of the first; a handler sees bytes of a
\* later request only if the client pipelines.
IdenticalServedInTurn ==
    WellFormed(script[1]) /\ (\A k \in DOMAIN script : script[k] = script[1]) =>
        /\ off = End(Len(calls))
        /\ \A k \in DOMAIN calls : /\ calls[k].off = End(k - 1)
                                   /\ calls[k].upto >= End(k)
                                   /\ pipelining \/ calls[k].upto = End(k)

\* A handler call puts at most one answer on the wire, the application's or the
\* 404: a client that pairs answers with requests by their order never gets ahead.
AtMostOneAnswer == obuf + flushed <= Len(calls)

\* Once a request was refused nothing of the stream is consumed or served any more:
\* the -1 that http_recv() returns must not be taken for a length by trim_head().
RefusedIsInert ==
    [][data # NoData /\ Refused(data) => off' = off /\ calls' = calls]_vars

\* Every connection ends, also one whose request never becomes whole, was refused
\* or left the handler silent; and its ConnectionData goes with it unless stop()
\* deleted the connection.
ConnectionEnds == <>[](state = "Closed" /\ (data = NoData \/ stopped))

\* The handler is only called for a request that is fully received
\* (httpserver.cpp:53: "not fully received, wait for next event").
WaitsForWholeRequest ==
    \A i \in DOMAIN calls :
       \E k \in DOMAIN script : calls[i].off = End(k - 1) /\ calls[i].upto >= End(k)
==============================================================================
