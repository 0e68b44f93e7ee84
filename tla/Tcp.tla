--------------------------------- MODULE Tcp ---------------------------------
(***************************************************************************)
(* The Tcp object of tcp.h/tcp.cpp: the part of its state that steers the   *)
(* engine, and what each of its methods does to it.                         *)
(*                                                                          *)
(* A buffer is abstracted to "it holds at least one byte"; the evmask to    *)
(* its kWrite bit (no other bit of it is ever set).  What the kernel does   *)
(* to a system call (how much send() takes, whether recv() sees data or the *)
(* end of the stream) is a parameter of the operator.                       *)
(***************************************************************************)

\* enum State, with the spelling of the source.
State == {"Uninitalized", "Listening", "Accepted", "Connnecting",
          "Connected", "Refused", "Closing", "Closed"}

TcpRecord == [state   : State,
              managed : BOOLEAN,    \* the engine owns the object
              ibuf    : BOOLEAN,    \* _ibuf.size() > 0
              obuf    : BOOLEAN,    \* _obuf.size() > 0
              evmask  : BOOLEAN]    \* _evmask & NetPoller::kWrite

\* Tcp::Tcp()
NewTcp == [state |-> "Uninitalized", managed |-> FALSE,
           ibuf |-> FALSE, obuf |-> FALSE, evmask |-> FALSE]

\* Tcp::listen() succeeding.
Listening(r) ==
    [r EXCEPT !.state = "Listening", !.ibuf = FALSE, !.obuf = FALSE]

\* Tcp::connect(nonblocking) succeeding: at once (the loopback case) or with
\* EINPROGRESS.
Connecting(r, immediate) ==
    [r EXCEPT !.state = IF immediate THEN "Connected" ELSE "Connnecting",
              !.ibuf  = FALSE,
              !.obuf  = FALSE]

\* Tcp::accept() followed by what the listen thread sets on the result.
Accepted(r) == [r EXCEPT !.state = "Connected", !.managed = TRUE]

\* Tcp::close().  On a managed socket it only leaves a mark for the worker.
Close(r) ==
    IF ~r.managed                     THEN [r EXCEPT !.state = "Closed"]
    ELSE IF r.state = "Connnecting"   THEN [r EXCEPT !.state = "Refused"]
    ELSE IF r.state # "Closed"        THEN [r EXCEPT !.state = "Closing"]
    ELSE r

\* Tcp::send() of at least one byte.
Send(r) == [r EXCEPT !.obuf = TRUE]

\* Tcp::recv() whose callback consumes the whole input buffer.
Recv(r) == [r EXCEPT !.ibuf = FALSE]

\* "Update state if connecting", common to io_read and io_write.
Opened(r) == IF r.state = "Connnecting" THEN [r EXCEPT !.state = "Connected"] ELSE r

\* Tcp::io_write(): one ::send(), which takes everything (drained) or less.
IoWrite(r, drained) == [Opened(r) EXCEPT !.obuf = @ /\ ~drained]

\* Tcp::io_read(): ::recv() until it is short; got: some byte arrived,
\* disconnected: end of stream or a socket error.
IoRead(r, got, disconnected) ==
    LET read == [Opened(r) EXCEPT !.ibuf = @ \/ got]
    IN  IF disconnected THEN Close(read) ELSE read
==============================================================================
