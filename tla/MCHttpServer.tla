----------------------------- MODULE MCHttpServer -----------------------------
(* Small instances of HttpServer for TLC. *)
EXTENDS HttpServer

Get(uri)  == [uri |-> uri, head |-> 1, content |-> 0, body |-> 0, ok |-> TRUE]
Post(n)   == [uri |-> "/foo", head |-> 2, content |-> n, body |-> n, ok |-> TRUE]
Garbage   == [uri |-> "", head |-> 2, content |-> 0, body |-> 1, ok |-> FALSE]
Negative  == [Post(1) EXCEPT !.content = -1]
Short     == [Post(0) EXCEPT !.content = 1]      \* declares a byte it does not send

\* Benign and broken first requests, with the same or another request behind.
SomeScripts ==
    {<<Get("/foo"), Get("/foo"), Get("/foo")>>, <<Post(1), Post(1), Post(1)>>,
     <<Get("/foo"), Post(1)>>, <<Post(2), Post(1), Get("/bar")>>,
     <<Garbage, Get("/foo")>>, <<Negative, Get("/foo")>>, <<Short, Post(1)>>}

\* Two well-formed requests, the second with a longer body.
GoodScripts == {<<Post(0), Post(1)>>}

EitherWay == {TRUE, FALSE}
Lockstep  == {FALSE}
NoKqueue  == {FALSE}
==============================================================================
