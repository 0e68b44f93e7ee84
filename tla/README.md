# Verification of lightcone

lightcone is a small C++ network library: an engine that serves many TCP
connections from a few threads, non-blocking sockets with elastic buffers, a load
balancer, a poller with three back ends, an HTTP request state machine and a
multicast beacon. These modules model it in TLA+, check it with TLC on small
instances and prove, with TLAPS, facts about it for instances of any size.
Source paths below are relative to `src/lightcone/`.

## 1. Inventory

### Components

| Part | State it keeps | Operations | Used by |
|---|---|---|---|
| `NetEngine` (netengine.h/cpp) | per thread: an inbox, a local list of `Tcp*`, a poller; shared: `_lb`, `_timeout` | `start`, `stop`, `listen`, `connect`, `set_timeout`; `worker_listen`, `worker_socket`; delegates `cb_net_*` | the application |
| `Threads` (threads.h/cpp) | `runflag` and `std::thread` per slot, `_threads_count` | `start`, `stop`, `usleep` | NetEngine |
| `Tcp` (tcp.h/cpp) | state, managed flag, event mask, input and output `Buffer`, idle clock | `listen`, `accept`, `connect`, `poll`, `close`, `send`, `recv`, `io_read`, `io_write` | NetEngine, applications |
| `MessageQueue` (msgqueue.h) | a deque, a mutex, a condition variable | `post`, `get(timeout)` | NetEngine (the inboxes) |
| `LoadBalancerRR` (loadbalancer.h) | `_min`, `_mod`, atomic `_next` | `setup`, `retain`, `release` | NetEngine |
| `NetPoller` (netpoller.h/cpp) | the registered sockets and their event masks (epoll, kqueue or select) | `init`, `add`, `modify`, `remove`, `poll` | NetEngine |
| `Buffer` (buffer.h/cpp) | `_buf`, `_head`, `_size`, `_allocated` | `reserve_begin`, `reserve_end`, `trim_head`, `trim_tail`, `free`, copies and moves | Tcp |
| `HttpServer` (httpserver.h/cpp) | per connection: the header, whether it is complete, the content length | `http_recv` and its callbacks | applications on NetEngine |
| `HttpRequestHeader`, `HttpResponseHeader` | the parsed fields | text to fields and back | HttpServer |
| `Beacon` (beacon.h/cpp) | own id, the id being reserved, whether it collided, peer table with ages | `start`, `stop`, `remove_peer`; `worker`, `cb_recv`, `service_update`, `service_remove`, `service_healthcheck` | applications |
| `Udp`, `Socket`, `SockAddr`, `Network` | a descriptor, an address | system-call wrappers | all of the above |
| `ByteOrder`, `StringUtil`, `Calendar`, `SysInfo`, `CmdArg` | none that matters | conversions, host information | all of the above |

### How they interact

* An application thread calls `connect()` or `listen()`. The engine allocates a
  `Tcp`, asks the balancer for a worker (`retain`) and **posts the bare pointer** to
  that worker's inbox; `listen()` posts to inbox 0.
* Thread 0 polls the listening sockets, accepts, calls `cb_net_accepted` and posts
  the new connection to a worker's inbox - even when the callback turned it down:
  the connection is then `Closing`, and its worker will reap it.
* A worker's loop is: test the run flag; empty the inbox into the list, registering
  each socket with the poller; walk the list (report and delete what is closed or
  refused, update write interest, report timeouts); poll, and handle each event
  with `io_write`/`io_read` and the callbacks.
* `Tcp::close()` on a managed socket only leaves a mark (`Closing` or `Refused`);
  the walk of the owning worker does the rest.
* `stop()` clears every run flag and then joins every thread; a thread that leaves
  its loop deletes what is in its inbox and in its list.

No `Tcp` has a lock. Everything rests on a pointer being in one place at a time,
and on callbacks touching only sockets of the thread they run on.

### What is hard to test, and what makes each part correct

| Part | Hard behaviour | Correct means |
|---|---|---|
| NetEngine | a pointer travels through two threads without a lock; callbacks close sockets the walk or the event batch has yet to visit; `stop()` in the middle of anything; `start()` again with another number of threads | one owner at any time; no use after delete; event order; every closed socket is reaped; `stop()` returns |
| Tcp in the engine | the event mask is kept in step with the poller by hand in four places; output queued by another socket's callback | write interest follows the output |
| Tcp and Socket | the pending error of a socket is reported once, by whichever call comes first; callbacks inside `connect`, `io_read`, `io_write` and `close`; descriptors that are used again at once | a connect is answered once; a dead connection is noticed; no event reaches a successor |
| LoadBalancerRR | an `int` incremented for ever, by several threads | values in range, evenly spread |
| MessageQueue | a waiting `get()` racing `post()` and spurious wakeups | no message lost or delivered twice; the wait ends |
| NetPoller | sockets removed during dispatch, a full event array, three back ends with different rules | no event of a removed socket; the back ends agree |
| Buffer | the arithmetic of head, size and allocation over reserves and trims | a byte queue |
| HttpServer | a request in any number of pieces, several requests in one piece, keep-alive | each request is served once, with its own header |
| Beacon | lost, reordered, repeated datagrams; two peers that choose the same id; ages | ids become distinct, dead peers leave the table |

The list of hazards with their lines, and the property that covers each, is in
`PROJECT.json`.

## 2. Modules

### Dependencies

```
Tcp  <-  NetEngine  <-  MCNetEngine           (restart, live, stop_leak, start_too_many)
                    <-  NetEngineEvents  <-  MCEvents      (safety)
                    |         | INSTANCE
                    |    SocketEvents         (abstract specification)
                    <-  NetEngineProofs  <-  NetEngineWorkerProofs  (theorems)
                        NetEngineEventsProofs: both of the above    (theorem)
Tcp, NetPoller  <-  Connection  <-  MCConnection           (conn)
                                <-  ConnectionProofs       (theorems)
HttpServer  <-  MCHttpServer                  (http, keepalive)
            <-  HttpServerProofs              (theorems)
Beacon  <-  MCBeacon                          (beacon)
        <-  BeaconProofs                      (theorems)
LoadBalancerRR  <-  MCLoadBalancerRR          (balancer, balancer_wrap)
                <-  LoadBalancerProofs        (theorems)
Buffer  <-  MCBuffer                          (buffer)
        <-  BufferProofs                      (theorems)
   | INSTANCE
ByteQueues                                    (abstract specification)
```

### Tcp

The part of a `Tcp` that steers the engine, as a record, and one operator per
method. A buffer is reduced to "holds a byte", the event mask to its write bit (no
other bit is ever set). What the kernel does to a system call is a parameter, so
that the module that uses it quantifies over it.

### NetEngine

All of `netengine.cpp` between two points where somebody else can act is one action:
an inbox access, a callback, a poller call. State and code:

| Variable | Code |
|---|---|
| `eng`, `at`, `nthreads` | where the control thread is in `Threads::start`/`stop`, and its loop variable; `_threads_count` |
| `runflag[t]` | `_threads[t].runflag` |
| `pc[t]` | the statement thread `t` is at: `init`, `loop` (testing the flag), `inbox`, `walk`, `poll`, `accept`, `write`/`read` (the halves of the event handler), `call` (in a callback), `drain` |
| `mem[s]`, `tcp[s]` | whether the object is allocated, and its contents |
| `inbox[i]` | `_inbox[i]` |
| `sockets[t]` | the local list of thread `t` |
| `interest[s]` | what the poller was last told about `s` |
| `todo[t]` | the rest of the walk, or the sockets the current event batch may still name |
| `cur[t]`, `ev[t]`, `cb[t]` | the socket being handled, its events not handled yet, the callback running |
| `hand[p]`, `dest[p]` | a pointer between `retain()` and `post()`, and its inbox |
| `lb`, `load[c]` | the range the balancer was told; `retain()` minus `release()` for `c` |

`Start`, `StartFails`, `StartThread`, `Stop`, `ClearFlag` and `Join` are the control
thread, one thread slot per step. `Connect`, `AppListen` and `Post` hand pointers over.
`AdoptSocket`, `WalkClosing`, `WalkRefused`, `WalkConnecting`, `WalkConnected` and
`WalkTimeout` are the worker before its poll, `Event`, `WriteEvent` and `ReadEvent`
the event handler, `ListenEvent`, `Accept` and `AcceptNone` the listen thread.
`CbSend`, `CbRecv`, `CbClose` and `CbConnect` are what the application does inside a
callback; one `Return...` action per callback is the code that follows it.
`DrainInbox` and `KillSockets` are what follows the loop.

The kernel is nondeterministic: any registered socket may be ready with any of the
events it is registered for, in any order and once per poll, as with epoll and select
(kqueue, which reports every event as both and may report a socket twice in one batch, is
in Connection and HttpServer); a send or recv succeeds, is short, or fails; an accept
finds a connection or none. A callback may return true or false. Sockets are walked in any
order, which includes the order of the list.

### SocketEvents and NetEngineEvents

`SocketEvents` is the promise to an application (doc/engine.md, "Events"), without
queues, lists, pollers or buffers: the callbacks of a connection come one by one,
first those of the listen thread and then those of one worker; `opened` once and only
of a connection that was being opened, `timeout` only while it is open, `closed` or
`refused` once and last; the object dies after that callback, or at the hands of a
thread that was told to stop. `NetEngineEvents` maps the engine's state to it and
states that the engine implements it (`KeepsEvents`).

### LoadBalancerRR

`setup()` and `retain()` with an `int` of `Width` bits that wraps, and C's `%`, which
truncates towards zero. `retain()` is one atomic fetch-and-add, so threads
interleave as whole steps. NetEngine uses only the interface: any value of the range.

### Buffer and ByteQueues

`Buffer` is `buffer.cpp` byte by byte: `buf[b]` holds the four members of an object, with
`_buffer` as the array `mem` of `allocated` cells, and `room[b]` is what the caller has
reserved and not committed yet. The steps of a method are operators on one object
(`Grown` is `realloc`, `Slid` the `memmove` of `reserve_begin`, `Trimmed` both trims,
`Copied` the copy), the calls are actions. `ReserveBegin` includes the caller's write to
the address it was given, as `Tcp::send` and `Tcp::io_read` do before anything else
happens to the buffer; `ReserveFails` and `CopyFails` are a refused allocation. Fresh
memory holds `Junk`, which no caller writes, so a byte that comes from nowhere shows.

`ByteQueues` is what the user sees: per buffer a sequence of bytes and the bytes offered
behind it. `Buffer` maps to it by reading `size` cells from `head`, and `room` cells after
them; `KeepsBytes` states that it implements it.

### NetPoller

The operations of `netpoller.cpp` as operators on a poller record, for the three
implementations the source chooses between at compile time. `list` is `_list` of the
select variant, `table` the kernel's table behind the others; `changes` is the `_changes`
array that the kqueue variant hands to `kevent()` at the next poll. `Effective` is what is
watched once that is done: `kevent()` takes the changes in order and a filter that is added
anew is replaced, so the last change of a filter decides, and what no change names stays. `Calls` is what `poll()`
passes to its callback: with select every item of the list, also one without an event;
with epoll the ready ones; with kqueue every event as both read and write, because
the negative filter numbers are tested as bits, and errors of the change list in
place of events.

### Connection

One program with outgoing connections, from the system calls up. `driver` says how it
polls: `Tcp::poll()` on unmanaged sockets with a connect callback, or one worker of the
engine over one of the three pollers. The kernel is not arbitrary here, as it is in
NetEngine: a socket (`kern[f]`) is pending, open, refused or reset, has data, the end of
the stream, or a pending error which the next call reports and clears; readiness is
level triggered; `socket()` returns the lowest free descriptor, so that descriptors
are used again.

A call of the handler, and a call of `Tcp::poll()`, is one step: nobody else touches the
connection meanwhile. `CloseTcp`, `Update`, `DoRead`, `DoWrite`, `WriteHalf`, `ReadHalf`
translate the methods as functions from a connection to the set of what may become of
it; the callbacks they make (`Reactions`, `Decline`) do nothing, send, close or return
false. `Adopt`, `BeginWalk`, `WalkEnd`, `WalkLive`, `Poll` and `Handle` are the worker.
`told[c]` is what the owner was told of the attempt.

The threads and the hand-over between them are in NetEngine; NetEngine allows every
answer of the kernel, and Connection restricts them to what kernels do. They share `Tcp`.

### HttpServer

`httpserver.cpp` on one connection of the engine. The stream the client sends is a
sequence of requests, each the length of its header, the length it declares, the
length of its body, and whether `read_from()` accepts it; `sent` bytes have left the client,
`arrived` have been read and `off` consumed, so `arrived - off` is what `_ibuf` holds.
`data` is `ConnectionData`. The client (`ClientSends`, `ClientLeaves`) sends any number of
bytes at any time, in lockstep with the answers or not, and ends or resets the connection.

The worker goes round as in `worker_socket()`. What lies between two batches of events is
one step: the walk, the system's wait, and what the wait brings. `Walk` sets the write
interest of a connection in use by its `_obuf`, `Timeout` is the walk over one that was
idle too long, `Reap` over a closed one, which is the end of it; `EngineStops` is the drain.
`PollFor` chooses what is ready, and `Halves` turns it into the halves of the event handler
still to be run in this batch (`due`): writing, then reading, twice with kqueue. `Writable`
and `Readable` each consume one. So a connection that was closed, in the walk or by an
earlier half, gets the rest of its batch and no more: an answer queued after that is
sent in the same batch or never, and no later read follows. In `Readable`, `io_read()` gets what the client has
sent, with the end of the stream or not, then `http_recv()` runs: `Parsed` is its
first half, `Refused` and `Complete` its conditions, `TrimHead` what `Tcp::recv()` makes of its
result, `Served` the handler with its answer or the 404.

### Beacon

`beacon.cpp`: each node is a service with its worker thread, an application thread that
may call `remove_peer()`, and the callbacks, which are steps of their own because the
table is unlocked before they are made (`telling` and `removing` hold the call about to be
made). `Reserve`, `Take`, `Announce` and `NotYet` are the four ways through a round of
`worker()` up to the health check, `Expire` the health check one record at a time, `Recv`
the receive loop, `RemovePeer` and `Removed` the two halves of `service_remove()`. `net` is
the set of datagrams under way: any of them may be next, or be lost. A node may die and
start again.

Timers are left out: a timer that is 0 has run out, any other may or may not have, and
a record may time out at any health check. `alike` chooses, once per behaviour, whether
the comparison of addresses can tell nodes apart (sockaddr.cpp:74 compares the port and
half of the address, and none of it where `_family` was never set).

## 3. What is checked

| Run | Question | Result |
|---|---|---|
| `safety` | Does each `Tcp` have one owner, is none used after its deletion, does the mask agree with the poller, does a connection stay with its worker and is it released at its end? Does NetEngine implement SocketEvents? | holds |
| `restart` | Do ownership and the pairing of `retain`/`release` survive failed starts, failing pollers, a stop and a restart with more or fewer threads? | holds |
| `live` | Are closed connections reaped, also those a poller refused, posted sockets adopted, output flushed, and does `stop()` return? | holds under the fairness below |
| `conn` | Do the three pollers and `Tcp::poll()` deliver events to the right object, watch what the mask says, answer each connect once and notice each end? | holds under the fairness below |
| `http` | Are requests framed, served, answered and given up as intended, however they arrive? | holds, for the cases the properties name |
| `keepalive` | Is each request of a keep-alive connection served when it is whole? | **violated** |
| `beacon` | Are ids unique, is the application told what the table holds, do dead peers leave it? | holds, unless a negotiation loses a datagram |
| `buffer` | Does a buffer stay in its allocation, and is it a queue of bytes? | holds |
| `balancer` | Is round robin in range and even, as long as the counter is positive? | holds |
| `stop_leak` | Are all connections deleted when `stop()` has returned? | **violated** |
| `start_too_many` | Is a connection always placed on a thread that exists? | **violated** |
| `balancer_wrap` | Is the value in range for every value of the counter? | **violated** |

Every property of the passing runs has a mutant in `PROJECT.json`: an operator
`X_...` written beside the action `X` it corrupts, which makes that property fail.

### The properties

* `SingleOwner` - a `Tcp` is in exactly one inbox, list, hand or accepting callback
  while it is allocated, once, and in none before and after. This is what stands in
  for the lock the engine does not have.
* `NoDanglingUse` - what a thread is about to dereference is in its own list: the
  rest of the walk, the rest of the event batch and the socket of the callback.
* `MaskMirrorsPoller` - `_evmask` says what the poller was last told, on every path.
* `StaysHome` - a socket leaves a thread's list only by being deleted.
* `ReleasedAtEnd`, `LoadBalanced` - a connection counts once in the balancer from its
  `retain()` until the worker releases it; only the thread that
  has a connection, and only once it was told to stop, deletes it while it still counts.
* `ClosedIsReaped`, `PostedIsAdopted`, `InterestFollowsOutput`, `StopReturns` - the
  liveness properties.
* `KeepsEvents` - the refinement.
* `InRange`, `Balanced` - the balancer.
* `InBounds` - the bytes of a buffer and the room given to its caller lie inside the
  allocation. The code decides on growth by `_size` and on sliding by `_head`; only both
  together make the room.
* `KeepsBytes` - growing, sliding, trimming, copying, moving and failing lose, repeat and
  reorder no byte.
* `EventsReachTheirOwner` - what a poller watches and what it is about to call back belongs
  to an object that exists and owns that descriptor, though the kernel gives the number
  away at once: `remove()` comes before the close, and kqueue's deferred changes too.
* `PollerFollowsMask` - the real registrations of all three pollers say what `_evmask` says;
  `MaskMirrorsPoller` says it of NetEngine's abstract one.
* `ToldOnce`, `ConnectIsAnswered`, `EndIsNoticed` - a connect gets exactly one answer, a
  connection one end, and no refused, reset or ended connection stays unnoticed, though
  errors are reported once and to the wrong call.
* `FirstServedWhole`, `IdenticalServedInTurn` - the framing: exact for the first request of
  a connection, and for a sequence of identical ones (what the stress test sends); what
  holds beyond that is in the disagreements.
* `AtMostOneAnswer` - no call of the handler is answered twice, by its answer and the 404,
  whatever fails in `http_response()`: the handler is one that answers once and returns its
  result (as the example does), or returns without an answer.
* `RefusedIsInert`, `ConnectionEnds` - the -1 of `http_recv` consumes nothing, and a
  connection stuck behind it ends with the idle timeout, its `ConnectionData` with it.
* `UniqueIds` - two nodes share an id only if a datagram of the negotiation (`Matters`) was
  lost or still under way when one of them took it. `doubt` records exactly that.
* `ToldWhatTableHolds` - peerup minus peerdown, per id, is what the table holds but for the
  callbacks under way.
* `DeadPeersLeave` - late beacons of a dead peer may put it back, but not for good.

### The disagreements

* **A connection outlives `stop()`** (`stop_leak`). `stop()` clears all flags, but the
  listen thread finishes the accept loop it is in. A worker may have emptied its inbox
  and gone before the listen thread posts to it: the comment "Kill unprocessed
  sockets" (netengine.cpp:116, 239) is not true of that connection. It stays open until
  a later start with as many workers. `connect()` after `stop()` has the same effect,
  but there the caller is to blame, so the run allows only the listen thread to create
  connections.
* **A failed `start()` has a side effect** (`start_too_many`). netengine.h:27 promises
  none. `start(128)` passes the test against `kMaxWorker`, sets the balancer up for 128
  workers and is then refused by `Threads::start(129)`. If the engine is running
  with fewer workers, later connections go to inboxes no thread reads.
* **The counter of the balancer wraps** (`balancer_wrap`). It is never reset but by
  `setup()`; after 2^31 connections `%` gives zero or a negative number, so `retain()`
  is below `min` and indexes in front of the inbox array.

* **The second request is measured with the first** (`keepalive`). `header_len`,
  `content_len` and `header` are never reset, so a longer second request reaches the
  handler before it is "fully received" (httpserver.cpp:53), with the headers of the
  first, and what follows is cut in the wrong place. In the run nothing else goes wrong: the
  connection stays open, the first answer is flushed by the write event of the next round,
  and only then does the client send its second request, whose header is read alone.

Two more are visible in the modules without a run of their own, and the properties are
stated so as not to hide them. `Connection`: `cb_net_opened` is told of a *refused* connect,
because a refused socket is writable (netengine.cpp:206-210); `cb_net_closed` follows, and
`cb_net_refused` is only told when the application closes a socket that is still
connecting. `ToldOnce` therefore allows both endings. `Beacon`: with addresses that
compare alike a peer may never be told (its record is taken for another one's), which is
why no property says that peers meet.

### Bounds, and why they are enough

* Two connections and one listening socket. Two are what it takes for a callback of
  one to act on the other (`"peer"`), for the walk or the batch to go on past a deleted
  element, and for an inbox to hold two. Connections have no other interaction.
  `Tcp` objects are not recycled: an object that is deleted stays `freed`, so that any
  later use of it is visible.
* One application thread that calls `connect` and `listen`. Callbacks on other threads
  connect as well (`restart`), so posting from two threads to one inbox happens.
* `MaxWorker = 1` in `safety` and `live` (a listen thread and a worker: every
  pair of threads that can share a socket), and thread slots for two workers in
  `restart`, where `Sizes` goes up to 3 so that a start is refused.
* `MaxStarts` bounds the calls of `start()`: 1, or 2 where restarts are the question.
* `AppOps`, `CbOps`, `Timeouts` and `PollerFaults` switch parts of the environment off
  per run to keep it small; between the runs each is on. `PollerFaults` has both faults in
  `restart` and that of `poller.add()` in `live`: a socket that is in no poller must still
  be reaped once it is closed. A thread whose `poller.init()` fails ends at once and adopts
  nothing, so `PostedIsAdopted` is not what the code does then.
* Buffers are "empty or not", enough for the decisions the engine takes on them.
* The balancer's `int` has 6 bits instead of 32: nothing in the code depends on the
  width but where it wraps. `MaxRetains` is 30 where the counter must stay positive
  (with `min` 1 it starts at 1) and 40 where it must not.

* Two buffers (copies and moves need a second), two byte values (a swap shows), blocks of
  2 bytes instead of 16, `MaxRequest` 2 and `SizeLimit` 6: buffers of up to four bytes with
  a head anywhere, so that a reserve may fit, slide, grow, or grow and slide, and a trim
  may leave some, one or no byte. The code does not depend on the size of a block. Buffers
  and byte values are interchangeable, hence the symmetry; the run checks safety only.

* `conn`: two connections and two descriptors, so that the second connection gets the
  descriptor of the first or not. `Busy` restricts what the peer and the callbacks do to the
  first connection; on the other only the connect is decided. `MaxOpen = 2`: an unmanaged
  object connects again after it was closed. Every driver is an initial state. A
  program may stop when all its attempts are over, so deadlock is not checked.
* `http`: seven scripts of two or three requests with headers and bodies of one or two
  bytes, well-formed, malformed, with a negative or an unsent length; every cut of the
  stream is an execution, as the client sends any number of bytes between two reads, and
  `Kqueue` chooses the form of the batches. Lengths only matter by the sums `http_recv`
  compares. The behaviour ends with the connection. `keepalive` has one script and epoll's
  batches, as one execution is enough.
* `beacon`: two nodes and two ids, so that negotiations meet on one id and on different
  ones; `MaxDraws = 2` negotiations each, one death, one `remove_peer()`. `MaxFlight = 3`
  datagrams are under way at a time; sending to the group is two of them. Receivers act
  on datagrams one by one, so a third node would repeat what the second does. Deadlock is
  checked.

`Rest` lets the model stutter when the engine is stopped and may not be started again,
so deadlock is checked in all runs of NetEngine: nothing else may stop the system.
The balancer's `setup()` and a buffer's `free()` are always possible.

### Fairness

Weak fairness of `ControlStep` (a `start()` or `stop()` under way), of every
`ThreadStep(t)`, every `Return(t)` and every `Post(p)`. The operating system schedules
every thread, a mutex held for a few instructions is granted in the end (an inbox
`get` does not wait: its timeout is 0; a poll has a finite timeout), and an
application that blocks for ever in a callback stops its thread by its own doing.
Nothing is assumed of peers, the network, or anybody calling `start`, `stop`,
`listen` or `connect`. Weak fairness on all of a thread's steps together, rather
than on each action, leaves the kernel free never to report an event.

* Connection: the worker runs, or the application keeps calling `Tcp::poll()`, and the
  network decides every pending connect (a kernel gives up after some minutes).
* HttpServer: weak fairness of the worker, which comes round, and strong fairness of
  `Timeout`: it is possible only in a walk, between two batches, and a connection that is
  walked over again and again is at last idle too long, as what the client sends comes to
  an end. This needs `set_timeout()` with a value other than 0 (the httpd example sets one)
  and a client that does not send for ever.
* Beacon: the callbacks return and the worker comes round again, which needs 500 ms without
  a datagram now and then (beacon.cpp:167). The record of a node that is down times out:
  strong fairness, since late datagrams refresh it, as often as there are any.

## 4. What is proved

`NetEngineProofs` proves, for any sets of connections and listeners, any number of
workers, thread slots, application threads and starts, with every switch of the
environment free:

* `TypeCorrect`: `Spec => []TypeOK`
* `SingleOwnerAlways`: `Spec => []SingleOwner`
* `NoDanglingUseAlways`: `Spec => []NoDanglingUse`

The only assumption is `EngineAssumption` (NetEngine): constants are of their kinds,
connections and listeners are disjoint, there are at most as many thread slots as
inboxes, as with `kMaxThreads = kMaxWorker = 128`.

Neither property is inductive alone. The invariant is

    IInv == TypeOK /\ ControlOK /\ ThreadOK /\ SingleOwner /\ NoDanglingUse

* `ControlOK` keeps the loops of `start()` and `stop()` inside the threads of this start
  and says which threads cannot exist, so that a started thread begins `idle`.
* `ThreadOK` ties `pc` to the thread's other variables: a callback runs exactly at
  `call`, only thread 0 accepts, only workers walk, and a list is empty when its thread
  is not running.
* `SingleOwner` needs `NoDanglingUse`: the callback that ends with a delete must be of a
  socket in this thread's list, or another owner would keep a dangling pointer.
* `NoDanglingUse` needs `SingleOwner`: a freshly accepted or adopted socket must be
  in nobody's `todo`, and deleting the current socket must leave no second copy in the
  list to come back to.

The proof has one lemma per property and group of actions. The lemmas `Owned...` say
how ownership of one object survives a step that does not touch it, and what to show
when a step moves it; `QueueAppend` and `QueueTail` are the facts on inboxes.

`BufferProofs` proves, for any set of buffers and bytes, any block size and any bounds,

* `TypeCorrect`: `Spec => []TypeOK`
* `InBoundsAlways`: `Spec => []InBounds`
* `BytesKept`: `Spec => KeepsBytes`, the refinement of ByteQueues

from `BufferAssumption` (the block size is positive, `Junk` is no byte). `IInv` is
`TypeOK /\ InBounds`, which is inductive. `Sound(r)` says it of one object, and one lemma
per method (`GrownSound`, `SlidSound`, ...) says that the method keeps it and which cells
it moves where. The refinement then has a lemma per method on `Content`
(`SameContent`, `CommitContent`, `TrimContent`), a lemma that a step on one buffer is a
step on one queue (`OneQueue`, `OnlyQueue`), and `StepRefines`, one step per call.

`NetEngineWorkerProofs` builds on `IInv` of NetEngineProofs, from the same assumption:

* `StaysHomeAlways`: `Spec => StaysHome`
* `LoadBalancedAlways`: `Spec => []LoadBalanced`
* `ReleasedAtEndAlways`: `Spec => ReleasedAtEnd`
* `MaskMirrorsPollerAlways`: `Spec => []MaskMirrorsPoller`

Only three actions free an object or take one out of a list (`Deletes`): the callback that
reports the end, and the two halves of the drain. `OnlyDeletes` shows it of every other
step at once, and `StaysHome` is what remains for those three. `LoadBalanced` is inductive
given `IInv`: a connection is released in the step that deletes it. `ReleasedAtEnd`
needs `DrainsStopped`: a thread drains only after it saw its flag cleared, and the flag is not
set again while the thread exists. `MaskMirrorsPoller` speaks of listed sockets and is not
inductive, because `AdoptSocket` relies on the mask of a socket in an inbox being clear;
`MaskOK` adds that what is in no list is in no poller and has a clear mask. `MaskKept` says
that no method of `Tcp` touches the mask.

`NetEngineEventsProofs` proves that the engine implements SocketEvents:

* `EngineKeepsEvents`: `Spec => KeepsEvents`

from `EngineAssumption` and `NowhereAssumption` (the value for "in no list" is no thread).
The mapping finds the thread that has a connection with a `CHOOSE`; `PlacedNow` shows from
`IInv` that it has one candidate. Besides `IInv` and `DrainsStopped` the steps need `ConnsOK`: which
Tcp states a connection may have where it is, and which callback may be running on it in
which state - `opened` only of one that was being opened, the last callback only of one
that is closed. There is one lemma per kind of abstract step (a callback begins, a
callback ends, an object dies, the application closes or connects), one for steps the application cannot
see (`Unseen`), and one lemma per action that says which of them it is.

`LoadBalancerProofs` proves, for any width of the int and any ranges,

* `TypeOKAlways`: `Spec => []TypeOK`
* `InRangeAlways`: `NoWrap` implies `Spec => []InRange`
* `BalancedAlways`: `NoWrap` implies `Spec => []Balanced`

`NoWrap` says that the calls after a `setup()` do not take the counter beyond the largest
int, i.e. fewer than 2^31 connections in the life of a started engine. The `balancer` run
satisfies it; `balancer_wrap` does not, and shows that the code then fails, so the hypothesis
cannot be dropped. `IInv` is `TypeOK /\ InStep /\ EqualRounds`: the counter is `min` plus the
calls so far, and the values from the first one given up to the next one have been given
once more than the others, which are all equal (`Ahead`). `Balanced` alone says too little
to survive a step: it does not know whose turn it is. `RemSucc` is the arithmetic.

`HttpServerProofs` proves, for any scripts and clients and every cut of the stream,

* `AnswersPaired`: `Spec => []AtMostOneAnswer`
* `TypeOKAlways`: `Spec => []TypeOK`
* `FirstServedWholeAlways`: `Spec => []FirstServedWhole`
* `IdenticalServedInTurnAlways`: `Spec => []IdenticalServedInTurn`
* `RefusedIsInertAlways`: `Spec => RefusedIsInert`

from `HttpAssumption` (a script is a nonempty sequence of requests; `NoData` is no
`ConnectionData`). `OneAnswer` says that the handler with its 404 queues at most one answer,
whatever fails on the way. The other properties rest on

    IInv == Script /\ TypeOK /\ AtMostOneAnswer /\ DataOK /\ FirstCall /\ Waits
            /\ (Identical => InTurn)

* `DataOK`: the `ConnectionData` is fresh, or holds what the *first* header gave, refused
  or not. No second header is ever parsed: the code never resets it, which is the
  disagreement `keepalive` shows, and here what the proof stands on.
  It also says that only a connection in use, or closed and not reaped yet, has events left
  in a batch, so that a half of the handler always finds its `ConnectionData`.
* `Waits`: a client has sent no more than it may. A flush only raises the limit, and a read
  takes no more than was sent (`SendableGrows`), so a client in lockstep has nothing of the
  next request under way while the present one is served.
* `FirstCall`: until the first call nothing is consumed, and a well-formed first request
  has not come whole.
* `InTurn`: for identical requests, the calls so far are those up to `Len(calls)`, and `off`
  is the end of the last of them. Bytes that came with an earlier request are why
  `calls[k].upto` may be beyond its end only for a client that pipelines.

`End(k)`, the end of the k-th request in the stream, is a recursive function; that it grows,
and that positions in between belong to one request, is shown with a least
counterexample instead of the induction theorems (`EndIs`, `EndGrows`).

`BeaconProofs` proves, for any number of services, ids, deaths, negotiations and datagrams,

* `TypeOKAlways`: `Spec => []TypeOK`
* `UniqueIdsAlways`: `Spec => []UniqueIds`
* `ToldWhatTableHoldsAlways`: `Spec => []ToldWhatTableHolds`

from `BeaconAssumption`. `UniqueIds` is about nodes that have an id; what has to be kept is
about those that still ask for one. `Contested`: when n asks for the id m has and has
heard no objection, then n's request is on its way to m, or an objection is on its way to n, or a datagram
of n's negotiation was lost or came too late (`doubt`). With it goes that a service that is down asks for
nothing. `ToldWhatTableHolds` counts: what an application was told of an id is the number of
its records, less the peerups and plus the peerdowns under way. The proof needs the table
to be injective (part of `TypeOK`) and that `remove_peer()` makes no peerup
(`RemovesOnly`); the lemmas on `CountOf` say what appending, erasing and refreshing a record do to
the count.

`ConnectionProofs` proves, for any connections and descriptors and every driver,

* `TypeOKAlways`: `Spec => []TypeOK`
* `EventsReachTheirOwnerAlways`: `Spec => []EventsReachTheirOwner`
* `PollerFollowsMaskAlways`: `Spec => []PollerFollowsMask`
* `ToldOnceAlways`: `Spec => []ToldOnce`

from `ConnectionAssumption`. The invariant is

    IInv == TypeOK /\ Owned /\ Listing /\ Telling /\ PollerOK(poller) /\ Exact /\ Deletions /\ Batched

* `Owned`: an open descriptor has one object, which is allocated, and a socket in the kernel.
* `Listing`: what is posted or listed is open and managed, so `close()` leaves it open; a
  posted socket has a clear mask.
* `Telling`: what may have been told, by where the object is and who polls it. Nothing is
  told of a connection that is being made or was refused.
* `Exact`: the poller watches exactly the items of the listed sockets with the interest of
  their masks. `PollerFollowsMask` alone does not exclude an item of a socket that is not
  listed, and `epoll`'s `add()` would turn down its successor.
* `Deletions`: a pending change of kqueue that deletes a filter and names an object is of a
  listed socket that the walk has passed. Such a change may fail and come back as
  an event with that pointer, within the same round.
* `Batched`: an event still to be handled is of a listed socket and its descriptor. Only the
  walk takes sockets off the list, and a walk begins when the batch is empty.

The handlers are functions from a connection to the set of what may become of it. `Good(o)`
is what they keep and `Leads(o, q)` what they leave alone; one lemma per method and callback
(`CloseTcpLeads`, `ReactionsLead`, `DoReadLeads`, ...) composes to `OutcomesLead`, one call of
the event handler. The pollers have one lemma per operation (`AddIs`, `RemoveIs`, `ModifyIs`,
`WaitedIs`, `CallsIs`) on what it does to `Effective`, for all three implementations;
for kqueue they rest on `OneChange`, the effect of one more entry in the array. Then there is
one lemma per action.

### What stays with TLC

Every invariant and action property that a passing run checks is proved. What is
model-checked only is liveness: `ClosedIsReaped`, `InterestFollowsOutput`, `PostedIsAdopted`,
`StopReturns`, `ConnectIsAnswered`, `EndIsNoticed`, `DeadPeersLeave` and `ConnectionEnds`
depend on fairness, and the prover reasons neither about `ENABLED` nor about fairness
built on it. The four disagreements are counterexamples, which a run shows and nothing proves.

## 5. Plan

Done, because everything else runs inside it: Tcp, NetEngine, its abstract specification and
their proofs; the balancer; Buffer with its refinement. Then the parts around it, with
their proofs: HttpServer, Beacon, and Connection with NetPoller. Left, in this order:

1. **Models.** The idle clock of NetEngine; the output of a connection as a queue, for what
   `close()` drops; the waiting `get()` of MessageQueue.
2. **Proofs about them**, and the step from Connection to NetEngine: that Tcp over the
   kernel's sockets does no more than NetEngine lets any kernel do.

## 6. Not modelled

* `ByteOrder`, `StringUtil`, `Calendar`, `SysInfo`, `CmdArg`, `Network`: pure conversions and
  host information.
* `Socket`, `Udp`, `SockAddr` beyond what Connection and Beacon use: binding, options,
  multicast membership, text.
* The text of HTTP headers; the client's halves (`HttpRequestHeader::write_to`,
  `HttpResponseHeader::read_from`), which nothing in the library calls.
* In Tcp: moves, `set_keepalive`, `connect` by name; what `close()` drops from the output
  (tcp.cpp:120), as buffers are only empty or not. In Connection, connect callbacks that
  call `close()` when told of a failure (it recurses without end, tcp.cpp:123-126) or
  that connect again from inside the callback (the new callback is cleared).
* In NetPoller: `fini()`, refused registrations (they are in NetEngine), more than 1024
  events at a time, and a callback that returns false, which the engine's never does.
* The waiting form of `MessageQueue::get()`, which only tests use.
* In Beacon: clocks, so also a step back of the wall clock, which expires every record;
  `stop()`; a receive loop that never sees a silence; equal random numbers; foreign
  application codes and service types, which are ignored or compared like ids; repeated
  datagrams, which UDP allows: a repeated beacon refreshes twice, a repeated objection sets
  a flag twice.
* In NetEngine: the initializer callbacks, `set_timeout` (the timeout is on or off for a
  behaviour), negative worker counts, and calling `start()` on a running engine with a
  size `Threads` accepts, which would assign to a joinable `std::thread`.
* In Buffer: requests so large that `_size + size` or the rounding wraps in `size_t`
  (`Addressable` keeps sizes below `SizeLimit`), assigning an object to itself (copying
  frees what it is about to copy), committing more than was reserved, and other calls
  between `reserve_begin` and the caller's write.
* Weak memory: the run flag is read once per iteration and every write is seen. A build
  that hoists the read of the plain flag out of the loop is not modelled.
* The examples (httpd, benchmark): users of the library.
