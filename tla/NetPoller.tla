------------------------------- MODULE NetPoller -------------------------------
(***************************************************************************)
(* NetPoller of netpoller.cpp with its three implementations: the list that *)
(* select() walks, the kernel's table behind epoll, and the table behind    *)
(* kqueue with the changes that are handed over at the next poll().         *)
(*                                                                          *)
(* An operator takes a poller and returns what it is afterwards; a call     *)
(* that fails returns it unchanged.  Descriptors are below FD_SETSIZE and   *)
(* memory suffices.                                                         *)
(***************************************************************************)
EXTENDS Sequences, SequencesExt

CONSTANT NullUd     \* the user data nullptr

Kinds     == {"select", "epoll", "kqueue"}
ReadOnly  == {"R"}
ReadWrite == {"R", "W"}

\* list: _list of the select variant.
\* table: the kernel's, for epoll and (one item per filter) for kqueue.
\* changes: _changes, as the item to set or, with add = FALSE, to delete.
NewPoller(kind) == [kind |-> kind, list |-> <<>>, table |-> {}, changes |-> <<>>]

Item(fd, event, ud) == [fd |-> fd, event |-> event, ud |-> ud]
Change(fd, filter, add, ud) == [item |-> Item(fd, {filter}, ud), add |-> add]

\* The loops over _list stop at the first item of fd.
Listed(list, fd) == \E i \in DOMAIN list : list[i].fd = fd
FirstOf(list, fd) == CHOOSE i \in DOMAIN list :
                       list[i].fd = fd /\ \A j \in 1 .. i - 1 : list[j].fd # fd

Others(table, fd) == {x \in table : x.fd # fd}

\* NetPoller::add(); a descriptor that epoll knows is turned down.
PollerAdd(p, fd, event, ud) ==
    CASE p.kind = "select" -> [p EXCEPT !.list = Append(@, Item(fd, event, ud))]
      [] p.kind = "epoll"  -> IF Others(p.table, fd) # p.table THEN p
                              ELSE [p EXCEPT !.table = @ \cup {Item(fd, event, ud)}]
      [] p.kind = "kqueue" ->
            [p EXCEPT !.changes = @ \o
                (IF "R" \in event THEN <<Change(fd, "R", TRUE, ud)>> ELSE <<>>) \o
                (IF "W" \in event THEN <<Change(fd, "W", TRUE, ud)>> ELSE <<>>)]

\* NetPoller::remove()
PollerRemove(p, fd) ==
    CASE p.kind = "select" -> IF Listed(p.list, fd)
                              THEN [p EXCEPT !.list = RemoveAt(@, FirstOf(@, fd))] ELSE p
      [] p.kind = "epoll"  -> [p EXCEPT !.table = Others(@, fd)]
      [] p.kind = "kqueue" -> [p EXCEPT !.changes = @ \o <<Change(fd, "R", FALSE, NullUd),
                                                           Change(fd, "W", FALSE, NullUd)>>]

\* Mutant of PollerModify: with the operation of add().
PollerModify_Adds(p, fd, event, ud) == PollerAdd(p, fd, event, ud)

\* NetPoller::modify(); select keeps the user data it has.
PollerModify(p, fd, event, ud) ==
    CASE p.kind = "select" -> IF Listed(p.list, fd)
                              THEN [p EXCEPT !.list[FirstOf(p.list, fd)].event = event] ELSE p
      [] p.kind = "epoll"  -> IF Others(p.table, fd) = p.table THEN p
                              ELSE [p EXCEPT !.table = Others(@, fd) \cup {Item(fd, event, ud)}]
      [] p.kind = "kqueue" -> [p EXCEPT !.changes = @ \o <<Change(fd, "R", "R" \in event, ud),
                                                           Change(fd, "W", "W" \in event, ud)>>]

\* The kernel drops what epoll and kqueue know of a descriptor that is closed.
Forget(p, fd) == [p EXCEPT !.table = Others(@, fd)]

------------------------------------------------------------------------------
(* poll() *)

\* kevent() takes the changes in their order, and to add a filter anew replaces its
\* user data: the last change of a filter decides.
SameFilter(x, y) == x.fd = y.fd /\ x.event = y.event
Untouched(p) == {x \in p.table : \A i \in DOMAIN p.changes : ~SameFilter(p.changes[i].item, x)}
Latest(p, i) == \A j \in i + 1 .. Len(p.changes) :
                 ~SameFilter(p.changes[j].item, p.changes[i].item)
Added(p) == {p.changes[i].item : i \in {i \in DOMAIN p.changes : p.changes[i].add /\ Latest(p, i)}}

\* What is watched once the changes are handed over.
Effective(p) == IF p.kind = "select" THEN ToSet(p.list) ELSE Untouched(p) \cup Added(p)

\* To delete a filter that is not there is an error, reported as an event with the
\* user data of the change.
Before(p, i) == Effective([p EXCEPT !.changes = SubSeq(@, 1, i - 1)])
Fails(p, i)  == ~p.changes[i].add /\ \A x \in Before(p, i) : ~SameFilter(x, p.changes[i].item)
Errors(p)    == {p.changes[i].item : i \in {i \in DOMAIN p.changes : Fails(p, i)}}

\* After the wait.
Waited(p) == IF p.kind = "kqueue" THEN [p EXCEPT !.table = Effective(p), !.changes = <<>>] ELSE p

\* The calls of cb a poll() makes when the descriptors are ready as in ready[fd].
\* With select every item of the list gets one, with or without an event.  With
\* kqueue the filters -1 and -2 are tested as if they were bits: every event is
\* taken for both; and an error comes instead of the events.
Calls(p, ready) ==
    LET hit == {x \in Effective(p) : x.event \cap ready[x.fd] # {}}
    IN  CASE p.kind = "select" ->
               {[x EXCEPT !.event = @ \cap ready[x.fd]] : x \in IF hit = {} THEN {} ELSE Effective(p)}
          [] p.kind = "epoll"  -> {[x EXCEPT !.event = @ \cap ready[x.fd]] : x \in hit}
          [] p.kind = "kqueue" ->
               {[of |-> x.event, fd |-> x.fd, event |-> ReadWrite, ud |-> x.ud] :
                   x \in {y \in IF Errors(p) # {} THEN Errors(p) ELSE hit : y.ud # NullUd}}
==============================================================================
