------------------------------ MODULE EventLoop ------------------------------
(***************************************************************************)
(* One reactor of MoonNet: moon::eventloop with the events that a          *)
(* moon::server without a loop pool puts on it.  The loop thread runs      *)
(* eventloop::loop: epoll_wait fills a batch, event::handle_cb runs the    *)
(* callbacks of each member, and the objects queued by add_pending_del     *)
(* are deleted only when the whole batch has been handled.  Other threads  *)
(* call loopbreak at any time.  After the loop has ended ~server and       *)
(* ~eventloop take everything down.                                        *)
(*                                                                         *)
(* Bevs are TCP connections (bfevent), Tevs timers (timerevent).  A        *)
(* base_event and the inner event it owns live and die together, so one    *)
(* name stands for both; the inner pointer is what evlist_, epoll and the  *)
(* batch hold, the outer one what events_ and delque_ hold.                *)
(*                                                                         *)
(* What user code may do inside a callback is a set of actions of its own  *)
(* (UserStep): the public operations of the library, in any number and     *)
(* order.  bfevent::del_listen calls readcb_ itself when inbuff_ is not    *)
(* empty, so callbacks nest: calls is the stack of the operations that     *)
(* wait for the readcb_ they have called.                                  *)
(***************************************************************************)
EXTENDS Integers, FiniteSets, Sequences

CONSTANTS
  Bevs,      \* bfevent objects, one per accepted connection
  Tevs,      \* timerevent objects
  Efd,       \* the loop's own event on eventfd_
  Accs,      \* the events acceptor::listen makes, one per call
  Acc,       \* the first of them, made by enable_tcp
  None,      \* no event is being handled
  Breakers,  \* threads other than the loop's that call loopbreak
  MaxIO,     \* bound: reads and writes that move data, over the whole run
  MaxNest,   \* bound: calls of readcb_ by del_listen inside one another
  Timed      \* TRUE iff timeout_ >= 0, so that epoll_wait may return 0

Objs == Bevs \cup Tevs
Born == Objs \cup Accs
Events == Born \cup {Efd}

ASSUME ObjectsAssumption ==
  /\ Bevs \cap Tevs = {}
  /\ Objs \cap Accs = {} /\ Efd \notin Born
  /\ Acc \in Accs
  /\ None \notin Events

ASSUME BoundsAssumption ==
  /\ MaxIO \in Nat /\ MaxNest \in Nat
  /\ Timed \in BOOLEAN

VARIABLES
  pc,          \* where the loop thread is
  batch,       \* events_[i..n): returned by epoll_wait, not yet handled
  cur,         \* the event whose handle_cb is running
  revents,     \* the parts of handle_cb that are still to run for cur
  registered,  \* epoll interest list of epfd_
  evlist,      \* evlist_
  delque,      \* delque_: how many times each object is queued
  life,        \* lifetime of each object and each event of the acceptor
  cbset,       \* objects whose callbacks are set
  owned,       \* server::events_
  closed,      \* bfevents with closed_ = true
  fdopen,      \* objects whose file descriptor is open
  shutdown,    \* shutdown_
  efdcount,    \* counter of eventfd_
  brk,         \* progress of each other thread in loopbreak
  io,          \* data-moving reads and writes that are left
  inbuf,       \* bfevents whose inbuff_ is not empty
  calls,       \* operations inside the readcb_ that their del_listen calls
  again,       \* history: objects delev removed inside their own delev
  lsn          \* ev_ of the acceptor

objvars == <<delque, life, cbset, owned, closed, fdopen, inbuf, again>>
loopvars == <<registered, evlist>>
stopvars == <<shutdown, efdcount, brk>>
vars == <<pc, batch, cur, revents, objvars, loopvars, stopvars, io, calls,
          lsn>>

InCallback == {"usercb", "eventcb"}
InIteration == InCallback \cup {"dispatch", "handle", "sweep"}
UserCode == InCallback \cup {"setup", "dtorcb"}
Dying == {"dtor", "dtorcb", "dtorl", "dtorq", "destroyed", "hung"}
PCs == InIteration \cup Dying
         \cup {"setup", "check", "poll", "exited", "crashed"}
Frames == [op : {"delev", "listen", "close", "dtor"}, ev : Objs]

Init ==
  /\ pc = "setup" /\ batch = {} /\ cur = None /\ revents = {}
  /\ registered = {Efd, Acc} /\ evlist = {Efd, Acc}
  /\ delque = [e \in Objs |-> 0]
  /\ life = [e \in Born |-> IF e = Acc THEN "live" ELSE "unborn"]
  /\ cbset = {} /\ owned = {} /\ closed = {} /\ fdopen = {}
  /\ shutdown = FALSE /\ efdcount = 0
  /\ brk = [t \in Breakers |-> "idle"]
  /\ io = MaxIO
  /\ inbuf = {} /\ calls = <<>> /\ again = {} /\ lsn = Acc

Live(e) == e = Efd \/ life[e] = "live"
Queued(e) == delque[e] > 0

-----------------------------------------------------------------------------
(* Operations of the library that several actions perform.                 *)

(* load_, which nothing reads when there is no pool, is left out.          *)
add_event(e) ==
  /\ registered' = registered \cup {e}
  /\ evlist' = evlist \cup {e}

(* Nothing else happens if e is not on the loop.                           *)
del_event(e) ==
  /\ registered' = registered \ {e}
  /\ evlist' = evlist \ {e}

(* Construction, callbacks, registration and events_.emplace_back.         *)
Create(e) ==
  /\ life[e] = "unborn"
  /\ life' = [life EXCEPT ![e] = "live"]
  /\ add_event(e)
  /\ fdopen' = fdopen \cup {e}
  /\ cbset' = cbset \cup {e}
  /\ owned' = owned \cup {e}

(* Mutant: handle_close without ev->disable_cb().                          *)
handle_close_keeps_cb(e) ==
  /\ owned' = owned \ {e}
  /\ delque' = [delque EXCEPT ![e] = @ + 1]
  /\ UNCHANGED <<cbset, again>>

(* Nothing tells it that e is queued already.                              *)
handle_close(e) ==
  /\ owned' = owned \ {e}
  /\ cbset' = cbset \ {e}
  /\ delque' = [delque EXCEPT ![e] = @ + 1]
  /\ again' = again \cup
       {x \in {e} : \E i \in DOMAIN calls' :
                      calls'[i].op = "delev" /\ calls'[i].ev = x}

(* ~server holds events_mutex_ while it closes the events, so a callback   *)
(* that gets here then waits for its own thread.                           *)
LockAndClose(e) ==
  IF pc = "dtorcb"
  THEN pc' = "hung" /\ UNCHANGED <<owned, cbset, delque, again>>
  ELSE handle_close(e) /\ UNCHANGED pc

(* bfevent::del_listen begins with readcb_(this) if inbuff_ is not empty.  *)
Flushes(e) == e \in inbuf \cap cbset

(* An operation on e that has to wait for this readcb_ to return.          *)
CallReadcb(op, e) ==
  /\ Flushes(e) /\ Len(calls) < MaxNest
  /\ calls' = Append(calls, [op |-> op, ev |-> e])
  /\ UNCHANGED <<pc, batch, cur, revents, objvars, loopvars, stopvars, io,
                 lsn>>

(* The rest of del_listen; timerevent::del_listen has nothing before it.   *)
Unlisten(e) ==
  /\ del_event(e)
  /\ closed' = closed \cup ({e} \cap Bevs)

(* The rest of del_listen, of close_event and of server::delev.            *)
EndListen(e) ==
  /\ Unlisten(e)
  /\ UNCHANGED <<pc, delque, life, cbset, owned, fdopen, inbuf, again>>

EndClose(e) ==
  /\ Unlisten(e)
  /\ fdopen' = fdopen \ {e}
  /\ UNCHANGED <<pc, delque, life, cbset, owned, inbuf, again>>

EndDelev(e) ==
  /\ Unlisten(e)
  /\ LockAndClose(e)
  /\ UNCHANGED <<life, fdopen, inbuf>>

(* close_event of a bfevent whose callbacks are off, as those of a queued  *)
(* object are: no readcb_ here.                                            *)
close(e) ==
  IF e \in closed
  THEN UNCHANGED <<loopvars, closed, fdopen>>
  ELSE Unlisten(e) /\ fdopen' = fdopen \ {e}

(* Mutant: ~bfevent closes the socket but leaves the event in evlist_.     *)
Destruct_keeps_event(e) ==
  /\ registered' = registered \ {e}
  /\ fdopen' = fdopen \ {e}
  /\ UNCHANGED <<evlist, closed>>

(* What ~bfevent and ~timerevent do to the loop; the kernel drops a closed *)
(* descriptor from the interest list.                                      *)
Destruct(e) ==
  IF e \in Bevs
  THEN close(e)
  ELSE /\ registered' = registered \ {e}
       /\ fdopen' = fdopen \ {e}
       /\ UNCHANGED <<evlist, closed>>

Destroy(e) ==
  /\ life[e] = "live"
  /\ life' = [life EXCEPT ![e] = "freed"]
  /\ Destruct(e)

(* ~server: the rest of ev->close(), then delete ev, which finds it closed.*)
DeleteOwned(e) ==
  /\ pc' = "dtor"
  /\ fdopen' = fdopen \ {e}
  /\ life' = [life EXCEPT ![e] = "freed"]
  /\ owned' = owned \ {e}
  /\ UNCHANGED <<delque, cbset, inbuf, again>>

-----------------------------------------------------------------------------
(* What user code may call, before start() and inside a callback, also one *)
(* that del_listen calls.  It uses a pointer only while the server owns    *)
(* the object, and while the closing callback of a connection runs it      *)
(* leaves that connection alone.                                           *)

UserHas(e) ==
  /\ pc \in UserCode
  /\ e \in owned
  /\ ~(pc = "eventcb" /\ e = cur)

add_timeev(t) ==
  /\ pc \in InCallback \cup {"setup"}
  /\ Create(t)
  /\ UNCHANGED <<pc, batch, cur, revents, delque, closed, inbuf, again,
                 stopvars, io, calls, lsn>>

(* receive() takes all of inbuff_; taking a part leaves it not empty.      *)
receive(b) ==
  /\ UserHas(b) /\ b \in inbuf
  /\ inbuf' = inbuf \ {b}
  /\ UNCHANGED <<pc, batch, cur, revents, delque, life, cbset, owned, closed,
                 fdopen, again, loopvars, stopvars, io, calls, lsn>>

(* Mutant: delev deletes the object at once instead of queueing it.        *)
delev_immediate(e) ==
  /\ UserHas(e)
  /\ Unlisten(e)
  /\ owned' = owned \ {e}
  /\ cbset' = cbset \ {e}
  /\ life' = [life EXCEPT ![e] = "freed"]
  /\ UNCHANGED <<pc, batch, cur, revents, delque, fdopen, inbuf, again,
                 stopvars, io, calls, lsn>>

delev(e) ==
  /\ UserHas(e)
  /\ \/ CallReadcb("delev", e)
     \/ /\ ~Flushes(e)
        /\ UNCHANGED <<batch, cur, revents, stopvars, io, calls, lsn>>
        /\ EndDelev(e)

del_listen(e) ==
  /\ UserHas(e) /\ e \in evlist
  /\ \/ CallReadcb("listen", e)
     \/ /\ ~Flushes(e)
        /\ UNCHANGED <<batch, cur, revents, stopvars, io, calls, lsn>>
        /\ EndListen(e)

enable_listen(e) ==
  /\ UserHas(e) /\ e \notin evlist /\ e \in fdopen
  /\ add_event(e)
  /\ closed' = closed \ {e}
  /\ UNCHANGED <<pc, batch, cur, revents, delque, life, cbset, owned, fdopen,
                 inbuf, again, stopvars, io, calls, lsn>>

(* bfevent::close.                                                         *)
user_close(b) ==
  /\ UserHas(b) /\ b \in evlist
  /\ \/ CallReadcb("close", b)
     \/ /\ ~Flushes(b)
        /\ UNCHANGED <<batch, cur, revents, stopvars, io, calls, lsn>>
        /\ EndClose(b)

(* acceptor::stop and acceptor::listen; shutdown_ of the acceptor is TRUE  *)
(* exactly while its event is not in evlist_.  listen makes a new event    *)
(* and forgets the old one, which nobody deletes.                          *)
disable_tcp_accept ==
  /\ pc \in InCallback \cup {"setup"} /\ lsn \in evlist
  /\ del_event(lsn)
  /\ UNCHANGED <<pc, batch, cur, revents, objvars, stopvars, io, calls, lsn>>

enable_tcp_accept(a) ==
  /\ pc \in InCallback \cup {"setup"} /\ lsn \notin evlist
  /\ life[a] = "unborn"
  /\ life' = [life EXCEPT ![a] = "live"]
  /\ lsn' = a
  /\ add_event(a)
  /\ UNCHANGED <<pc, batch, cur, revents, delque, cbset, owned, closed, fdopen,
                 inbuf, again, stopvars, io, calls>>

(* loopbreak on the loop thread itself: server::stop from a callback.      *)
loopbreak_cb ==
  /\ pc \in InCallback \cup {"setup"}
  /\ ~shutdown /\ efdcount = 0
  /\ efdcount' = efdcount + 1
  /\ UNCHANGED <<pc, batch, cur, revents, objvars, loopvars, shutdown, brk, io,
                 calls, lsn>>

UserStep ==
  \/ \E t \in Tevs : add_timeev(t)
  \/ \E e \in Objs : delev(e) \/ del_listen(e) \/ enable_listen(e)
  \/ \E b \in Bevs : user_close(b) \/ receive(b)
  \/ disable_tcp_accept \/ \E a \in Accs : enable_tcp_accept(a)
  \/ loopbreak_cb

-----------------------------------------------------------------------------
(* The loop thread.                                                        *)

start ==
  /\ pc = "setup"
  /\ pc' = "check"
  /\ UNCHANGED <<batch, cur, revents, objvars, loopvars, stopvars, io, calls,
                 lsn>>

Check ==
  /\ pc = "check"
  /\ pc' = IF shutdown THEN "exited" ELSE "poll"
  /\ UNCHANGED <<batch, cur, revents, objvars, loopvars, stopvars, io, calls,
                 lsn>>

(* Readiness of connections and timers is the environment's choice; the    *)
(* eventfd is level triggered and reported as long as its counter is not 0.*)
EpollWait ==
  /\ pc = "poll"
  /\ \E S \in SUBSET (registered \ {Efd}) :
       batch' = S \cup (IF efdcount > 0 THEN {Efd} ELSE {})
  /\ Timed \/ batch' # {}
  /\ pc' = "dispatch"
  /\ UNCHANGED <<cur, revents, objvars, loopvars, stopvars, io, calls,
                 lsn>>

(* A signal ends the wait: continue.  The kernel reports what is ready     *)
(* before it looks for signals.                                            *)
EpollEintr ==
  /\ pc = "poll" /\ efdcount = 0
  /\ pc' = "check"
  /\ UNCHANGED <<batch, cur, revents, objvars, loopvars, stopvars, io, calls,
                 lsn>>

(* epoll_wait fails with an error other than EINTR.                        *)
EpollError ==
  /\ pc = "poll"
  /\ pc' = "exited"
  /\ UNCHANGED <<batch, cur, revents, objvars, loopvars, stopvars, io, calls,
                 lsn>>

Flags(e) == IF e \in Bevs THEN {"in", "out", "err"} ELSE {"in"}

Dispatch(e) ==
  /\ pc = "dispatch" /\ e \in batch
  /\ batch' = batch \ {e}
  /\ cur' = e
  /\ revents' \in SUBSET Flags(e) \ {{}}
  /\ pc' = "handle"
  /\ UNCHANGED <<objvars, loopvars, stopvars, io, calls,
                 lsn>>

(* Mutant: read_eventfd drains the counter but does not set shutdown_.     *)
read_eventfd_only ==
  /\ pc = "handle" /\ cur = Efd /\ "in" \in revents
  /\ efdcount' = 0
  /\ revents' = {}
  /\ UNCHANGED <<pc, batch, cur, objvars, loopvars, shutdown, brk, io, calls,
                 lsn>>

read_eventfd ==
  /\ pc = "handle" /\ cur = Efd /\ "in" \in revents
  /\ shutdown' = TRUE
  /\ efdcount' = 0
  /\ revents' = {}
  /\ UNCHANGED <<pc, batch, cur, objvars, loopvars, brk, io, calls,
                 lsn>>

(* handle_accept: one accept that succeeds, with server::acceptcb_ on this *)
(* very loop because ev_dispatch returns baseloop_ when t_num = 0.         *)
acceptcb_(b) ==
  /\ pc = "handle" /\ cur \in Accs /\ "in" \in revents
  /\ Create(b)
  /\ UNCHANGED <<pc, batch, cur, revents, delque, closed, inbuf, again,
                 stopvars, io, calls, lsn>>

(* handle_accept ends: accept failed, with EAGAIN or otherwise.            *)
AcceptEnd ==
  /\ pc = "handle" /\ cur \in Accs /\ "in" \in revents
  /\ revents' = {}
  /\ UNCHANGED <<pc, batch, cur, objvars, loopvars, stopvars, io, calls,
                 lsn>>

handle_timeout ==
  /\ pc = "handle" /\ cur \in Tevs /\ "in" \in revents
  /\ revents' = {}
  /\ pc' \in {"handle"} \cup (IF cur \in cbset THEN {"usercb"} ELSE {})
  /\ UNCHANGED <<batch, cur, objvars, loopvars, stopvars, io, calls,
                 lsn>>

(* The part of handle_cb that runs now: readcb_, then writecb_, then       *)
(* eventcb_ of the inner event.                                            *)
Part(p) ==
  /\ pc = "handle" /\ cur \in Bevs /\ p \in revents
  /\ p = "out" => "in" \notin revents
  /\ p = "err" => revents = {"err"}

(* readiov or write moved data: call the user back if a callback is set,   *)
(* and go round the loop of handle_read or handle_write once more.         *)
Transfer(p) ==
  /\ p # "err" /\ Part(p)
  /\ io > 0
  /\ io' = io - 1
  /\ inbuf' = IF p = "in" THEN inbuf \cup {cur} ELSE inbuf
  /\ pc' = IF cur \in cbset THEN "usercb" ELSE pc
  /\ UNCHANGED <<batch, cur, revents, delque, life, cbset, owned, closed,
                 fdopen, again, loopvars, stopvars, calls, lsn>>

(* EAGAIN, or nothing left to write.                                       *)
TransferEnd(p) ==
  /\ p # "err" /\ Part(p)
  /\ revents' = revents \ {p}
  /\ UNCHANGED <<pc, batch, cur, objvars, loopvars, stopvars, io, calls,
                 lsn>>

(* Mutant: the event callback is called without testing that it is set.    *)
CallEventcb_untested(p) ==
  /\ Part(p)
  /\ revents' = revents \ {p}
  /\ pc' = "eventcb"
  /\ UNCHANGED <<batch, cur, objvars, loopvars, stopvars, io, calls,
                 lsn>>

(* End of file or an error in handle_read, an error in handle_write, or    *)
(* handle_event: the event callback if it is still set.                    *)
CallEventcb(p) ==
  /\ Part(p)
  /\ revents' = revents \ {p}
  /\ pc' = IF cur \in cbset THEN "eventcb" ELSE pc
  /\ UNCHANGED <<batch, cur, objvars, loopvars, stopvars, io, calls,
                 lsn>>

UserReturn ==
  /\ pc = "usercb" /\ calls = <<>>
  /\ pc' = "handle"
  /\ UNCHANGED <<batch, cur, revents, objvars, loopvars, stopvars, io, calls,
                 lsn>>

(* The user's eventcb_ has returned: the rest of server::tcp_eventcb_.     *)
tcp_eventcb_ ==
  /\ pc = "eventcb" /\ calls = <<>>
  /\ UNCHANGED calls
  /\ handle_close(cur)
  /\ pc' = "handle"
  /\ UNCHANGED <<batch, cur, revents, life, closed, fdopen, inbuf, loopvars,
                 stopvars, io, lsn>>

(* The readcb_ that a del_listen called returns and its caller goes on,    *)
(* whatever has become of the connection meanwhile.                        *)
ReadcbReturn(f) ==
  /\ pc \in UserCode
  /\ calls # <<>> /\ f = calls[Len(calls)]
  /\ calls' = SubSeq(calls, 1, Len(calls) - 1)
  /\ \/ f.op = "delev" /\ EndDelev(f.ev)
     \/ f.op = "listen" /\ EndListen(f.ev)
     \/ f.op = "close" /\ EndClose(f.ev)
     \/ f.op = "dtor" /\ Unlisten(f.ev) /\ DeleteOwned(f.ev)
  /\ UNCHANGED <<batch, cur, revents, stopvars, io, lsn>>

HandleDone ==
  /\ pc = "handle" /\ revents = {}
  /\ cur' = None
  /\ pc' = "dispatch"
  /\ UNCHANGED <<batch, revents, objvars, loopvars, stopvars, io, calls,
                 lsn>>

BatchDone ==
  /\ pc = "dispatch" /\ batch = {}
  /\ pc' = "sweep"
  /\ UNCHANGED <<batch, cur, revents, objvars, loopvars, stopvars, io, calls,
                 lsn>>

DeletePending(e) ==
  /\ pc = "sweep" /\ Queued(e)
  /\ delque' = [delque EXCEPT ![e] = @ - 1]
  /\ Destroy(e)
  /\ UNCHANGED <<pc, batch, cur, revents, cbset, owned, inbuf, again, stopvars,
                 io, calls, lsn>>

(* delque_ names the object a second time: delete of freed memory.  What   *)
(* the process does after that is undefined, and it takes no more steps.   *)
DeleteFreed(e) ==
  /\ pc \in {"sweep", "dtorq"} /\ Queued(e) /\ life[e] = "freed"
  /\ pc' = "crashed"
  /\ UNCHANGED <<batch, cur, revents, objvars, loopvars, stopvars, io, calls,
                 lsn>>

(* Mutant: the sweep may end before delque_ is empty.                      *)
SweepDone_early ==
  /\ pc = "sweep"
  /\ pc' = "check"
  /\ UNCHANGED <<batch, cur, revents, objvars, loopvars, stopvars, io, calls,
                 lsn>>

SweepDone ==
  /\ pc = "sweep" /\ \A e \in Objs : ~Queued(e)
  /\ pc' = "check"
  /\ UNCHANGED <<batch, cur, revents, objvars, loopvars, stopvars, io, calls,
                 lsn>>

Handle ==
  \/ read_eventfd \/ AcceptEnd \/ handle_timeout
  \/ \E b \in Bevs : acceptcb_(b)
  \/ \E p \in {"in", "out", "err"} :
       Transfer(p) \/ TransferEnd(p) \/ CallEventcb(p)

LoopStep ==
  \/ Check \/ EpollWait \/ EpollEintr \/ EpollError
  \/ \E e \in Events : Dispatch(e)
  \/ Handle \/ UserReturn \/ tcp_eventcb_ \/ HandleDone
  \/ \E f \in Frames : ReadcbReturn(f)
  \/ BatchDone
  \/ \E e \in Objs : DeletePending(e) \/ DeleteFreed(e)
  \/ SweepDone

-----------------------------------------------------------------------------
(* loopbreak on another thread: the test of shutdown_ and the write are    *)
(* two steps.                                                              *)

LoopbreakTest(t) ==
  /\ pc \notin Dying \cup {"crashed"} /\ brk[t] = "idle"
  /\ brk' = [brk EXCEPT ![t] = IF shutdown THEN "done" ELSE "write"]
  /\ UNCHANGED <<pc, batch, cur, revents, objvars, loopvars, shutdown,
                 efdcount, io, calls,
                 lsn>>

write_eventfd(t) ==
  /\ pc # "crashed" /\ brk[t] = "write"
  /\ efdcount' = efdcount + 1
  /\ brk' = [brk EXCEPT ![t] = "done"]
  /\ UNCHANGED <<pc, batch, cur, revents, objvars, loopvars, shutdown, io,
                 calls, lsn>>

-----------------------------------------------------------------------------
(* ~server: stop(), acceptor_.stop(), then close and delete every event of *)
(* events_; afterwards ~acceptor deletes its event and ~eventloop what     *)
(* evlist_ and delque_ hold.  The owner destroys the server when no thread *)
(* is inside it.                                                           *)

DtorBegin ==
  /\ pc \in {"setup", "exited"}
  /\ \A t \in Breakers : brk[t] # "write"
  /\ IF lsn \in evlist THEN del_event(lsn) ELSE UNCHANGED loopvars
  /\ pc' = "dtor"
  /\ UNCHANGED <<batch, cur, revents, objvars, stopvars, io, calls,
                 lsn>>

(* ev->close(); delete ev;  A connection with data is flushed by the first *)
(* of these, with events_mutex_ held.                                      *)
DtorEvent(e) ==
  /\ pc = "dtor" /\ e \in owned
  /\ \/ /\ e \notin closed /\ Flushes(e)
        /\ calls' = <<[op |-> "dtor", ev |-> e]>>
        /\ pc' = "dtorcb"
        /\ UNCHANGED <<objvars, loopvars>>
     \/ /\ e \notin closed /\ ~Flushes(e)
        /\ Unlisten(e)
        /\ DeleteOwned(e)
        /\ UNCHANGED calls
     \/ /\ e \in closed
        /\ pc' = "dtor"
        /\ life' = [life EXCEPT ![e] = "freed"]
        /\ owned' = owned \ {e}
        /\ UNCHANGED <<delque, cbset, closed, fdopen, inbuf, again, loopvars,
                       calls>>
  /\ UNCHANGED <<batch, cur, revents, stopvars, io, lsn>>

DtorAcceptor ==
  /\ pc = "dtor" /\ owned = {}
  /\ life' = [life EXCEPT ![lsn] = "freed"]
  /\ pc' = "dtorl"
  /\ UNCHANGED <<batch, cur, revents, delque, cbset, owned, closed, fdopen,
                 inbuf, again, loopvars, stopvars, io, calls, lsn>>

DtorEvlist ==
  /\ pc = "dtorl"
  /\ evlist' = {}
  /\ pc' = "dtorq"
  /\ UNCHANGED <<batch, cur, revents, objvars, registered, stopvars, io,
                 calls, lsn>>

DtorQueue(e) ==
  /\ pc = "dtorq" /\ Queued(e)
  /\ delque' = [delque EXCEPT ![e] = @ - 1]
  /\ Destroy(e)
  /\ UNCHANGED <<pc, batch, cur, revents, cbset, owned, inbuf, again, stopvars,
                 io, calls, lsn>>

(* Mutant: ~eventloop forgets what delque_ still holds.                    *)
DtorDone_forgets ==
  /\ pc = "dtorq"
  /\ pc' = "destroyed"
  /\ UNCHANGED <<batch, cur, revents, objvars, loopvars, stopvars, io, calls,
                 lsn>>

DtorDone ==
  /\ pc = "dtorq" /\ \A e \in Objs : ~Queued(e)
  /\ pc' = "destroyed"
  /\ UNCHANGED <<batch, cur, revents, objvars, loopvars, stopvars, io, calls,
                 lsn>>

Dtor ==
  \/ DtorBegin \/ DtorAcceptor \/ DtorEvlist \/ DtorDone
  \/ \E e \in Objs : DtorEvent(e) \/ DtorQueue(e)

(* The server is gone, the process has run into undefined behaviour, or    *)
(* ~server waits for a mutex that it holds itself.                         *)
Terminated == pc \in {"destroyed", "crashed", "hung"} /\ UNCHANGED vars

Next ==
  \/ start \/ LoopStep \/ UserStep
  \/ \E t \in Breakers : LoopbreakTest(t) \/ write_eventfd(t)
  \/ Dtor
  \/ Terminated

(* The loop thread runs on; epoll_wait is sure to return only while the    *)
(* eventfd is readable.  A thread inside loopbreak finishes the call.      *)
(* Nothing is assumed of connections, timers or user code except that a    *)
(* callback returns, however many calls it makes before.                   *)
Fairness ==
  /\ WF_vars((pc = "poll" => efdcount > 0) /\ LoopStep)
  /\ SF_vars(UserReturn \/ tcp_eventcb_)
  /\ \A t \in Breakers : WF_vars(write_eventfd(t))

Spec == Init /\ [][Next]_vars
FairSpec == Spec /\ Fairness

-----------------------------------------------------------------------------
TypeOK ==
  /\ pc \in PCs
  /\ batch \subseteq Events
  /\ cur \in Events \cup {None}
  /\ revents \subseteq {"in", "out", "err"}
  /\ registered \subseteq Events
  /\ evlist \subseteq Events
  /\ delque \in [Objs -> Nat]
  /\ life \in [Born -> {"unborn", "live", "freed"}]
  /\ cbset \subseteq Objs
  /\ owned \subseteq Objs
  /\ closed \subseteq Bevs
  /\ fdopen \subseteq Objs
  /\ shutdown \in BOOLEAN
  /\ efdcount \in Nat
  /\ brk \in [Breakers -> {"idle", "write", "done"}]
  /\ io \in 0..MaxIO
  /\ inbuf \subseteq Bevs /\ calls \in Seq(Frames)
  /\ again \subseteq Objs /\ lsn \in Accs

(* eventloop::loop never touches a deleted object: every event that the    *)
(* batch still holds, and the one being handled, is alive, although any    *)
(* callback of the batch may have closed or removed it meanwhile           *)
(* (eventloop.cpp 138-151, the reason for delque_).                        *)
DispatchLive ==
  pc \in InIteration =>
    \A e \in batch \cup ({cur} \ {None}) : Live(e)

(* The loop and the destructors delete an object once, unless user code    *)
(* calls delev for it again inside the readcb_ that its own delev calls    *)
(* through del_listen, because inbuff_ was not empty: that is the only way *)
(* to a second place in delque_ and so to a second delete.  delque_ and    *)
(* server::events_, whose members ~server deletes, never share an object   *)
(* (server.h handle_close, server.cpp delev, bfevent.cpp 130-132).         *)
DeletedOnceUnlessReentered ==
  /\ \A e \in Objs : e \in owned => life[e] = "live" /\ ~Queued(e)
  /\ \A e \in Objs \ again :
       delque[e] <= 1 /\ (Queued(e) => life[e] = "live")
  /\ pc = "crashed" => again # {}

(* evlist_ and the kernel hold no pointer to a deleted event, and when     *)
(* ~eventloop deletes what evlist_ holds that is no event which a queued   *)
(* or owned object would delete again (eventloop.cpp 64-76: the owner of   *)
(* an inner event is not told).                                            *)
NoDanglingPointer ==
  /\ \A e \in evlist \cup registered : Live(e)
  /\ pc = "dtorl" => evlist \subseteq {Efd}

(* Every connection and timer is deleted when the destructors have run,    *)
(* whichever way it was closed (server.cpp 53-62).  The events that        *)
(* acceptor::listen made before its last call are not: see                 *)
(* enable_tcp_accept.                                                      *)
NothingLeaked ==
  pc = "destroyed" => \A e \in Objs : life[e] # "live"

(* After handle_close no callback of the object runs again, although the   *)
(* object stays in the batch and up to three parts of its handle_cb may    *)
(* still be due (base_event::disable_cb in server::handle_close).          *)
NoCallbackAfterClose ==
  [][pc = "handle" /\ pc' \in InCallback => cur \in owned]_vars

(* A loopbreak that has returned ends the loop, whatever the loop was      *)
(* doing when it was called, even before start() (loopbreak,               *)
(* write_eventfd, read_eventfd, loop).                                     *)
LoopbreakStops ==
  \A t \in Breakers :
    (brk[t] = "done" /\ pc # "setup")
      ~> (pc \in {"exited", "crashed"} \cup Dying)

(* What a callback closes is deleted in the same iteration of the loop,    *)
(* without waiting for another event (eventloop.cpp 146-151), unless the   *)
(* deletion of an object queued twice comes first.                         *)
PendingDeleted ==
  \A e \in Objs :
    (Queued(e) /\ pc \in InIteration)
      ~> (life[e] = "freed" \/ pc = "crashed")
=============================================================================
