------------------------------ MODULE ServerPool ------------------------------
(***************************************************************************)
(* moon::server with a pool of event loops: looptpool starts one thread    *)
(* per loop (loopthread), the base thread accepts connections and gives    *)
(* each to a loop of the pool, and the loop's thread reads, closes and     *)
(* deletes it.  The module follows a connection through both threads, from *)
(* the start of the pool to the destructor of the server.                  *)
(*                                                                         *)
(* A single loop is the subject of EventLoop and the bytes of a connection *)
(* are the subject of BfEvent; both are reduced here to what crosses       *)
(* threads.  The lists evlist_, events_ and delque_ are changed in one     *)
(* step each, which is kinder than the code, whose lists have no lock.     *)
(***************************************************************************)
EXTENDS Integers, FiniteSets

CONSTANTS
  Conns,     \* connections that peers may open
  NoConn,    \* no connection
  Efd,       \* the event of a loop's eventfd_
  TNum,      \* t_num
  MaxSends   \* bound: how often peers send

ASSUME PoolAssumption ==
  /\ NoConn \notin Conns /\ Efd \notin Conns
  /\ TNum \in Nat \ {0} /\ MaxSends \in Nat

Loops == 0..(TNum - 1)

VARIABLES
  dispath,   \* dispath_
  next,      \* next_
  bpc,       \* where the thread of the server is
  i,         \* loop it starts, stops or joins
  bcur,      \* connection in acceptcb_
  mpc,       \* where manager_ is in adjust_task
  owned,     \* events_
  loop_,     \* loops whose loopthread has published its loop_
  wpc,       \* where the thread of each loop is
  shut,      \* shutdown_ of each loop
  efd,       \* eventfd_ of each loop is readable
  batch,     \* rest of the events that epoll_wait returned
  cur,       \* connection being handled
  delque,    \* delque_ of each loop
  life,      \* "none", "live" or "deleted"
  home,      \* loop_ of each connection
  reg,       \* connections registered with epoll
  ready,     \* connections that epoll would report (edge triggered)
  early,     \* history: closed by their loop while acceptcb_ had them
  rcb, ecb,  \* connections with a readcb_, an eventcb_
  sent,      \* how often peers have sent
  sock,      \* connections with unread bytes in the socket
  eof        \* connections that the peer has closed

basevars == <<dispath, next, bpc, i, bcur>>
workvars == <<wpc, shut, efd, batch, cur, delque>>
cbvars == <<rcb, ecb>>
sockvars == <<sent, sock, eof>>
connvars == <<life, home, reg, ready, early, cbvars, sockvars>>
vars == <<basevars, mpc, owned, loop_, workvars, connvars>>

(* A server whose init_pool, or init_pool_noadjust, has just been called.  *)
Init ==
  /\ dispath \in BOOLEAN /\ next = 0
  /\ bpc = "spawn" /\ i = 0 /\ bcur = NoConn
  /\ mpc = "none" /\ owned = {}
  /\ loop_ = {}
  /\ wpc = [w \in Loops |-> "none"]
  /\ shut = [w \in Loops |-> FALSE] /\ efd = [w \in Loops |-> FALSE]
  /\ batch = [w \in Loops |-> {}] /\ cur = [w \in Loops |-> NoConn]
  /\ delque = [w \in Loops |-> {}]
  /\ life = [c \in Conns |-> "none"] /\ home = [c \in Conns |-> 0]
  /\ reg = {} /\ ready = {} /\ early = {} /\ rcb = {} /\ ecb = {}
  /\ sent = 0 /\ sock = {} /\ eof = {}

-----------------------------------------------------------------------------
(* looptpool::init_pool: new loopthread and getloop, TNum times.           *)

(* The new thread may run before timeout_, a later member, has its value:  *)
(* the loop's timeout is arbitrary, see EpollNothing.                      *)
Spawn ==
  /\ bpc = "spawn" /\ i < TNum
  /\ wpc' = [wpc EXCEPT ![i] = "start"]
  /\ bpc' = "getloop"
  /\ UNCHANGED <<dispath, next, i, bcur, mpc, owned, loop_, shut,
                 efd, batch, cur, delque, connvars>>

(* getloop waits for the loop.                                             *)
getloop ==
  /\ bpc = "getloop"
  /\ IF i \in loop_ THEN bpc' = "spawn" /\ i' = i + 1
                    ELSE bpc' = "waiting" /\ i' = i
  /\ UNCHANGED <<dispath, next, bcur, mpc, owned, loop_, workvars,
                 connvars>>

(* create_pool starts the manager when the loops run.                      *)
PoolReady ==
  /\ bpc = "spawn" /\ i = TNum
  /\ mpc' = IF dispath THEN "running" ELSE "none"
  /\ bpc' = "idle" /\ i' = 0
  /\ UNCHANGED <<dispath, next, bcur, owned, loop_, workvars,
                 connvars>>

(* loopthread::_init_ on the new thread.                                   *)
MakeLoop(w) ==
  /\ wpc[w] = "start"
  /\ wpc' = [wpc EXCEPT ![w] = "publish"]
  /\ UNCHANGED <<basevars, mpc, owned, loop_, shut, efd, batch, cur, delque,
                 connvars>>

Publish(w) ==
  /\ wpc[w] = "publish"
  /\ loop_' = loop_ \cup {w}
  /\ bpc' = IF bpc = "waiting" THEN "getloop" ELSE bpc
  /\ wpc' = [wpc EXCEPT ![w] = "check"]
  /\ UNCHANGED <<dispath, next, i, bcur, mpc, owned,
                 shut, efd, batch, cur, delque, connvars>>

-----------------------------------------------------------------------------
(* The base thread: server::acceptcb_.                                     *)

(* The loops that getminload may return.  It reads the loads one by one    *)
(* while the loops' threads change them, so any loop may pass for the one  *)
(* with the least.                                                         *)
getminload == Loops

(* ev_dispatch: the loop with the least load_, or the next one.            *)
ev_dispatch(w) ==
  \/ dispath /\ w \in getminload /\ next' = next
  \/ ~dispath /\ next' = (next + 1) % TNum /\ w = next'

(* new bfevent: the constructor puts it on the loop, without callbacks.    *)
Accept(c) ==
  /\ bpc = "idle" /\ life[c] = "none"
  /\ \E w \in Loops : ev_dispatch(w) /\ home' = [home EXCEPT ![c] = w]
  /\ life' = [life EXCEPT ![c] = "live"]
  /\ reg' = reg \cup {c}
  /\ bcur' = c
  /\ bpc' = "rcb"
  /\ UNCHANGED <<dispath, i, mpc, owned, loop_, workvars, ready, early,
                 cbvars, sockvars>>

(* The base thread has used c and goes on at pc.  Its loop may have        *)
(* deleted c by now.  What happens then is undefined: the process ends, or *)
(* nothing comes of it, because the freed memory still holds closed_ as    *)
(* ~bfevent has left it.                                                   *)
Used(c, pc) ==
  bpc' \in {pc} \cup (IF life[c] = "deleted" THEN {"crashed"} ELSE {})

(* bfevent::setcb, one member after the other.                             *)
SetRcb ==
  /\ bpc = "rcb"
  /\ rcb' = rcb \cup {bcur}
  /\ Used(bcur, "ecb")
  /\ UNCHANGED <<dispath, next, i, bcur, mpc, owned, loop_,
                 workvars, life, home, reg, ready, early, ecb, sockvars>>

SetEcb ==
  /\ bpc = "ecb"
  /\ ecb' = ecb \cup {bcur}
  /\ Used(bcur, "mod")
  /\ UNCHANGED <<dispath, next, i, bcur, mpc, owned, loop_,
                 workvars, life, home, reg, ready, early, rcb, sockvars>>

Readable(c) == c \in sock \cup eof

(* Mutant: setcb does not call update_ep.                                  *)
update_ep_none ==
  /\ bpc = "mod"
  /\ Used(bcur, "own")
  /\ UNCHANGED <<dispath, next, i, bcur, mpc, owned, loop_,
                 workvars, connvars>>

(* update_ep: EPOLL_CTL_MOD looks at the socket anew.                      *)
update_ep ==
  /\ bpc = "mod"
  /\ ready' = IF bcur \in reg /\ Readable(bcur) THEN ready \cup {bcur}
                                                ELSE ready
  /\ Used(bcur, "own")
  /\ UNCHANGED <<dispath, next, i, bcur, mpc, owned, loop_,
                 workvars, life, home, reg, early, cbvars, sockvars>>

(* events_.emplace_back, without the mutex, of a pointer that is not used  *)
(* before ~server.                                                         *)
EmplaceBack ==
  /\ bpc = "own"
  /\ owned' = owned \cup {bcur}
  /\ bcur' = NoConn
  /\ bpc' = "idle"
  /\ UNCHANGED <<dispath, next, i, mpc, loop_, workvars, connvars>>

acceptcb_ == SetRcb \/ SetEcb \/ update_ep \/ EmplaceBack

-----------------------------------------------------------------------------
(* The threads of the loops: eventloop::loop, bfevent::handle_read and     *)
(* server::tcp_eventcb_.                                                   *)

Goto(w, pc) == wpc' = [wpc EXCEPT ![w] = pc]

Check(w) ==
  /\ wpc[w] = "check"
  /\ Goto(w, IF shut[w] THEN "ended" ELSE "poll")
  /\ UNCHANGED <<basevars, mpc, owned, loop_, shut, efd, batch, cur, delque,
                 connvars>>

Reported(w) ==
  {c \in ready : home[c] = w} \cup (IF efd[w] THEN {Efd} ELSE {})

(* epoll_wait returns what is ready and clears the edges.                  *)
EpollWait(w) ==
  /\ wpc[w] = "poll" /\ Reported(w) # {}
  /\ batch' = [batch EXCEPT ![w] = Reported(w)]
  /\ ready' = ready \ Reported(w)
  /\ Goto(w, "dispatch")
  /\ UNCHANGED <<basevars, mpc, owned, loop_, shut, efd, cur, delque, life,
                 home, reg, early, cbvars, sockvars>>

(* A timeout, or EINTR, when nothing is ready.                             *)
EpollNothing(w) ==
  /\ wpc[w] = "poll" /\ Reported(w) = {}
  /\ Goto(w, "check")
  /\ UNCHANGED <<basevars, mpc, owned, loop_, shut, efd, batch, cur, delque,
                 connvars>>

EpollError(w) ==
  /\ wpc[w] = "poll"
  /\ Goto(w, "ended")
  /\ UNCHANGED <<basevars, mpc, owned, loop_, shut, efd, batch, cur, delque,
                 connvars>>

read_eventfd(w) ==
  /\ wpc[w] = "dispatch" /\ Efd \in batch[w]
  /\ batch' = [batch EXCEPT ![w] = @ \ {Efd}]
  /\ shut' = [shut EXCEPT ![w] = TRUE]
  /\ efd' = [efd EXCEPT ![w] = FALSE]
  /\ UNCHANGED <<basevars, mpc, owned, loop_, wpc, cur, delque, connvars>>

Dispatch(w) ==
  /\ wpc[w] = "dispatch"
  /\ \E c \in batch[w] \ {Efd} :
       /\ cur' = [cur EXCEPT ![w] = c]
       /\ batch' = [batch EXCEPT ![w] = @ \ {c}]
  /\ Goto(w, "read")
  /\ UNCHANGED <<basevars, mpc, owned, loop_, shut, efd, delque, connvars>>

(* readiov gets what is there; readcb_ is called if there is one.          *)
ReadSome(w) ==
  /\ wpc[w] = "read" /\ cur[w] \in sock
  /\ sock' = sock \ {cur[w]}
  /\ UNCHANGED <<basevars, mpc, owned, loop_, workvars, life, home, reg, ready,
                 early, cbvars, sent, eof>>

(* EAGAIN, or the end of the stream while there is no eventcb_ yet.        *)
ReadEnd(w) ==
  LET c == cur[w]
  IN /\ wpc[w] = "read" /\ c \notin sock /\ ~(c \in eof /\ c \in ecb)
     /\ Goto(w, "rest")
     /\ UNCHANGED <<basevars, mpc, owned, loop_, shut, efd, batch, cur,
                    delque, connvars>>

ReadEof(w) ==
  LET c == cur[w]
  IN /\ wpc[w] = "read" /\ c \notin sock /\ c \in eof /\ c \in ecb
     /\ Goto(w, "close")
     /\ UNCHANGED <<basevars, mpc, owned, loop_, shut, efd, batch, cur,
                    delque, connvars>>

(* Mutant: the connection is not queued for deletion.                      *)
handle_close_forgets(w) ==
  /\ wpc[w] = "close"
  /\ owned' = owned \ {cur[w]}
  /\ rcb' = rcb \ {cur[w]} /\ ecb' = ecb \ {cur[w]}
  /\ Goto(w, "rest")
  /\ UNCHANGED <<basevars, mpc, loop_, shut, efd, batch, cur, delque, life,
                 home, reg, ready, early, sockvars>>

(* Mutant: the connection is deleted on the spot.                          *)
handle_close_deletes(w) ==
  /\ wpc[w] = "close"
  /\ owned' = owned \ {cur[w]}
  /\ rcb' = rcb \ {cur[w]} /\ ecb' = ecb \ {cur[w]}
  /\ life' = [life EXCEPT ![cur[w]] = "deleted"]
  /\ reg' = reg \ {cur[w]} /\ ready' = ready \ {cur[w]}
  /\ Goto(w, "rest")
  /\ UNCHANGED <<basevars, mpc, loop_, shut, efd, batch, cur, delque, home,
                 early, sockvars>>

(* handle_close: out of events_, callbacks off, into delque_.              *)
handle_close(w) ==
  /\ wpc[w] = "close"
  /\ owned' = owned \ {cur[w]}
  /\ rcb' = rcb \ {cur[w]} /\ ecb' = ecb \ {cur[w]}
  /\ delque' = [delque EXCEPT ![w] = @ \cup {cur[w]}]
  /\ early' = early \cup ({cur[w]} \cap {bcur})
  /\ Goto(w, "rest")
  /\ UNCHANGED <<basevars, mpc, loop_, shut, efd, batch, cur, life, home,
                 reg, ready, sockvars>>

(* The rest of handle_cb: EPOLLHUP or EPOLLERR calls eventcb_ as well.     *)
handle_event(w) ==
  /\ wpc[w] = "rest" /\ cur[w] \in eof /\ cur[w] \in ecb
  /\ Goto(w, "close")
  /\ UNCHANGED <<basevars, mpc, owned, loop_, shut, efd, batch, cur, delque,
                 connvars>>

HandleDone(w) ==
  /\ wpc[w] = "rest"
  /\ Goto(w, "dispatch")
  /\ cur' = [cur EXCEPT ![w] = NoConn]
  /\ UNCHANGED <<basevars, mpc, owned, loop_, shut, efd, batch, delque,
                 connvars>>

Deleted(S) == [c \in Conns |-> IF c \in S THEN "deleted" ELSE life[c]]

(* The batch is over: delete what delque_ holds.  ~bfevent takes it off    *)
(* epoll and closes the socket.                                            *)
Sweep(w) ==
  /\ wpc[w] = "dispatch" /\ batch[w] = {}
  /\ life' = Deleted(delque[w])
  /\ reg' = reg \ delque[w] /\ ready' = ready \ delque[w]
  /\ delque' = [delque EXCEPT ![w] = {}]
  /\ Goto(w, "check")
  /\ UNCHANGED <<basevars, mpc, owned, loop_, shut, efd, batch, cur, home,
                 early, cbvars, sockvars>>

(* What the thread of a loop does without being asked to stop.             *)
Run(w) ==
  /\ bpc # "crashed"
  /\ \/ MakeLoop(w) \/ Publish(w)
     \/ Check(w) \/ EpollWait(w) \/ read_eventfd(w) \/ Dispatch(w)
     \/ ReadSome(w) \/ ReadEnd(w) \/ ReadEof(w) \/ handle_close(w)
     \/ handle_event(w) \/ HandleDone(w) \/ Sweep(w)

-----------------------------------------------------------------------------
(* server::stop, called in a callback of the base loop or by the           *)
(* destructor: looptpool::stop, then the base loop's loopbreak.            *)

stop ==
  /\ bpc \in {"idle", "exited"}
  /\ i' = 0
  /\ bpc' = IF bpc = "idle" THEN "stop" ELSE "dtorstop"
  /\ UNCHANGED <<dispath, next, bcur, mpc, owned, loop_, workvars,
                 connvars>>

JoinAfter == [stop |-> "join", dtorstop |-> "dtorjoin"]
StopAfter == [join |-> "stop", dtorjoin |-> "dtorstop"]

(* Mutant: stop joins without loopbreak.                                   *)
StopLoop_silent ==
  /\ bpc \in {"stop", "dtorstop"} /\ i < TNum
  /\ bpc' = JoinAfter[bpc]
  /\ UNCHANGED <<dispath, next, i, bcur, mpc, owned, loop_,
                 workvars, connvars>>

(* loopbreak of loop i.                                                    *)
StopLoop ==
  /\ bpc \in {"stop", "dtorstop"} /\ i < TNum
  /\ efd' = [efd EXCEPT ![i] = @ \/ ~shut[i]]
  /\ bpc' = JoinAfter[bpc]
  /\ UNCHANGED <<dispath, next, i, bcur, mpc, owned, loop_, wpc,
                 shut, batch, cur, delque, connvars>>

JoinLoop ==
  /\ bpc \in {"join", "dtorjoin"} /\ wpc[i] = "ended"
  /\ bpc' = StopAfter[bpc]
  /\ i' = i + 1
  /\ UNCHANGED <<dispath, next, bcur, mpc, owned, loop_, workvars,
                 connvars>>

(* stop_adjust, if manager_ is joinable.                                   *)
StopAdjust ==
  /\ bpc \in {"stop", "dtorstop"} /\ i = TNum
  /\ dispath' = (dispath /\ mpc = "none")
  /\ bpc' = IF bpc = "stop" THEN "manager" ELSE "dtormanager"
  /\ UNCHANGED <<next, i, bcur, mpc, owned, loop_, workvars,
                 connvars>>

(* manager_.join() and base_.loopbreak().                                  *)
StopDone ==
  /\ bpc \in {"manager", "dtormanager"} /\ mpc \in {"none", "ended"}
  /\ mpc' = "none"
  /\ bpc' = IF bpc = "manager" THEN "idle" ELSE "dtor"
  /\ UNCHANGED <<dispath, next, i, bcur, owned, loop_, workvars, connvars>>

(* adjust_task.  create_pool sets min_tnum to t_num and nothing else       *)
(* changes t_num, so t_num > min_tnum never holds and nothing is adjusted: *)
(* the manager sleeps until dispath_ is false.                             *)
adjust_task ==
  /\ bpc # "crashed" /\ mpc = "running" /\ ~dispath
  /\ mpc' = "ended"
  /\ UNCHANGED <<basevars, owned, loop_, workvars, connvars>>

-----------------------------------------------------------------------------
(* The base loop ends after a loopbreak or with an error, and the server   *)
(* is destroyed: stop, the events that are left, the pool.                 *)

LoopExit ==
  /\ bpc = "idle"
  /\ bpc' = "exited"
  /\ UNCHANGED <<dispath, next, i, bcur, mpc, owned, loop_,
                 workvars, connvars>>

(* close and delete an element of events_, which its loop may have deleted *)
(* before it was put there.  The readcb_ that close may call is in         *)
(* EventLoop.                                                              *)
DtorEvent ==
  /\ bpc = "dtor"
  /\ \E c \in owned :
       /\ Used(c, "dtor")
       /\ owned' = owned \ {c}
       /\ life' = Deleted({c})
       /\ reg' = reg \ {c} /\ ready' = ready \ {c}
  /\ UNCHANGED <<dispath, next, i, bcur, mpc, loop_, workvars, home, early,
                 cbvars, sockvars>>

(* ~looptpool: ~loopthread deletes its loop, which deletes its delque_.    *)
DtorPool ==
  /\ bpc = "dtor" /\ owned = {}
  /\ life' = Deleted(UNION {delque[w] : w \in Loops})
  /\ delque' = [w \in Loops |-> {}]
  /\ bpc' = "gone"
  /\ UNCHANGED <<dispath, next, i, bcur, mpc, owned, loop_, wpc,
                 shut, efd, batch, cur, home, reg, ready, early, cbvars,
                 sockvars>>

-----------------------------------------------------------------------------
(* The peers.                                                              *)

PeerSends(c) ==
  /\ life[c] = "live" /\ c \notin eof /\ sent < MaxSends
  /\ sent' = sent + 1
  /\ sock' = sock \cup {c}
  /\ ready' = ready \cup ({c} \cap reg)
  /\ UNCHANGED <<basevars, mpc, owned, loop_, workvars, life, home, reg,
                 early, cbvars, eof>>

PeerCloses(c) ==
  /\ life[c] = "live" /\ c \notin eof
  /\ eof' = eof \cup {c}
  /\ ready' = ready \cup ({c} \cap reg)
  /\ UNCHANGED <<basevars, mpc, owned, loop_, workvars, life, home, reg,
                 early, cbvars, sent, sock>>

(* The server is gone, or the process has run into undefined behaviour.    *)
Terminated == bpc \in {"gone", "crashed"} /\ UNCHANGED vars

(* What the server's thread does once a call has begun.                    *)
BaseCall ==
  \/ Spawn \/ getloop \/ PoolReady \/ acceptcb_
  \/ StopLoop \/ JoinLoop \/ StopAdjust \/ StopDone
  \/ DtorEvent \/ DtorPool

Next ==
  \/ BaseCall \/ stop \/ LoopExit \/ adjust_task
  \/ \E c \in Conns : Accept(c)
  \/ \E w \in Loops : Run(w)
  \/ /\ bpc # "crashed"
     /\ \/ \E c \in Conns : PeerSends(c) \/ PeerCloses(c)
        \/ \E w \in Loops : EpollNothing(w) \/ EpollError(w)
  \/ Terminated

Spec == Init /\ [][Next]_vars

(* Threads keep running; epoll_wait is only assumed to return when there   *)
(* is something to report.                                                 *)
FairSpec ==
  /\ Spec
  /\ WF_vars(BaseCall) /\ WF_vars(adjust_task)
  /\ \A w \in Loops : WF_vars(Run(w))

-----------------------------------------------------------------------------
(* Nobody has a deleted connection in hand, unless its loop closed it      *)
(* while acceptcb_ still had it.  The thread of a loop never handles or    *)
(* queues one and queues each once, although the base thread re-arms it    *)
(* after the loop may have queued it; the base thread, in setcb, and       *)
(* ~server, which closes and deletes what events_ holds, use one only if   *)
(* it was closed that early, which is also the only way to undefined       *)
(* behaviour (server.h 103-123, bfevent.cpp 83-88, eventloop.cpp 138-151,  *)
(* server.cpp 53-62).                                                      *)
LiveUnlessClosedEarly ==
  /\ \A w \in Loops :
       /\ \A c \in (batch[w] \cup {cur[w]} \cup delque[w]) \ {Efd, NoConn} :
            life[c] = "live"
       /\ delque[w] \cap ecb = {}
  /\ \A c \in (owned \cup ({bcur} \ {NoConn})) \ early :
       life[c] = "live" /\ \A w \in Loops : c \notin delque[w]
  /\ bpc = "crashed" => early # {}

(* When the server and its pool are destroyed no connection is left,       *)
(* whichever thread closed it or was about to (server.cpp 53-62,           *)
(* looptpool.cpp 47-54).  That one is not deleted twice is the subject of  *)
(* LiveUnlessClosedEarly.                                                  *)
AllReleased == bpc = "gone" => \A c \in Conns : life[c] # "live"

(* Every call of the server's thread ends: init_pool does not miss the     *)
(* loop that a new thread publishes, and stop, from a callback or from the *)
(* destructor, joins every loop and the manager whatever they are doing    *)
(* (loopthread.cpp 25-43, looptpool.cpp 280-289, server.cpp 53-62).        *)
CallsEnd ==
  LET Rest == {"idle", "exited", "gone", "crashed"}
  IN bpc \notin Rest ~> bpc \in Rest

(* A connection that its peer has closed is deleted, also when the loop    *)
(* saw the end before the base thread set eventcb_; unless the loop ends   *)
(* (server.h 103-123, bfevent.cpp 83-88).                                  *)
EofCloses ==
  \A c \in Conns :
    (c \in eof) ~> \/ life[c] = "deleted" \/ wpc[home[c]] = "ended"
                   \/ bpc = "crashed"
=============================================================================
