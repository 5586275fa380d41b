----------------------------- MODULE ServerFront -----------------------------
(***************************************************************************)
(* The base loop of a moon::server with everything on it that is not a     *)
(* connection: the acceptor, signal events, UDP events and timers, which   *)
(* share one epoll set, one batch and one deletion queue, and which user   *)
(* code in any of their callbacks may add and remove.                      *)
(***************************************************************************)
EXTENDS Acceptor, SignalEvent, UdpEvent, TimerEvent

vars == <<loopvars, accvars, sigvars, udpvars, timvars>>

(* Mutant: every event is edge triggered.                                  *)
FirstMask_et == [e \in Events |-> {"in", "et"}]

(* event(loop_, fd, EPOLLIN | EPOLLET) or event(loop_, fd, EPOLLIN).       *)
FirstMask ==
  [e \in Events |-> IF e \in Udps \cup {Acc} THEN {"in", "et"} ELSE {"in"}]

Init ==
  /\ ReactorInit(FirstMask)
  /\ AcceptorInit /\ SignalInit /\ UdpInit /\ TimerInit

Readable ==
  {e \in Events :
     \/ e = Acc /\ evfd # None /\ backlog[evfd] > 0
     \/ e \in Sigs /\ pipe[e] # <<>>
     \/ e \in Udps /\ queue[e] # <<>>
     \/ e \in Tims /\ e \in expired}

-----------------------------------------------------------------------------
(* Mutant: delev closes the object without del_listen.                     *)
delev_listens(e) ==
  /\ UserHas(e) /\ UserOp
  /\ handle_close(e)
  /\ started' = started \ {e}
  /\ UNCHANGED <<posvars, epvars, env, alive, accvars, sigvars, timvars, queue,
                 failed, inbuff, received, arrived, cut>>

(* server::delev; udpevent::del_listen does nothing when it is stopped.    *)
delev(e) ==
  /\ UserHas(e) /\ UserOp
  /\ IF e \in Udps \ started THEN UNCHANGED epvars ELSE del_event(e)
  /\ started' = started \ {e}
  /\ handle_close(e)
  /\ UNCHANGED <<posvars, env, alive, accvars, sigvars, timvars, queue, failed,
                 inbuff, received, arrived, cut>>

(* enable_listen and del_listen of a signal event or a timer.              *)
Relisten(e) ==
  /\ UserHas(e) /\ UserOp
  /\ IF e \in evlist THEN del_event(e) ELSE add_event(e)
  /\ UNCHANGED <<posvars, objvars, env, alive, accvars, sigvars, udpvars,
                 timvars>>

UserStep ==
  \/ AcceptorUser /\ UNCHANGED <<sigvars, udpvars, timvars>>
  \/ UdpUser /\ UNCHANGED <<accvars, sigvars, timvars>>
  \/ \E s \in Sigs :
       add_sev(s, Signos) /\ UNCHANGED <<accvars, udpvars, timvars>>
  \/ \E t \in Tims, ms \in Timeouts, rep \in BOOLEAN :
       add_timeev(t, ms, rep) /\ UNCHANGED <<accvars, sigvars, udpvars>>
  \/ \E e \in Objs : delev(e)
  \/ \E e \in Sigs \cup Tims : Relisten(e)

Construct == (acceptor \/ server) /\ UNCHANGED <<sigvars, udpvars, timvars>>

LoopStep ==
  \/ /\ EpollWait(Readable) \/ SweepDone \/ \E e \in Events : Dispatch(e)
     /\ UNCHANGED <<accvars, sigvars, udpvars, timvars>>
  \/ handle_accept /\ UNCHANGED <<sigvars, udpvars, timvars>>
  \/ /\ handle_read \/ ResetSlot \/ \E s \in Sigs : DestroySignal(s)
     /\ UNCHANGED <<accvars, udpvars, timvars>>
  \/ /\ handle_receive \/ \E u \in Udps : DestroyUdp(u)
     /\ UNCHANGED <<accvars, sigvars, timvars>>
  \/ /\ handle_timeout \/ TimerReturn \/ \E t \in Tims : DestroyTimer(t)
     /\ UNCHANGED <<accvars, sigvars, udpvars>>

Outside ==
  \/ \E s \in Socks :
       ClientConnects(s) /\ UNCHANGED <<sigvars, udpvars, timvars>>
  \/ \E n \in Signos : handle_signal(n) /\ UNCHANGED <<accvars, udpvars, timvars>>
  \/ \E u \in Udps : /\ DatagramArrives(u) \/ SocketError(u)
                     /\ UNCHANGED <<accvars, sigvars, timvars>>

TimerExpires ==
  \E t \in Tims : Expire(t) /\ UNCHANGED <<accvars, sigvars, udpvars>>

(* epoll_wait has nothing to report and nothing more happens, or the       *)
(* process has exited.                                                     *)
Quiet ==
  /\ ~alive \/ (at = "poll" /\ Reported(Readable) = {})
  /\ UNCHANGED vars

Start == start /\ UNCHANGED <<accvars, sigvars, udpvars, timvars>>

Next ==
  \/ Construct \/ Start \/ UserStep \/ LoopStep \/ Outside \/ TimerExpires
  \/ Quiet

(* The loop thread goes on, callbacks return and armed timers expire;      *)
(* nothing is assumed of clients, signals, datagrams or user code.         *)
Spec == Init /\ [][Next]_vars /\ WF_vars(LoopStep) /\ WF_vars(TimerExpires)

-----------------------------------------------------------------------------
Asleep == alive /\ at = "poll" /\ Reported(Readable) = {}

(* While the loop sleeps and the acceptor is listening no client waits in  *)
(* a queue of the server's port: the edge triggered handle_accept has      *)
(* taken everyone, however arrivals interleave with it and with stopping   *)
(* and resuming, unless accept failed (acceptor.cpp 70-96).  The comment   *)
(* of enable_tcp: it "starts listening for incoming TCP connections".      *)
NoClientStranded ==
  Asleep /\ Acc \in registered /\ ~broke =>
    \A s \in listening : backlog[s] = 0

(* While the loop sleeps a UDP event that is listening for input has an    *)
(* empty receive queue, however often the user changed its events or       *)
(* stopped and started it, unless handle_receive broke off                 *)
(* (udpevent.cpp 236-262, event.cpp 67-106).                               *)
NoDatagramLeft ==
  Asleep =>
    \A u \in Udps :
      u \in registered /\ "in" \in mask[u] /\ u \notin cut => queue[u] = <<>>

(* The signal handler never follows sigev_ into freed memory: the slot     *)
(* names an object that is alive or whose destructor has not returned,     *)
(* however objects come and go (signalevent.cpp 71, 80-88, 137-144).       *)
SlotLive ==
  slot # None => life[slot] = "live" \/ (at = "dtor" /\ life[slot] = "freed")

(* The datagrams of a queue that are not empty.                            *)
Data(q) ==
  LET data[i \in 0..Len(q)] ==
        IF i = 0 THEN <<>>
        ELSE IF q[i] = 0 THEN data[i - 1] ELSE Append(data[i - 1], q[i])
  IN data[Len(q)]

(* What is accepted is delivered once and in order: every signal written   *)
(* to a pipe and every datagram taken into a receive queue has reached the *)
(* user or is on its way, in the order of arrival, although several        *)
(* batches, callbacks and removals may lie in between.                     *)
DeliveredInOrder ==
  /\ \A s \in cbset \cap Sigs :
       called[s] \o (IF cur = s THEN hand ELSE <<>>) \o pipe[s] = written[s]
  /\ \A u \in Udps :
       received[u] \o inbuff[u] \o Data(queue[u]) = arrived[u]

(* evlist_ holds no pointer to a deleted event, which ~eventloop would     *)
(* delete again, except the events of UDP objects that their own event     *)
(* callback closed: the lambdas of add_udpev and addev do not call         *)
(* del_listen as delev does (server.cpp 134-144, 163-166, 184-194).        *)
EvlistLive ==
  \A e \in evlist \ {Acc} : life[e] = "live" \/ e \in started

(* A timer that is not periodic calls back at most once, although its      *)
(* descriptor is level triggered (timerevent.cpp 95-122, 146-154).         *)
OneShotOnce == \A t \in Tims \ periodic : fired[t] <= 1

Running == at \notin {"ctor", "server", "setup"}
Out(e) == ~alive \/ e \notin owned \/ e \notin evlist

(* A signal that the handler got into the pipe reaches the callback, and a *)
(* timer with a timeout other than 0 fires, unless the user stops or       *)
(* removes the event.                                                      *)
Notified ==
  /\ \A s \in Sigs, k \in 1..MaxEnv :
       (Running /\ Len(written[s]) >= k) ~> (Len(called[s]) >= k \/ Out(s))
  /\ \A t \in Tims :
       (Running /\ t \in armed) ~> (fired[t] > 0 \/ Out(t))
=============================================================================
