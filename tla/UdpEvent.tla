------------------------------- MODULE UdpEvent -------------------------------
(***************************************************************************)
(* moon::udpevent as server::add_udpev makes it: an edge triggered socket  *)
(* that handle_receive empties, an input buffer that the user empties, and *)
(* an event callback that closes the object on an error.                   *)
(*                                                                         *)
(* A datagram is a number; 0 is an empty one, which recvfrom reports as 0. *)
(***************************************************************************)
EXTENDS Reactor

CONSTANT QueueCap  \* datagrams that the socket's receive queue holds

VARIABLES
  started,   \* started_
  queue,     \* the receive queue of each socket
  failed,    \* sockets with a pending error
  inbuff,    \* inbuff_, by datagrams
  received,  \* what receive() has returned to the user
  arrived,   \* data that the receive queue took in
  cut        \* the last handle_receive stopped at an empty datagram or error

udpvars == <<started, queue, failed, inbuff, received, arrived, cut>>

UdpInit ==
  /\ started = {} /\ failed = {} /\ cut = {}
  /\ queue = [u \in Udps |-> <<>>]
  /\ inbuff = queue /\ received = queue /\ arrived = queue

(* udpevent::init_sock: socket and bind, or the end of the process.        *)
udp_init_sock(u) == Create(u) \/ CreateFails(u)

add_udpev(u) ==
  /\ udp_init_sock(u)
  /\ started' = IF alive' THEN started \cup {u} ELSE started
  /\ UNCHANGED <<queue, failed, inbuff, received, arrived, cut>>

udpUnchanged == <<posvars, env, alive, queue, failed, inbuff, received,
                  arrived, cut>>

enable_listen(u) ==
  /\ UserHas(u) /\ UserOp /\ u \notin started
  /\ add_event(u)
  /\ started' = started \cup {u}
  /\ UNCHANGED <<objvars, udpUnchanged>>

del_listen(u) ==
  /\ UserHas(u) /\ UserOp /\ u \in started
  /\ del_event(u)
  /\ started' = started \ {u}
  /\ UNCHANGED <<objvars, udpUnchanged>>

(* enable_read, enable_ET, disable_read; disable_ET calls disable_read.    *)
SetEvents(u) ==
  /\ UserHas(u) /\ UserOp
  /\ \/ enable_events(u, {"in"})
     \/ enable_events(u, {"et"})
     \/ disable_events(u, {"in"})
  /\ UNCHANGED <<objvars, started, udpUnchanged>>

(* setrcb, setecb and server::modev: update_ep if listening.               *)
modev(u) ==
  /\ UserHas(u) /\ UserOp /\ u \in started
  /\ update_ep(u)
  /\ UNCHANGED <<objvars, started, udpUnchanged>>

(* receive(): the datagrams' boundaries are lost.                          *)
receive(u) ==
  /\ UserHas(u) /\ UserOp /\ inbuff[u] # <<>>
  /\ received' = [received EXCEPT ![u] = @ \o inbuff[u]]
  /\ inbuff' = [inbuff EXCEPT ![u] = <<>>]
  /\ UNCHANGED <<posvars, epvars, objvars, env, alive, started, queue, failed,
                 arrived, cut>>

(* sendto fails with a pending error, which is printed and gone.           *)
send_to(u) ==
  /\ UserHas(u) /\ UserOp
  /\ failed' = failed \ {u}
  /\ UNCHANGED <<posvars, epvars, objvars, env, alive, started, queue, inbuff,
                 received, arrived, cut>>

UdpUser ==
  \E u \in Udps :
    \/ add_udpev(u) \/ enable_listen(u) \/ del_listen(u) \/ SetEvents(u)
    \/ modev(u) \/ receive(u) \/ send_to(u)

-----------------------------------------------------------------------------
(* The kernel drops what does not fit into the queue.                      *)
DatagramArrives(u) ==
  /\ Environment /\ life[u] = "live" /\ Len(queue[u]) < QueueCap
  /\ \E d \in {0, env} :
       /\ queue' = [queue EXCEPT ![u] = Append(@, d)]
       /\ arrived' = IF d = 0 THEN arrived
                              ELSE [arrived EXCEPT ![u] = Append(@, d)]
  /\ Arrive(u)
  /\ UNCHANGED <<posvars, mask, registered, interest, evlist, objvars, ops,
                 alive, started, failed, inbuff, received, cut>>

(* An ICMP error of an earlier send_to.  Epoll reports EPOLLERR alone, for *)
(* which the inner event has no callback, so that nothing is done until    *)
(* the next recvfrom or sendto returns the error.                          *)
SocketError(u) ==
  /\ Environment /\ life[u] = "live" /\ u \notin failed
  /\ failed' = failed \cup {u}
  /\ UNCHANGED <<posvars, epvars, objvars, ops, alive, started, queue, inbuff,
                 received, arrived, cut>>

recvUnchanged == <<epvars, objvars, env, ops, alive, started, received, arrived>>

(* Mutant: one datagram is read for each event.                            *)
RecvData_once ==
  \E u \in Udps :
    /\ Handling(u, "handle") /\ u \notin failed
    /\ queue[u] # <<>> /\ Head(queue[u]) # 0
    /\ queue' = [queue EXCEPT ![u] = Tail(@)]
    /\ inbuff' = [inbuff EXCEPT ![u] = Append(@, Head(queue[u]))]
    /\ HandlerReturns
    /\ UNCHANGED <<failed, cut, recvUnchanged>>

(* n > 0: append, call back if a callback is set, and go on.               *)
RecvData ==
  \E u \in Udps :
    /\ Handling(u, "handle") /\ u \notin failed
    /\ queue[u] # <<>> /\ Head(queue[u]) # 0
    /\ queue' = [queue EXCEPT ![u] = Tail(@)]
    /\ inbuff' = [inbuff EXCEPT ![u] = Append(@, Head(queue[u]))]
    /\ at' = IF u \in cbset THEN "cb" ELSE at
    /\ UNCHANGED <<batch, cur, failed, cut, recvUnchanged>>

UdpReturn ==
  \E u \in Udps :
    /\ Handling(u, "cb") /\ at' = "handle"
    /\ UNCHANGED <<batch, cur, queue, failed, inbuff, cut, recvUnchanged>>

(* n = 0 or an error: the event callback, if set, and the end of the loop. *)
RecvStop ==
  \E u \in Udps :
    /\ Handling(u, "handle")
    /\ \/ /\ u \in failed
          /\ failed' = failed \ {u} /\ UNCHANGED queue
       \/ /\ u \notin failed /\ queue[u] # <<>> /\ Head(queue[u]) = 0
          /\ queue' = [queue EXCEPT ![u] = Tail(@)] /\ UNCHANGED failed
    /\ cut' = cut \cup {u}
    /\ IF u \in cbset THEN at' = "ecb" /\ UNCHANGED <<batch, cur>>
                      ELSE HandlerReturns
    /\ UNCHANGED <<inbuff, recvUnchanged>>

(* EAGAIN.                                                                 *)
RecvAgain ==
  \E u \in Udps :
    /\ Handling(u, "handle") /\ u \notin failed /\ queue[u] = <<>>
    /\ cut' = cut \ {u}
    /\ HandlerReturns
    /\ UNCHANGED <<queue, failed, inbuff, recvUnchanged>>

(* The callback that add_udpev installed: the user's, then handle_close.   *)
(* It captured the local variable uev by reference, which is gone: reading *)
(* it is undefined, and the process may as well die.                       *)
UdpEventcb ==
  \E u \in Udps :
    /\ Handling(u, "ecb")
    /\ HandlerReturns
    /\ \/ handle_close(u) /\ UNCHANGED alive
       \/ alive' = FALSE /\ UNCHANGED objvars
    /\ UNCHANGED <<epvars, env, ops, udpvars>>

handle_receive == RecvData \/ UdpReturn \/ RecvStop \/ RecvAgain \/ UdpEventcb

DestroyUdp(u) ==
  /\ Sweeping /\ u \in delque
  /\ Destroy(u)
  /\ UNCHANGED <<posvars, env, ops, alive, udpvars>>
=============================================================================
