------------------------------- MODULE Acceptor -------------------------------
(***************************************************************************)
(* moon::acceptor with the socket wrappers of wrap.cpp that it uses, and   *)
(* the functions of moon::server that drive it.  A listening socket holds  *)
(* the clients whose connection the kernel has completed; with             *)
(* SO_REUSEPORT several sockets may listen on the port, and the kernel     *)
(* gives each client to one of them.                                       *)
(***************************************************************************)
EXTENDS Reactor

CONSTANTS
  Socks,    \* sockets that may be created
  CtorPort  \* TRUE iff the server is constructed with a port

ASSUME AcceptorAssumption == None \notin Socks

VARIABLES
  socks,       \* descriptors in use
  reuse,       \* sockets with SO_REUSEADDR and SO_REUSEPORT
  listening,   \* sockets bound to the port that listen on it
  lfd,         \* lfd_
  evfd,        \* the descriptor of ev_
  accshut,     \* shutdown_
  tcp_enable,  \* tcp_enable_
  backlog,     \* clients waiting on each socket
  broke        \* the last handle_accept ended with an error

accvars == <<socks, reuse, listening, lfd, evfd, accshut, tcp_enable, backlog,
             broke>>
sockvars == <<socks, reuse, listening, lfd>>

AcceptorInit ==
  /\ socks = {} /\ reuse = {} /\ listening = {} /\ lfd = None /\ evfd = None
  /\ accshut = TRUE /\ tcp_enable = FALSE
  /\ backlog = [s \in Socks |-> 0] /\ broke = FALSE

-----------------------------------------------------------------------------
(* The wrappers: each ends the process when the system call fails.         *)

Socket(s) == s \notin socks /\ socks' = socks \cup {s}

setreuse(s) == reuse' = reuse \cup {s}

(* Two sockets share a port only if both allow it.                         *)
CanBind(s, ok) == listening # {} => (listening \cup {s}) \subseteq ok

Listen(s) == listening' = listening \cup {s}

perr_exit ==
  /\ alive' = FALSE
  /\ UNCHANGED <<socks, reuse, listening, lfd>>

(* Any of the calls may fail for want of resources; Bind also fails when   *)
(* the port is taken.                                                      *)
init_sock(s) ==
  \/ /\ Socket(s) /\ setreuse(s) /\ CanBind(s, reuse') /\ Listen(s)
     /\ lfd' = s
     /\ UNCHANGED alive
  \/ s \notin socks /\ perr_exit

(* acceptor::listen: the event of an earlier listen is not deleted.        *)
listen(fd) ==
  /\ evfd' = fd
  /\ add_event(Acc)
  /\ accshut' = FALSE

(* acceptor_(port, &base_) in server's initialisers, then server's body.   *)
acceptor ==
  /\ alive /\ at = "ctor"
  /\ IF CtorPort THEN \E s \in Socks : init_sock(s)
                 ELSE UNCHANGED <<sockvars, alive>>
  /\ at' = "server"
  /\ UNCHANGED <<batch, cur, epvars, objvars, env, ops, evfd, accshut,
                 tcp_enable, backlog, broke>>

EnableTcp ==
  /\ \E s \in Socks : init_sock(s)
  /\ IF alive' THEN listen(lfd') /\ tcp_enable' = TRUE
               ELSE UNCHANGED <<epvars, evfd, accshut, tcp_enable>>
  /\ UNCHANGED <<backlog, broke>>

server ==
  /\ alive /\ at = "server"
  /\ IF CtorPort THEN EnableTcp ELSE UNCHANGED <<epvars, accvars, alive>>
  /\ at' = "setup"
  /\ UNCHANGED <<batch, cur, objvars, env, ops>>

enable_tcp ==
  /\ UserCan /\ UserOp /\ ~tcp_enable
  /\ EnableTcp
  /\ UNCHANGED <<posvars, objvars, env>>

(* The user stops and resumes accepting once TCP is enabled.               *)
enable_tcp_accept ==
  /\ UserCan /\ UserOp /\ tcp_enable /\ accshut
  /\ listen(lfd)
  /\ UNCHANGED <<posvars, objvars, env, alive, sockvars, tcp_enable, backlog,
                 broke>>

disable_tcp_accept ==
  /\ UserCan /\ UserOp /\ tcp_enable /\ ~accshut
  /\ del_event(Acc)
  /\ accshut' = TRUE
  /\ UNCHANGED <<posvars, objvars, env, alive, sockvars, evfd, tcp_enable,
                 backlog, broke>>

AcceptorUser == enable_tcp \/ enable_tcp_accept \/ disable_tcp_accept

-----------------------------------------------------------------------------
ClientConnects(s) ==
  /\ Environment /\ s \in listening
  /\ backlog' = [backlog EXCEPT ![s] = @ + 1]
  /\ IF s = evfd THEN Arrive(Acc) ELSE UNCHANGED edge
  /\ UNCHANGED <<posvars, mask, registered, interest, evlist, objvars, ops,
                 alive, sockvars, evfd, accshut, tcp_enable, broke>>

accRest == <<epvars, objvars, ops, sockvars, evfd, accshut, tcp_enable>>
accUnchanged == <<accRest, alive>>

(* Mutant: one connection is accepted for each event.                      *)
AcceptOne_once ==
  /\ Handling(Acc, "handle") /\ backlog[lfd] > 0
  /\ backlog' = [backlog EXCEPT ![lfd] = @ - 1]
  /\ HandlerReturns
  /\ UNCHANGED <<env, broke, accUnchanged>>

(* accept returns a connection; settcpnodelay ends the process if it       *)
(* fails, and otherwise cb_ is server::acceptcb_ (ServerPool).             *)
AcceptOne ==
  /\ Handling(Acc, "handle") /\ backlog[lfd] > 0
  /\ backlog' = [backlog EXCEPT ![lfd] = @ - 1]
  /\ alive' \in BOOLEAN
  /\ UNCHANGED <<posvars, env, broke, accRest>>

(* EAGAIN: there are no more connections.                                  *)
AcceptAgain ==
  /\ Handling(Acc, "handle") /\ backlog[lfd] = 0
  /\ broke' = FALSE
  /\ HandlerReturns
  /\ UNCHANGED <<env, backlog, accUnchanged>>

(* Any other error ends the loop as well: ECONNABORTED takes a client out  *)
(* of the queue, EMFILE does not.                                          *)
AcceptError ==
  /\ Handling(Acc, "handle") /\ Environment
  /\ \E gone \in {0, 1} :
       /\ backlog[lfd] > 0
       /\ backlog' = [backlog EXCEPT ![lfd] = @ - gone]
  /\ broke' = TRUE
  /\ HandlerReturns
  /\ UNCHANGED accUnchanged

handle_accept == AcceptOne \/ AcceptAgain \/ AcceptError
=============================================================================
