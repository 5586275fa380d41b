------------------------------- MODULE Reactor -------------------------------
(***************************************************************************)
(* What the events of the base loop share: the epoll instance with its     *)
(* level and edge triggered registrations, the batch that eventloop::loop  *)
(* is going through, evlist_, delque_, and the objects that server::events_*)
(* owns.  The modules Acceptor, SignalEvent, UdpEvent and TimerEvent add   *)
(* their own state and handlers; ServerFront composes them.                *)
(*                                                                         *)
(* As in EventLoop one name stands for a base_event and for the inner      *)
(* event it owns.  User code runs before start() and inside callbacks.     *)
(***************************************************************************)
EXTENDS Integers, Sequences, FiniteSetsExt

CONSTANTS
  Sigs, Udps, Tims,  \* signalevent, udpevent and timerevent objects
  Acc,               \* the event of the listening socket
  None,
  MaxEnv,            \* bound: clients, signals, datagrams, errors, expiries
  MaxOps             \* bound: calls of the library by user code

Objs == Sigs \cup Udps \cup Tims
Events == Objs \cup {Acc}

ASSUME ReactorAssumption ==
  /\ Sigs \cap Udps = {} /\ Sigs \cap Tims = {} /\ Udps \cap Tims = {}
  /\ Acc \notin Objs /\ None \notin Events
  /\ MaxEnv \in Nat

VARIABLES
  at,          \* where the loop thread is
  batch,       \* events_[i..n)
  cur,         \* the event whose handler runs
  mask,        \* events_ of each event: EPOLLIN, EPOLLET
  registered,  \* descriptors in the epoll set
  interest,    \* what epoll was told of each: a copy of mask
  edge,        \* events with an edge that epoll_wait has not reported
  evlist,      \* evlist_
  life, cbset, owned, delque,
  env, ops,    \* what is left of the bounds
  alive        \* the process has not exited

epvars == <<mask, registered, interest, edge, evlist>>
objvars == <<life, cbset, owned, delque>>
posvars == <<at, batch, cur>>
loopvars == <<posvars, epvars, objvars, env, ops, alive>>

ReactorInit(firstmask) ==
  /\ at = "ctor" /\ batch = {} /\ cur = None
  /\ mask = firstmask
  /\ registered = {} /\ interest = [e \in Events |-> {}]
  /\ edge = {} /\ evlist = {}
  /\ life = [e \in Objs |-> "unborn"]
  /\ cbset = {} /\ owned = {} /\ delque = {}
  /\ env = MaxEnv /\ ops = MaxOps /\ alive = TRUE

(* The environment acts; the handler of e is running.                      *)
Environment == alive /\ env > 0 /\ env' = env - 1
Handling(e, where) == alive /\ cur = e /\ at = where
HandlerReturns == cur' = None /\ at' = "dispatch" /\ UNCHANGED batch

(* Something arrived on the descriptor of e.                               *)
Arrive(e) == edge' = edge \cup {e}

-----------------------------------------------------------------------------
(* Both ADD and MOD make epoll look at the descriptor again.               *)
add_event(e) ==
  /\ registered' = registered \cup {e}
  /\ interest' = [interest EXCEPT ![e] = mask[e]]
  /\ edge' = edge \cup {e}
  /\ evlist' = evlist \cup {e}
  /\ UNCHANGED mask

del_event(e) ==
  /\ registered' = registered \ {e}
  /\ interest' = [interest EXCEPT ![e] = {}]
  /\ evlist' = evlist \ {e}
  /\ UNCHANGED <<mask, edge>>

(* epoll_ctl MOD of a descriptor that is not in the set only fails.        *)
mod_event(e, m) ==
  /\ mask' = [mask EXCEPT ![e] = m]
  /\ interest' = IF e \in registered THEN [interest EXCEPT ![e] = m]
                                     ELSE interest
  /\ edge' = edge \cup {e}
  /\ UNCHANGED <<registered, evlist>>

enable_events(e, op) == mod_event(e, mask[e] \cup op)
disable_events(e, op) == mod_event(e, mask[e] \ op)
update_ep(e) == mod_event(e, mask[e])

-----------------------------------------------------------------------------
UserCan == alive /\ at \in {"setup", "cb", "ecb"} /\ ops > 0
UserHas(e) == UserCan /\ e \in owned /\ ~(at = "ecb" /\ cur = e)
UserOp == ops' = ops - 1

(* new, setcb, enable_listen and events_.emplace_back of the add_ functions*)
Create(e) ==
  /\ UserCan /\ UserOp /\ life[e] = "unborn"
  /\ life' = [life EXCEPT ![e] = "live"]
  /\ cbset' = cbset \cup {e}
  /\ owned' = owned \cup {e}
  /\ add_event(e)
  /\ UNCHANGED <<posvars, delque, env, alive>>

(* A constructor that cannot have its descriptor prints why and exits.     *)
CreateFails(e) ==
  /\ UserCan /\ UserOp /\ life[e] = "unborn"
  /\ alive' = FALSE
  /\ UNCHANGED <<posvars, epvars, objvars, env>>

handle_close(e) ==
  /\ owned' = owned \ {e}
  /\ cbset' = cbset \ {e}
  /\ delque' = delque \cup {e}
  /\ UNCHANGED life

(* What every destructor does to the loop: the event is deleted and its    *)
(* descriptor closed, which takes it out of the epoll set.                 *)
Destroy(e) ==
  /\ delque' = delque \ {e}
  /\ life' = [life EXCEPT ![e] = "freed"]
  /\ registered' = registered \ {e}
  /\ interest' = [interest EXCEPT ![e] = {}]
  /\ UNCHANGED <<mask, edge, evlist, cbset, owned>>

-----------------------------------------------------------------------------
(* eventloop::loop.                                                        *)

start ==
  /\ alive /\ at = "setup" /\ at' = "poll"
  /\ UNCHANGED <<batch, cur, epvars, objvars, env, ops, alive>>

Reported(readable) ==
  {e \in registered : /\ "in" \in interest[e] /\ e \in readable
                      /\ "et" \in interest[e] => e \in edge}

EpollWait(readable) ==
  /\ alive /\ at = "poll"
  /\ batch' = Reported(readable) /\ batch' # {}
  /\ edge' = edge \ batch'
  /\ at' = "dispatch"
  /\ UNCHANGED <<cur, mask, registered, interest, evlist, objvars, env, ops,
                 alive>>

Dispatch(e) ==
  /\ alive /\ at = "dispatch" /\ e \in batch
  /\ batch' = batch \ {e} /\ cur' = e /\ at' = "handle"
  /\ UNCHANGED <<epvars, objvars, env, ops, alive>>

Sweeping == alive /\ at = "dispatch" /\ batch = {}

SweepDone ==
  /\ Sweeping /\ delque = {}
  /\ at' = "poll"
  /\ UNCHANGED <<batch, cur, epvars, objvars, env, ops, alive>>
=============================================================================
