------------------------------ MODULE TimerEvent ------------------------------
(***************************************************************************)
(* moon::timerevent: a timerfd, level triggered, whose expirations add up  *)
(* until handle_timeout reads them.                                        *)
(***************************************************************************)
EXTENDS Reactor

CONSTANT Timeouts  \* values of timeout_ms

VARIABLES
  armed,     \* timers that will expire
  periodic,  \* timers with an interval
  expired,   \* timers with expirations that have not been read
  fired      \* calls of each timer's callback, counted up to 2

timvars == <<armed, periodic, expired, fired>>

TimerInit ==
  /\ armed = {} /\ periodic = {} /\ expired = {}
  /\ fired = [t \in Tims |-> 0]

(* it_value and it_interval; timerfd_settime with 0 disarms the timer.     *)
timespec(ms) == [sec |-> ms \div 1000, nsec |-> (ms % 1000) * 1000000]
Disarms(v) == v.sec = 0 /\ v.nsec = 0

(* timerevent::_init_: it_value from timeout_ms_, and it_interval only if  *)
(* the timer is periodic; or the end of the process.                       *)
_init_(t, ms, rep) ==
  \/ /\ Create(t)
     /\ armed' = IF Disarms(timespec(ms)) THEN armed ELSE armed \cup {t}
     /\ periodic' = IF rep THEN periodic \cup {t} ELSE periodic
  \/ CreateFails(t) /\ UNCHANGED <<armed, periodic>>

add_timeev(t, ms, rep) ==
  /\ _init_(t, ms, rep)
  /\ UNCHANGED <<expired, fired>>

(* Expirations add up: the descriptor stays readable.                      *)
Expire(t) ==
  /\ alive /\ t \in armed /\ life[t] = "live" /\ t \notin expired
  /\ expired' = expired \cup {t}
  /\ armed' = IF t \in periodic THEN armed ELSE armed \ {t}
  /\ Arrive(t)
  /\ UNCHANGED <<posvars, mask, registered, interest, evlist, objvars, env,
                 ops, alive, periodic, fired>>

timUnchanged == <<epvars, objvars, env, ops, alive, armed, periodic>>

CallTimer(t) ==
  IF t \in expired /\ t \in cbset
  THEN /\ fired' = [fired EXCEPT ![t] = Min({2, @ + 1})]
       /\ at' = "cb" /\ UNCHANGED <<batch, cur>>
  ELSE HandlerReturns /\ UNCHANGED fired

(* Mutant: the expirations are not read.                                   *)
handle_timeout_unread ==
  \E t \in Tims :
    /\ Handling(t, "handle")
    /\ CallTimer(t)
    /\ UNCHANGED <<expired, timUnchanged>>

(* read fails and the callback is left out if there is nothing to read.    *)
handle_timeout ==
  \E t \in Tims :
    /\ Handling(t, "handle")
    /\ expired' = expired \ {t}
    /\ CallTimer(t)
    /\ UNCHANGED timUnchanged

TimerReturn ==
  \E t \in Tims :
    /\ Handling(t, "cb")
    /\ HandlerReturns
    /\ UNCHANGED <<expired, fired, timUnchanged>>

DestroyTimer(t) ==
  /\ Sweeping /\ t \in delque
  /\ Destroy(t)
  /\ UNCHANGED <<posvars, env, ops, alive, timvars>>
=============================================================================
