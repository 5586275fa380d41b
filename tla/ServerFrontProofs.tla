------------------------- MODULE ServerFrontProofs -------------------------
(***************************************************************************)
(* What the base loop of a server promises of its signal events, UDP       *)
(* events, timers and acceptor, for any number of each. Every property     *)
(* needs the loop's own bookkeeping (LoopInv), so one invariant, IndInv,   *)
(* carries them all; each lemma ...Keeps is about one of its parts.        *)
(***************************************************************************)
EXTENDS ServerFront, SequenceTheorems, WellFoundedInduction, TLAPS

(* The event bits that the model tells apart: EPOLLIN and EPOLLET.         *)
Flags == {"in", "et"}

(* The loop thread is inside the handler of cur.                           *)
InHandler == at \in {"handle", "bytes", "cb", "ecb"} /\ cur # None

(* The event exists and is not deleted; the acceptor's is never deleted.   *)
Live(e) == e = Acc \/ life[e] = "live"

(* The values that the loop's variables take.                              *)
LoopTypes ==
  /\ batch \subseteq Events /\ cur \in Events \cup {None}
  /\ mask \in [Events -> SUBSET Flags] /\ interest \in [Events -> SUBSET Flags]
  /\ registered \subseteq Events /\ evlist \subseteq Events
  /\ life \in [Objs -> {"unborn", "live", "freed"}]
  /\ owned \subseteq Objs /\ delque \subseteq Objs /\ cbset \subseteq Objs
  /\ env \in Nat

(* Where the loop thread is.                                               *)
Place ==
  /\ at \in {"ctor", "server", "setup", "poll"} => batch = {} /\ cur = None
  /\ at = "dispatch" => cur = None
  /\ at = "dtor" => batch = {} /\ cur \in Sigs
  /\ at = "ecb" => cur \in Udps
  /\ at = "bytes" => cur \in Sigs
  /\ at = "cb" => cur \in Objs

(* No list holds a pointer to a deleted event: only the sweep deletes, and *)
(* it begins when the batch has been gone through.                         *)
Pointers ==
  /\ \A e \in batch \cup registered : Live(e)
  /\ InHandler => Live(cur)
  /\ \A e \in owned \cup delque : life[e] = "live"
  /\ owned \cap delque = {}
  /\ \A e \in evlist \ {Acc} : e \in owned \/ e \in Udps
  /\ evlist \cap Udps \subseteq started

(* The static slot that the signal handler reads is empty or names an      *)
(* object that exists.                                                     *)
SlotInv == slot \in Sigs \cup {None} /\ SlotLive

(* A timer that is not periodic is set, has run out or has called back, in *)
(* this order, and is in one of these states only.                         *)
TimerInv ==
  /\ fired \in [Tims -> Nat]
  /\ \A t \in Tims \ periodic :
       /\ t \in armed => t \notin expired /\ fired[t] = 0
       /\ t \in expired => fired[t] = 0
       /\ fired[t] <= 1
       /\ life[t] = "unborn" => t \notin armed \cup expired /\ fired[t] = 0

(* What epoll was told is what the event asks for.                         *)
Told == \A e \in registered : interest[e] = mask[e]

(* The loop still has to look at e.                                        *)
Owed(e) ==
  \/ e \in edge \cup batch
  \/ cur = e /\ at \in {"handle", "cb"}

(* What is in a receive queue will be looked at.                           *)
DatagramInv ==
  /\ queue \in [Udps -> Seq(Nat)]
  /\ \A u \in Udps : queue[u] # <<>> => u \in cut \/ Owed(u)

(* Once TCP is enabled lfd_ listens and ev_ is its event; no other socket  *)
(* listens unless the server was constructed with a port.                  *)
OneSocket ==
  /\ at = "ctor" => ~tcp_enable
  /\ alive /\ tcp_enable => lfd \in Socks \cap listening /\ evfd = lfd
  /\ ~CtorPort /\ alive => listening = IF tcp_enable THEN {lfd} ELSE {}

(* The clients of lfd_ will be accepted.                                   *)
ClientInv ==
  /\ backlog \in [Socks -> Nat]
  /\ alive /\ tcp_enable /\ ~broke => backlog[lfd] = 0 \/ Owed(Acc)

(* Three sequences in a row.                                               *)
Row(a, b, c) == (a \o b) \o c

(* The bytes that handle_read of s has read and not yet gone through.      *)
InHand(s) == IF cur = s THEN hand ELSE <<>>

(* What was written to a pipe has been handed to the callback, is in       *)
(* handle_read's hands or is in the pipe, in this order.                   *)
SignalTypes ==
  /\ pipe \in [Sigs -> Seq(Signos)] /\ called \in [Sigs -> Seq(Signos)]
  /\ written \in [Sigs -> Seq(Signos)] /\ hand \in Seq(Signos)

(* The bytes of a signal event are in one row, and handle_read holds some  *)
(* only while it goes through them.                                        *)
SignalInv ==
  /\ SignalTypes
  /\ hand # <<>> => at \in {"bytes", "cb"} /\ cur \in Sigs
  /\ \A s \in Sigs :
       /\ s \in cbset => Row(called[s], InHand(s), pipe[s]) = written[s]
       /\ life[s] = "unborn" =>
            called[s] = <<>> /\ pipe[s] = <<>> /\ written[s] = <<>>

(* The same of the data in a receive queue.                                *)
UdpInv ==
  /\ received \in [Udps -> Seq(Nat)] /\ inbuff \in [Udps -> Seq(Nat)]
  /\ arrived \in [Udps -> Seq(Nat)]
  /\ \A u \in Udps : Row(received[u], inbuff[u], Data(queue[u])) = arrived[u]

(* The loop's part of the invariant.                                       *)
LoopInv == LoopTypes /\ Place /\ Pointers

-----------------------------------------------------------------------------
(* The lesser of two numbers, as FiniteSetsExt defines it.                 *)
LEMMA MinOfTwo ==
  ASSUME NEW a \in Nat, NEW b \in Nat
  PROVE  Min({a, b}) = IF a <= b THEN a ELSE b
  BY DEF Min

-----------------------------------------------------------------------------
(* A step inside the handler of cur, which returns, calls back or goes on; *)
(* at most it closes cur, if that is a UDP event.                          *)
InsideHandler ==
  /\ UNCHANGED <<batch, epvars, life, started, env>>
  /\ UNCHANGED objvars \/ (cur \in Udps /\ at = "ecb" /\ handle_close(cur))
  /\ \/ cur' = None /\ at' = "dispatch"
     \/ /\ cur' = cur /\ cur \in Objs
        /\ at \in {"handle", "bytes", "cb"} /\ at' \in {"handle", "cb"}
     \/ /\ cur' = cur /\ cur \in Sigs
        /\ at \in {"handle", "bytes", "cb"} /\ at' = "bytes"
     \/ cur' = cur /\ cur \in Udps /\ at = "handle" /\ at' = "ecb"

(* The handlers of the objects take such steps.                            *)
LEMMA HandlersInside ==
  ASSUME \/ handle_receive
         \/ /\ handle_read \/ ResetSlot \/ handle_timeout \/ TimerReturn
            /\ UNCHANGED udpvars
  PROVE  InsideHandler
<1> USE DEF Handling, HandlerReturns
<1>1. CASE RecvData
  BY <1>1 DEF RecvData, recvUnchanged, InsideHandler, objvars, Objs
<1>2. CASE RecvStop
  BY <1>2 DEF RecvStop, recvUnchanged, InsideHandler, objvars
<1>3. CASE RecvAgain \/ UdpReturn
  BY <1>3 DEF RecvAgain, UdpReturn, recvUnchanged, InsideHandler, objvars, Objs
<1>4. CASE UdpEventcb
  <2>1. PICK u \in Udps :
          /\ cur = u /\ at = "ecb" /\ HandlerReturns
          /\ UNCHANGED <<epvars, env, udpvars>>
          /\ handle_close(u) \/ UNCHANGED objvars
    BY <1>4 DEF UdpEventcb
  <2>2. UNCHANGED life /\ (handle_close(cur) \/ UNCHANGED objvars)
    BY <2>1 DEF handle_close, objvars
  <2> QED BY <2>1, <2>2 DEF InsideHandler, udpvars
<1>5. CASE handle_read /\ UNCHANGED udpvars
  <2>1. CASE ReadPipe
    BY <1>5, <2>1 DEF ReadPipe, sigUnchanged, InsideHandler, udpvars, objvars
  <2>2. CASE NextByte
    BY <1>5, <2>2
       DEF NextByte, sigUnchanged, InsideHandler, udpvars, objvars, Objs
  <2>3. CASE SignalReturn \/ ReadDone
    BY <1>5, <2>3
       DEF SignalReturn, ReadDone, sigUnchanged, InsideHandler, udpvars,
           objvars
  <2> QED BY ONLY <1>5, <2>1, <2>2, <2>3 DEF handle_read
<1>6. CASE ResetSlot /\ UNCHANGED udpvars
  BY <1>6 DEF ResetSlot, InsideHandler, udpvars, objvars
<1>7. CASE (handle_timeout \/ TimerReturn) /\ UNCHANGED udpvars
  BY <1>7
     DEF handle_timeout, CallTimer, TimerReturn, timUnchanged, InsideHandler,
         udpvars, objvars, Objs
<1> QED BY <1>1, <1>2, <1>3, <1>4, <1>5, <1>6, <1>7 DEF handle_receive

-----------------------------------------------------------------------------
(* Every step keeps the lists of the loop free of deleted events.          *)
LEMMA LoopStepKeeps ==
  ASSUME LoopInv, [Next]_vars
  PROVE  LoopInv'
<1> USE ReactorAssumption DEF LoopInv, LoopTypes, Place, Pointers, Live,
      InHandler, Objs, Events, Flags
<1> USE DEF posvars, epvars, objvars, udpvars
<1>1. CASE UNCHANGED vars
  BY <1>1 DEF vars, loopvars
<1>2. CASE Construct \/ Start
  BY <1>2
     DEF Construct, Start, start, acceptor, server, EnableTcp, listen,
         add_event
<1>3. CASE AcceptorUser /\ UNCHANGED udpvars
  BY <1>3
     DEF AcceptorUser, enable_tcp, enable_tcp_accept, disable_tcp_accept,
         EnableTcp, listen, add_event, del_event
<1>4. ASSUME NEW e \in Objs, Create(e), started \subseteq started',
             e \in Udps => e \in started'
      PROVE  LoopInv'
  BY <1>4 DEF Create, add_event
<1>5. ASSUME NEW e \in Objs, CreateFails(e), UNCHANGED started
      PROVE  LoopInv'
  BY <1>5 DEF CreateFails
<1>6. ASSUME NEW u \in Udps,
             \/ enable_listen(u) \/ del_listen(u) \/ SetEvents(u)
             \/ modev(u) \/ receive(u) \/ send_to(u)
      PROVE  LoopInv'
  <2>1. CASE enable_listen(u) \/ del_listen(u)
    BY <2>1
       DEF enable_listen, del_listen, add_event, del_event, UserHas,
           udpUnchanged
  <2>2. ASSUME NEW m \in SUBSET Flags, mod_event(u, m),
               UNCHANGED <<objvars, started, udpUnchanged>>
        PROVE  LoopInv'
    BY <2>2 DEF mod_event, udpUnchanged
  <2>3. CASE SetEvents(u)
    <3>1. PICK m \in SUBSET Flags : mod_event(u, m)
      BY <2>3 DEF SetEvents, enable_events, disable_events
    <3> QED BY <3>1, <2>2, <2>3 DEF SetEvents
  <2>4. CASE modev(u)
    BY <2>2, <2>4 DEF modev, update_ep
  <2>5. CASE receive(u) \/ send_to(u)
    <3>1. UNCHANGED <<posvars, epvars, objvars, started>> /\ env' = env
      BY <2>5 DEF receive, send_to, udpUnchanged
    <3> QED BY <3>1
  <2> QED BY ONLY <1>6, <2>1, <2>3, <2>4, <2>5
<1>7. ASSUME NEW e \in Objs, delev(e)
      PROVE  LoopInv'
  BY <1>7 DEF delev, del_event, handle_close, UserHas
<1>8. ASSUME NEW e \in Sigs \cup Tims, Relisten(e)
      PROVE  LoopInv'
  BY <1>8 DEF Relisten, add_event, del_event, UserHas
<1>9. CASE EpollWait(Readable) /\ UNCHANGED udpvars
  BY <1>9 DEF EpollWait, Reported
<1>10. CASE SweepDone /\ UNCHANGED udpvars
  BY <1>10 DEF SweepDone, Sweeping
<1>11. ASSUME NEW e \in Events, Dispatch(e), UNCHANGED udpvars
       PROVE  LoopInv'
  BY <1>11 DEF Dispatch
<1>12. CASE handle_accept /\ UNCHANGED udpvars
  BY <1>12
     DEF handle_accept, AcceptOne, AcceptAgain, AcceptError, HandlerReturns,
         accUnchanged, accRest, Environment
<1>13. CASE InsideHandler
  <2>1. UNCHANGED <<batch, epvars, life, started, env>>
    BY <1>13 DEF InsideHandler
  <2>2. /\ owned' \subseteq Objs /\ delque' \subseteq Objs
        /\ cbset' \subseteq Objs
        /\ owned' \cap delque' = {} /\ owned \ owned' \subseteq Udps
        /\ \A e \in owned' \cup delque' : life[e] = "live"
    <3>1. CASE UNCHANGED objvars
      BY <3>1
    <3>2. CASE cur \in Udps /\ at = "ecb" /\ handle_close(cur)
      <4>1. life[cur] = "live"
        BY <3>2
      <4> QED BY <3>2, <4>1 DEF handle_close
    <3> QED BY ONLY <1>13, <3>1, <3>2 DEF InsideHandler
  <2>3. LoopTypes' /\ Place'
    <3>1. cur' \in Events \cup {None}
      BY <1>13 DEF InsideHandler
    <3>2. LoopTypes'
      BY <2>1, <2>2, <3>1
    <3>3. Place'
      BY <1>13, <2>1 DEF InsideHandler
    <3> QED BY ONLY <3>2, <3>3
  <2>4. Pointers'
    <3>1. InHandler' => InHandler /\ cur' = cur
      BY <1>13 DEF InsideHandler
    <3> QED BY <2>1, <2>2, <3>1
  <2> QED BY ONLY <2>3, <2>4
<1>14. CASE handle_receive
  BY ONLY <1>13, <1>14, HandlersInside
<1>15. CASE /\ handle_read \/ ResetSlot \/ handle_timeout \/ TimerReturn
            /\ UNCHANGED udpvars
  BY ONLY <1>13, <1>15, HandlersInside
<1>16. ASSUME NEW e \in Objs, Sweeping, e \in delque, Destroy(e),
              UNCHANGED <<batch, udpvars, env>>,
              UNCHANGED <<at, cur>> \/ (at' = "dtor" /\ cur' = e /\ e \in Sigs)
       PROVE  LoopInv'
  BY <1>16 DEF Destroy, Sweeping
<1>17. CASE Outside
  BY <1>17
     DEF Outside, ClientConnects, handle_signal, DatagramArrives, SocketError,
         Environment
<1>18. CASE TimerExpires
  BY <1>18 DEF TimerExpires, Expire
<1>19. CASE UserStep
  <2>1. ASSUME NEW u \in Udps, add_udpev(u)
        PROVE  LoopInv'
    <3>1. CASE Create(u)
      BY <2>1, <3>1, <1>4 DEF add_udpev, Create, UserCan
    <3>2. CASE CreateFails(u)
      BY <2>1, <3>2, <1>5 DEF add_udpev, CreateFails
    <3> QED BY <2>1, <3>1, <3>2 DEF add_udpev, udp_init_sock
  <2>2. ASSUME NEW s \in Sigs, add_sev(s, Signos), UNCHANGED udpvars
        PROVE  LoopInv'
    BY <2>2, <1>4, <1>5 DEF add_sev, signalevent
  <2>3. ASSUME NEW t \in Tims, NEW ms, NEW rep, add_timeev(t, ms, rep),
               UNCHANGED udpvars
        PROVE  LoopInv'
    BY <2>3, <1>4, <1>5 DEF add_timeev, _init_
  <2> QED BY <1>19, <1>3, <1>6, <1>7, <1>8, <2>1, <2>2, <2>3
             DEF UserStep, UdpUser
<1>20. CASE LoopStep
  <2>1. ASSUME NEW s \in Sigs, DestroySignal(s), UNCHANGED udpvars
        PROVE  LoopInv'
    BY <2>1, <1>16 DEF DestroySignal
  <2>2. ASSUME NEW u \in Udps, DestroyUdp(u)
        PROVE  LoopInv'
    BY <2>2, <1>16 DEF DestroyUdp
  <2>3. ASSUME NEW t \in Tims, DestroyTimer(t), UNCHANGED udpvars
        PROVE  LoopInv'
    BY <2>3, <1>16 DEF DestroyTimer
  <2> QED BY <1>20, <1>9, <1>10, <1>11, <1>12, <1>13, <1>14, <1>15, <2>1,
             <2>2, <2>3 DEF LoopStep
<1> QED BY <1>1, <1>2, <1>17, <1>18, <1>19, <1>20 DEF Next, Quiet

-----------------------------------------------------------------------------
(* The steps by the component that takes them.                             *)
AcceptorStep ==
  /\ \/ acceptor \/ server \/ AcceptorUser \/ handle_accept
     \/ \E s \in Socks : ClientConnects(s)
  /\ UNCHANGED <<sigvars, udpvars, timvars>>

(* A step of a signal event, its handler or the kernel's delivery.         *)
SignalStep ==
  /\ \/ \E s \in Sigs : add_sev(s, Signos) \/ DestroySignal(s)
     \/ handle_read \/ ResetSlot
     \/ \E n \in Signos : handle_signal(n)
  /\ UNCHANGED <<accvars, udpvars, timvars>>

(* A step of a UDP event or its socket.                                    *)
UdpStep ==
  /\ \/ UdpUser \/ handle_receive
     \/ \E u \in Udps : DestroyUdp(u) \/ DatagramArrives(u) \/ SocketError(u)
  /\ UNCHANGED <<accvars, sigvars, timvars>>

(* A step of a timer.                                                      *)
TimerStep ==
  /\ \/ \E t \in Tims, ms \in Timeouts, rep \in BOOLEAN :
          add_timeev(t, ms, rep)
     \/ handle_timeout \/ TimerReturn
     \/ \E t \in Tims : DestroyTimer(t) \/ Expire(t)
  /\ UNCHANGED <<accvars, sigvars, udpvars>>

(* A step of the loop itself.                                              *)
PollStep ==
  /\ \/ start \/ EpollWait(Readable) \/ SweepDone
     \/ \E e \in Events : Dispatch(e)
  /\ UNCHANGED <<accvars, sigvars, udpvars, timvars>>

(* Every step is one of these, a delev or a Relisten.                      *)
LEMMA StepKinds ==
  ASSUME [Next]_vars
  PROVE  \/ AcceptorStep \/ SignalStep \/ UdpStep \/ TimerStep \/ PollStep
         \/ \E e \in Objs : delev(e)
         \/ \E e \in Sigs \cup Tims : Relisten(e)
         \/ UNCHANGED vars
<1>1. CASE Construct \/ Start \/ Outside \/ TimerExpires \/ Quiet
  BY <1>1
     DEF Construct, Start, Outside, TimerExpires, Quiet, AcceptorStep,
         PollStep, SignalStep, UdpStep, TimerStep
<1>2. CASE UserStep
  BY <1>2 DEF UserStep, AcceptorStep, SignalStep, UdpStep, TimerStep
<1>3. CASE LoopStep
  BY <1>3 DEF LoopStep, AcceptorStep, PollStep, SignalStep, UdpStep, TimerStep
<1> QED BY <1>1, <1>2, <1>3 DEF Next

(* The slot of the signal handler.                                         *)
LEMMA SlotStep ==
  ASSUME LoopInv, SlotInv, [Next]_vars
  PROVE  SlotInv'
<1> USE ReactorAssumption DEF SlotInv, SlotLive, Objs
<1> USE DEF posvars, objvars, sigvars
<1>0. life \in [Objs -> {"unborn", "live", "freed"}]
  BY DEF LoopInv, LoopTypes
<1>1. ASSUME UNCHANGED <<life, slot>>, at' = at \/ at # "dtor"
      PROVE  SlotInv'
  BY <1>1
<1>2. ASSUME NEW e \in Objs, Create(e),
             UNCHANGED slot \/ (slot' = e /\ e \in Sigs)
      PROVE  SlotInv'
  BY <1>0, <1>2 DEF Create
<1>3. ASSUME NEW e \in Objs, Sweeping, Destroy(e), UNCHANGED slot,
             e \in Sigs => at' = "dtor"
      PROVE  SlotInv'
  BY <1>0, <1>3 DEF Destroy, Sweeping
<1>4. CASE AcceptorStep
  <2>1. UNCHANGED <<life, slot>> /\ (at' = at \/ at # "dtor")
    BY <1>4
       DEF AcceptorStep, acceptor, server, AcceptorUser, enable_tcp,
           enable_tcp_accept, disable_tcp_accept, handle_accept, AcceptOne,
           AcceptAgain, AcceptError, Handling, accUnchanged, accRest,
           ClientConnects
  <2> QED BY <2>1, <1>1
<1>5. CASE SignalStep
  <2>1. ASSUME NEW s \in Sigs, add_sev(s, Signos)
        PROVE  SlotInv'
    <3>1. CASE Create(s) /\ slot' = s
      BY <3>1, <1>2
    <3>2. CASE CreateFails(s) /\ UNCHANGED slot
      BY <3>2, <1>1 DEF CreateFails
    <3> QED BY <2>1, <3>1, <3>2 DEF add_sev, signalevent
  <2>2. ASSUME NEW s \in Sigs, DestroySignal(s)
        PROVE  SlotInv'
    BY <2>2, <1>3 DEF DestroySignal
  <2>3. CASE ResetSlot
    BY <2>3 DEF ResetSlot
  <2>4. CASE handle_read \/ \E n \in Signos : handle_signal(n)
    <3>1. UNCHANGED <<life, slot>> /\ (at' = at \/ at # "dtor")
      BY <2>4
         DEF handle_read, ReadPipe, NextByte, SignalReturn, ReadDone, Handling,
             sigUnchanged, handle_signal
    <3> QED BY <3>1, <1>1
  <2> QED BY <1>5, <2>1, <2>2, <2>3, <2>4 DEF SignalStep
<1>6. CASE UdpStep
  <2>1. ASSUME NEW u \in Udps, add_udpev(u)
        PROVE  SlotInv'
    BY <2>1, <1>1, <1>2, <1>6
       DEF add_udpev, udp_init_sock, CreateFails, UdpStep
  <2>2. ASSUME NEW u \in Udps, DestroyUdp(u)
        PROVE  SlotInv'
    BY <2>2, <1>3, <1>6 DEF DestroyUdp, UdpStep
  <2>3. ASSUME NEW u \in Udps,
               \/ enable_listen(u) \/ del_listen(u) \/ SetEvents(u)
               \/ modev(u) \/ receive(u) \/ send_to(u)
               \/ DatagramArrives(u) \/ SocketError(u)
        PROVE  SlotInv'
    <3>1. UNCHANGED <<life, at>>
      BY <2>3
         DEF enable_listen, del_listen, SetEvents, modev, receive, send_to,
             udpUnchanged, DatagramArrives, SocketError
    <3> QED BY <3>1, <1>1, <1>6 DEF UdpStep
  <2>4. CASE handle_receive
    <3>1. UNCHANGED life /\ at # "dtor"
      BY <2>4
         DEF handle_receive, RecvData, UdpReturn, RecvStop, RecvAgain,
             UdpEventcb, handle_close, Handling, recvUnchanged
    <3> QED BY <3>1, <1>1, <1>6 DEF UdpStep
  <2> QED BY <1>6, <2>1, <2>2, <2>3, <2>4 DEF UdpStep, UdpUser
<1>7. CASE TimerStep
  <2>1. ASSUME NEW t \in Tims, NEW ms, NEW rep, add_timeev(t, ms, rep)
        PROVE  SlotInv'
    BY <2>1, <1>1, <1>2, <1>7 DEF add_timeev, _init_, CreateFails, TimerStep
  <2>2. ASSUME NEW t \in Tims, DestroyTimer(t)
        PROVE  SlotInv'
    BY <2>2, <1>3, <1>7 DEF DestroyTimer, TimerStep
  <2>3. CASE handle_timeout \/ TimerReturn \/ \E t \in Tims : Expire(t)
    <3>1. UNCHANGED life /\ (at' = at \/ at # "dtor")
      BY <2>3 DEF handle_timeout, TimerReturn, Expire, Handling, timUnchanged
    <3> QED BY <3>1, <1>1, <1>7 DEF TimerStep
  <2> QED BY <1>7, <2>1, <2>2, <2>3 DEF TimerStep
<1>8. CASE PollStep
  <2>1. UNCHANGED <<life, slot>> /\ (at' = at \/ at # "dtor")
    BY <1>8 DEF PollStep, start, EpollWait, SweepDone, Dispatch, Sweeping
  <2> QED BY <2>1, <1>1
<1>9. ASSUME NEW e \in Objs, delev(e) \/ Relisten(e)
      PROVE  SlotInv'
  BY <1>1, <1>9 DEF delev, handle_close, Relisten
<1>10. CASE UNCHANGED vars
  BY <1>1, <1>10 DEF vars, loopvars
<1> QED BY <1>4, <1>5, <1>6, <1>7, <1>8, <1>9, <1>10, StepKinds

-----------------------------------------------------------------------------
(* An object is constructed, or swept, or nothing is.                      *)
LEMMA LifeCases ==
  ASSUME [Next]_vars
  PROVE  \/ life' = life /\ cbset' \subseteq cbset
         \/ \E e \in Objs : Create(e)
         \/ \E e \in Objs : Sweeping /\ Destroy(e)
<1> USE DEF objvars, Objs
<1>1. CASE AcceptorStep
  BY <1>1
     DEF AcceptorStep, acceptor, server, AcceptorUser, enable_tcp,
         enable_tcp_accept, disable_tcp_accept, handle_accept, AcceptOne,
         AcceptAgain, AcceptError, accUnchanged, accRest, ClientConnects
<1>2. CASE SignalStep
  BY <1>2
     DEF SignalStep, add_sev, signalevent, CreateFails, DestroySignal,
         ResetSlot, handle_read, ReadPipe, NextByte, SignalReturn, ReadDone,
         sigUnchanged, handle_signal
<1>3. CASE UdpStep
  <2>1. CASE UdpUser
    BY <2>1
       DEF UdpUser, add_udpev, udp_init_sock, CreateFails, enable_listen,
           del_listen, SetEvents, modev, receive, send_to
  <2>2. CASE handle_receive
    BY <2>2
       DEF handle_receive, RecvData, UdpReturn, RecvStop, RecvAgain,
           UdpEventcb, handle_close, recvUnchanged
  <2> QED BY <1>3, <2>1, <2>2
             DEF UdpStep, DestroyUdp, DatagramArrives, SocketError
<1>4. CASE TimerStep
  BY <1>4
     DEF TimerStep, add_timeev, _init_, CreateFails, handle_timeout,
         TimerReturn, timUnchanged, DestroyTimer, Expire
<1>5. CASE PollStep
  BY <1>5 DEF PollStep, start, EpollWait, SweepDone, Dispatch
<1>6. ASSUME NEW e \in Objs, delev(e) \/ Relisten(e)
      PROVE  life' = life /\ cbset' \subseteq cbset
  BY <1>6 DEF delev, handle_close, Relisten
<1>7. CASE UNCHANGED vars
  BY <1>7 DEF vars, loopvars
<1> QED BY <1>1, <1>2, <1>3, <1>4, <1>5, <1>6, <1>7, StepKinds

(* Nothing is unborn again.                                                *)
LEMMA BornOnce ==
  ASSUME LoopInv, [Next]_vars, NEW e \in Objs, life'[e] = "unborn"
  PROVE  life[e] = "unborn"
<1>0. life \in [Objs -> {"unborn", "live", "freed"}]
  BY DEF LoopInv, LoopTypes
<1>1. ASSUME NEW f \in Objs, Create(f) \/ Destroy(f)
      PROVE  life[e] = "unborn"
  BY <1>0, <1>1 DEF Create, Destroy
<1> QED BY <1>1, LifeCases

-----------------------------------------------------------------------------
(* The timers.                                                             *)
LEMMA TimerStepKeeps ==
  ASSUME LoopInv, TimerInv, [Next]_vars
  PROVE  TimerInv'
<1> USE DEF timvars, TimerInv
<1>0. life \in [Objs -> {"unborn", "live", "freed"}] /\ Tims \subseteq Objs
  BY DEF LoopInv, LoopTypes, Objs
<1>1. ASSUME UNCHANGED timvars
      PROVE  TimerInv'
  BY <1>0, <1>1, BornOnce
<1>2. CASE TimerStep
  <2>1. ASSUME NEW t \in Tims, NEW ms, NEW rep, add_timeev(t, ms, rep)
        PROVE  TimerInv'
    <3>1. CASE CreateFails(t) /\ UNCHANGED <<armed, periodic>>
      BY <2>1, <3>1, <1>1 DEF add_timeev
    <3>2. CASE Create(t) /\ periodic \subseteq periodic'
               /\ (armed' = armed \/ armed' = armed \cup {t})
      <4>1. /\ life[t] = "unborn" /\ life' = [life EXCEPT ![t] = "live"]
            /\ UNCHANGED <<expired, fired>>
        BY <2>1, <3>2 DEF Create, add_timeev
      <4> QED BY <4>1, <3>2, <1>0
    <3> QED BY <2>1, <3>1, <3>2 DEF add_timeev, _init_
  <2>2. ASSUME NEW t \in Tims, DestroyTimer(t)
        PROVE  TimerInv'
    BY <2>2, <1>1 DEF DestroyTimer
  <2>3. CASE TimerReturn
    BY <2>3, <1>1 DEF TimerReturn, timUnchanged
  <2>4. ASSUME NEW t \in Tims, Expire(t)
        PROVE  TimerInv'
    BY <2>4, <1>0 DEF Expire, objvars
  <2>5. CASE handle_timeout
    <3>1. PICK t \in Tims : /\ Handling(t, "handle")
                            /\ expired' = expired \ {t}
                            /\ CallTimer(t) /\ UNCHANGED timUnchanged
      BY <2>5 DEF handle_timeout
    <3>2. UNCHANGED <<life, armed, periodic>>
      BY <3>1 DEF timUnchanged, objvars
    <3>3. life[t] = "live"
      BY <3>1, ReactorAssumption
         DEF LoopInv, Pointers, InHandler, Live, Handling, Objs, Events
    <3>4. CASE t \in expired /\ t \in cbset
      <4>1. fired' = [fired EXCEPT ![t] = Min({2, fired[t] + 1})]
        BY <3>1, <3>4 DEF CallTimer
      <4>2. fired[t] \in Nat /\ fired[t] + 1 \in Nat
        OBVIOUS
      <4>3. /\ Min({2, fired[t] + 1}) \in Nat
            /\ fired[t] = 0 => Min({2, fired[t] + 1}) = 1
        BY <4>2, MinOfTwo
      <4> QED BY <3>1, <3>2, <3>3, <3>4, <4>1, <4>3
    <3>5. CASE ~(t \in expired /\ t \in cbset)
      BY <3>1, <3>2, <3>5 DEF CallTimer
    <3> QED BY <3>4, <3>5
  <2> QED BY <1>2, <2>1, <2>2, <2>3, <2>4, <2>5 DEF TimerStep
<1>3. CASE AcceptorStep \/ SignalStep \/ UdpStep \/ PollStep
  BY <1>1, <1>3 DEF AcceptorStep, SignalStep, UdpStep, PollStep
<1>4. ASSUME NEW e \in Objs, delev(e) \/ Relisten(e)
      PROVE  TimerInv'
  BY <1>1, <1>4 DEF delev, Relisten
<1>5. CASE UNCHANGED vars
  BY <1>1, <1>5 DEF vars
<1> QED BY <1>2, <1>3, <1>4, <1>5, StepKinds DEF Objs

-----------------------------------------------------------------------------
(* What a step tells epoll.                                                *)
EpollCalls ==
  \/ UNCHANGED <<mask, registered, interest>> /\ edge \subseteq edge'
  \/ \E e \in Events : add_event(e) \/ del_event(e)
  \/ \E u \in Udps, m \in SUBSET Flags : mod_event(u, m)
  \/ \E e \in Objs : Destroy(e)
  \/ EpollWait(Readable) /\ UNCHANGED <<accvars, udpvars>>

(* Every step is one of these.                                             *)
LEMMA EpollCases ==
  ASSUME LoopInv, [Next]_vars
  PROVE  EpollCalls
<1> USE DEF epvars, Objs, Events, EpollCalls
<1>0. mask \in [Events -> SUBSET Flags] /\ {"in"} \subseteq Flags
      /\ {"et"} \subseteq Flags
  BY DEF LoopInv, LoopTypes, Flags
<1>1. CASE AcceptorStep
  <2>1. CASE acceptor \/ handle_accept \/ \E s \in Socks : ClientConnects(s)
    BY <2>1
       DEF acceptor, handle_accept, AcceptOne, AcceptAgain, AcceptError,
           accUnchanged, accRest, ClientConnects, Arrive
  <2>2. CASE server \/ AcceptorUser
    BY <2>2
       DEF server, AcceptorUser, enable_tcp, enable_tcp_accept,
           disable_tcp_accept, EnableTcp, listen
  <2> QED BY <1>1, <2>1, <2>2 DEF AcceptorStep
<1>2. CASE SignalStep
  BY <1>2
     DEF SignalStep, add_sev, signalevent, Create, CreateFails, DestroySignal,
         ResetSlot, handle_read, ReadPipe, NextByte, SignalReturn, ReadDone,
         sigUnchanged, handle_signal, Arrive
<1>3. CASE UdpStep
  <2>1. ASSUME NEW u \in Udps, SetEvents(u) \/ modev(u)
        PROVE  EpollCalls
    <3>1. PICK m \in SUBSET Flags : mod_event(u, m)
      BY <1>0, <2>1
         DEF SetEvents, modev, enable_events, disable_events, update_ep
    <3> QED BY <3>1
  <2>2. CASE UdpUser
    BY <2>1, <2>2
       DEF UdpUser, add_udpev, udp_init_sock, Create, CreateFails,
           enable_listen, del_listen, receive, send_to
  <2>3. CASE handle_receive
    BY <2>3
       DEF handle_receive, RecvData, UdpReturn, RecvStop, RecvAgain,
           UdpEventcb, recvUnchanged
  <2> QED BY <1>3, <2>2, <2>3
             DEF UdpStep, DestroyUdp, DatagramArrives, SocketError, Arrive
<1>4. CASE TimerStep
  BY <1>4
     DEF TimerStep, add_timeev, _init_, Create, CreateFails, handle_timeout,
         TimerReturn, timUnchanged, DestroyTimer, Expire, Arrive
<1>5. CASE PollStep
  BY <1>5 DEF PollStep, start, SweepDone, Dispatch
<1>6. ASSUME NEW e \in Objs, delev(e) \/ Relisten(e)
      PROVE  EpollCalls
  BY <1>6 DEF delev, Relisten
<1>7. CASE UNCHANGED vars
  BY <1>7 DEF vars, loopvars
<1> QED BY <1>1, <1>2, <1>3, <1>4, <1>5, <1>6, <1>7, StepKinds

(* Epoll is told of every change, and only epoll_wait takes an edge.       *)
LEMMA ToldStep ==
  ASSUME LoopInv, Told, mask[Acc] = Flags, [Next]_vars
  PROVE  Told' /\ mask'[Acc] = Flags
<1> USE ReactorAssumption DEF Told, Objs, Events
<1>0. /\ mask \in [Events -> SUBSET Flags] /\ registered \subseteq Events
      /\ interest \in [Events -> SUBSET Flags]
  BY DEF LoopInv, LoopTypes
<1>1. ASSUME NEW e \in Events, add_event(e) \/ del_event(e)
      PROVE  Told' /\ mask'[Acc] = Flags
  BY <1>0, <1>1 DEF add_event, del_event
<1>2. ASSUME NEW u \in Udps, NEW m \in SUBSET Flags, mod_event(u, m)
      PROVE  Told' /\ mask'[Acc] = Flags
  BY <1>0, <1>2 DEF mod_event
<1>3. ASSUME NEW e \in Objs, Destroy(e)
      PROVE  Told' /\ mask'[Acc] = Flags
  BY <1>0, <1>3 DEF Destroy
<1>4. CASE UNCHANGED <<mask, registered, interest>>
  BY <1>4
<1>5. CASE EpollWait(Readable)
  BY <1>5 DEF EpollWait
<1> QED BY <1>1, <1>2, <1>3, <1>4, <1>5, EpollCases DEF EpollCalls

(* An edge is lost only when epoll_wait reports it.                        *)
LEMMA EdgeStep ==
  ASSUME LoopInv, [Next]_vars
  PROVE  \/ edge \subseteq edge'
         \/ EpollWait(Readable) /\ UNCHANGED <<accvars, udpvars>>
  BY EpollCases DEF EpollCalls, add_event, del_event, mod_event, Destroy

-----------------------------------------------------------------------------
(* Where the loop thread goes in a step.                                   *)
Moves ==
  \/ UNCHANGED posvars
  \/ at \in {"ctor", "server", "setup", "dtor"} /\ UNCHANGED batch
  \/ at = "dispatch" /\ UNCHANGED batch
  \/ cur \in Sigs /\ handle_read /\ UNCHANGED batch
  \/ cur \in Tims /\ UNCHANGED batch
  \/ Handling(Acc, "handle") /\ handle_accept /\ UNCHANGED batch
  \/ \E u \in Udps : /\ cur = u /\ handle_receive /\ UNCHANGED batch
                     /\ at = "cb" => at' = "handle" /\ cur' = u
  \/ EpollWait(Readable)
  \/ \E e \in Events : Dispatch(e)

(* Every step is one of these.                                             *)
LEMMA MoveCases ==
  ASSUME [Next]_vars
  PROVE  Moves
<1> USE DEF posvars, Moves
<1>1. CASE AcceptorStep
  <2>1. CASE handle_accept
    BY <2>1
       DEF handle_accept, AcceptOne, AcceptAgain, AcceptError, HandlerReturns
  <2> QED BY <1>1, <2>1
             DEF AcceptorStep, acceptor, server, AcceptorUser, enable_tcp,
                 enable_tcp_accept, disable_tcp_accept, ClientConnects
<1>2. CASE SignalStep
  <2>1. CASE handle_read
    <3>1. cur \in Sigs /\ UNCHANGED batch
      BY <2>1
         DEF handle_read, ReadPipe, NextByte, SignalReturn, ReadDone, Handling,
             HandlerReturns
    <3> QED BY <2>1, <3>1
  <2>2. CASE ResetSlot
    BY <2>2 DEF ResetSlot, Handling, HandlerReturns
  <2> QED BY <1>2, <2>1, <2>2
             DEF SignalStep, add_sev, signalevent, Create, CreateFails,
                 DestroySignal, Sweeping, handle_signal
<1>3. CASE UdpStep
  <2>1. CASE UdpUser
    BY <2>1
       DEF UdpUser, add_udpev, udp_init_sock, Create, CreateFails,
           enable_listen, del_listen, SetEvents, modev, receive, send_to,
           udpUnchanged
  <2>2. CASE handle_receive
    <3>1. \E u \in Udps : /\ cur = u /\ UNCHANGED batch
                          /\ at = "cb" => at' = "handle" /\ cur' = u
      BY <2>2
         DEF handle_receive, RecvData, UdpReturn, RecvStop, RecvAgain,
             UdpEventcb, Handling, HandlerReturns
    <3> QED BY <2>2, <3>1
  <2> QED BY <1>3, <2>1, <2>2
             DEF UdpStep, DestroyUdp, DatagramArrives, SocketError
<1>4. CASE TimerStep
  BY <1>4
     DEF TimerStep, add_timeev, _init_, Create, CreateFails, handle_timeout,
         CallTimer, TimerReturn, Handling, HandlerReturns, DestroyTimer,
         Sweeping, Expire
<1>5. CASE PollStep
  BY <1>5 DEF PollStep, start, SweepDone, Sweeping
<1>6. ASSUME NEW e \in Objs, delev(e) \/ Relisten(e)
      PROVE  Moves
  BY <1>6 DEF delev, Relisten
<1>7. CASE UNCHANGED vars
  BY <1>7 DEF vars, loopvars
<1> QED BY <1>1, <1>2, <1>3, <1>4, <1>5, <1>6, <1>7, StepKinds DEF Objs

(* Only e's own handler settles that.                                      *)
LEMMA OwedStep ==
  ASSUME LoopInv, NEW e \in Udps \cup {Acc}, Owed(e), [Next]_vars,
         ~(cur = e /\ at = "handle" /\ (handle_accept \/ handle_receive))
  PROVE  Owed(e)'
<1> USE ReactorAssumption DEF Owed
<1>1. CASE e \in edge
  BY <1>1, EdgeStep DEF EpollWait
<1>2. CASE e \in batch
  <2>1. CASE UNCHANGED batch
    BY <1>2, <2>1
  <2>2. CASE EpollWait(Readable)
    BY <1>2, <2>2 DEF EpollWait, LoopInv, Place
  <2>3. CASE \E f \in Events : Dispatch(f)
    BY <1>2, <2>3 DEF Dispatch
  <2> QED BY <2>1, <2>2, <2>3, MoveCases DEF Moves, posvars
<1>3. CASE cur = e /\ at \in {"handle", "cb"}
  <2>1. CASE UNCHANGED posvars
    BY <1>3, <2>1 DEF posvars
  <2>2. CASE at = "cb" /\ at' = "handle" /\ cur' = e
    BY <2>2
  <2> QED BY <1>3, <2>1, <2>2, MoveCases
             DEF Moves, EpollWait, Dispatch, Handling, Objs, Events
<1> QED BY <1>1, <1>2, <1>3 DEF Owed

(* Every step keeps a filled receive queue owed a look.                    *)
LEMMA DatagramStep ==
  ASSUME LoopInv, DatagramInv, [Next]_vars
  PROVE  DatagramInv'
<1> USE ReactorAssumption DEF Objs, Events
<1>0. /\ queue \in [Udps -> Seq(Nat)] /\ env \in Nat
      /\ \A u \in Udps : queue[u] # <<>> => u \in cut \/ Owed(u)
  BY DEF DatagramInv, LoopInv, LoopTypes
<1>1. ASSUME NEW u \in Udps, queue[u] # <<>>, u \notin cut,
             ~(cur = u /\ at = "handle" /\ handle_receive)
      PROVE  Owed(u)'
  <2>1. ~(cur = u /\ handle_accept)
    BY DEF handle_accept, AcceptOne, AcceptAgain, AcceptError, Handling
  <2> QED BY <1>0, <1>1, <2>1, OwedStep
<1>2. ASSUME UNCHANGED <<queue, cut>>, ~(at = "handle" /\ handle_receive)
      PROVE  DatagramInv'
  BY <1>0, <1>1, <1>2 DEF DatagramInv
<1>3. CASE handle_receive
  <2>1. CASE RecvData
    <3>1. PICK v \in Udps :
            /\ cur = v /\ at = "handle" /\ queue[v] # <<>>
            /\ queue' = [queue EXCEPT ![v] = Tail(queue[v])]
            /\ at' = (IF v \in cbset THEN "cb" ELSE at)
            /\ cur' = cur /\ cut' = cut
      BY <2>1 DEF RecvData, Handling
    <3>2. Tail(queue[v]) \in Seq(Nat)
      BY <1>0, <3>1, HeadTailProperties
    <3>3. queue' \in [Udps -> Seq(Nat)]
      BY <1>0, <3>1, <3>2
    <3>4. Owed(v)'
      BY <3>1 DEF Owed
    <3>5. ASSUME NEW u \in Udps, u # v, queue'[u] # <<>>
          PROVE  u \in cut' \/ Owed(u)'
      BY <1>0, <1>1, <3>1, <3>5
    <3> QED BY <3>3, <3>4, <3>5 DEF DatagramInv
  <2>2. CASE RecvStop
    <3>1. PICK v \in Udps :
            /\ cur = v /\ cut' = cut \cup {v}
            /\ \/ queue' = queue
               \/ /\ queue[v] # <<>>
                  /\ queue' = [queue EXCEPT ![v] = Tail(queue[v])]
      BY <2>2 DEF RecvStop, Handling
    <3>2. queue[v] # <<>> => Tail(queue[v]) \in Seq(Nat)
      BY <1>0, <3>1, HeadTailProperties
    <3>3. queue' \in [Udps -> Seq(Nat)]
      BY <1>0, <3>1, <3>2
    <3>4. ASSUME NEW u \in Udps, u # v, queue'[u] # <<>>
          PROVE  u \in cut' \/ Owed(u)'
      BY <1>0, <1>1, <3>1, <3>4
    <3> QED BY <3>1, <3>3, <3>4 DEF DatagramInv
  <2>3. CASE RecvAgain
    <3>1. PICK v \in Udps :
            /\ cur = v /\ cut' = cut \ {v} /\ queue' = queue
            /\ queue[v] = <<>>
      BY <2>3 DEF RecvAgain, Handling
    <3>2. ASSUME NEW u \in Udps, u # v, queue'[u] # <<>>
          PROVE  u \in cut' \/ Owed(u)'
      BY <1>0, <1>1, <3>1, <3>2
    <3> QED BY <1>0, <3>1, <3>2 DEF DatagramInv
  <2>4. CASE UdpReturn \/ UdpEventcb
    BY <2>4, <1>2 DEF UdpReturn, UdpEventcb, udpvars, Handling
  <2> QED BY <1>3, <2>1, <2>2, <2>3, <2>4 DEF handle_receive
<1>4. ASSUME NEW v \in Udps, DatagramArrives(v), ~handle_receive
      PROVE  DatagramInv'
  <2>1. PICK d \in {0, env} :
          queue' = [queue EXCEPT ![v] = Append(queue[v], d)]
    BY <1>4 DEF DatagramArrives
  <2>2. queue' \in [Udps -> Seq(Nat)]
    BY <1>0, <2>1, AppendProperties
  <2>3. Owed(v)' /\ cut' = cut
    BY <1>4 DEF DatagramArrives, Arrive, Owed
  <2>4. ASSUME NEW u \in Udps, u # v, queue'[u] # <<>>
        PROVE  u \in cut' \/ Owed(u)'
    BY <1>0, <1>1, <1>4, <2>1, <2>3, <2>4
  <2> QED BY <2>2, <2>3, <2>4 DEF DatagramInv
<1> SUFFICES ASSUME ~handle_receive, ~\E v \in Udps : DatagramArrives(v)
             PROVE  UNCHANGED <<queue, cut>>
  BY <1>2, <1>3, <1>4
<1>5. CASE AcceptorStep \/ SignalStep \/ TimerStep \/ PollStep
  BY <1>5 DEF AcceptorStep, SignalStep, TimerStep, PollStep, udpvars
<1>6. CASE UdpStep
  BY <1>6
     DEF UdpStep, UdpUser, add_udpev, enable_listen, del_listen, SetEvents,
         modev, receive, send_to, udpUnchanged, DestroyUdp, udpvars,
         SocketError
<1>7. ASSUME NEW e \in Objs, delev(e) \/ Relisten(e)
      PROVE  UNCHANGED <<queue, cut>>
  BY <1>7 DEF delev, Relisten, udpvars
<1>8. CASE UNCHANGED vars
  BY <1>8 DEF vars, udpvars
<1> QED BY <1>5, <1>6, <1>7, <1>8, StepKinds

-----------------------------------------------------------------------------
(* A process that has exited does nothing.                                 *)
LEMMA AliveStep ==
  ASSUME [Next]_vars
  PROVE  alive \/ UNCHANGED vars
<1> USE DEF UserCan, UserHas, Handling, Environment, Sweeping
<1>1. CASE AcceptorStep
  BY <1>1
     DEF AcceptorStep, acceptor, server, AcceptorUser, enable_tcp,
         enable_tcp_accept, disable_tcp_accept, handle_accept, AcceptOne,
         AcceptAgain, AcceptError, ClientConnects
<1>2. CASE SignalStep
  BY <1>2
     DEF SignalStep, add_sev, signalevent, Create, CreateFails, DestroySignal,
         ResetSlot, handle_read, ReadPipe, NextByte, SignalReturn, ReadDone,
         handle_signal
<1>3. CASE UdpStep
  BY <1>3
     DEF UdpStep, UdpUser, add_udpev, udp_init_sock, Create, CreateFails,
         enable_listen, del_listen, SetEvents, modev, receive, send_to,
         DestroyUdp, DatagramArrives, SocketError, handle_receive, RecvData,
         UdpReturn, RecvStop, RecvAgain, UdpEventcb
<1>4. CASE TimerStep
  BY <1>4
     DEF TimerStep, add_timeev, _init_, Create, CreateFails, handle_timeout,
         TimerReturn, DestroyTimer, Expire
<1>5. CASE PollStep
  BY <1>5 DEF PollStep, start, EpollWait, SweepDone, Dispatch
<1>6. ASSUME NEW e \in Objs, delev(e) \/ Relisten(e)
      PROVE  alive
  BY <1>6 DEF delev, Relisten
<1> QED BY <1>1, <1>2, <1>3, <1>4, <1>5, <1>6, StepKinds DEF Objs

(* Nothing goes back to the constructor of the acceptor.                   *)
LEMMA CtorOnce ==
  ASSUME [Next]_vars
  PROVE  at' = "ctor" => UNCHANGED at
<1> USE DEF posvars, HandlerReturns
<1>1. CASE AcceptorStep
  BY <1>1
     DEF AcceptorStep, acceptor, server, AcceptorUser, enable_tcp,
         enable_tcp_accept, disable_tcp_accept, handle_accept, AcceptOne,
         AcceptAgain, AcceptError, ClientConnects
<1>2. CASE SignalStep
  BY <1>2
     DEF SignalStep, add_sev, signalevent, Create, CreateFails, DestroySignal,
         ResetSlot, handle_read, ReadPipe, NextByte, SignalReturn, ReadDone,
         handle_signal
<1>3. CASE UdpStep
  BY <1>3
     DEF UdpStep, UdpUser, add_udpev, udp_init_sock, Create, CreateFails,
         enable_listen, del_listen, SetEvents, modev, receive, send_to,
         udpUnchanged, DestroyUdp, DatagramArrives, SocketError,
         handle_receive, RecvData, UdpReturn, RecvStop, RecvAgain, UdpEventcb
<1>4. CASE TimerStep
  BY <1>4
     DEF TimerStep, add_timeev, _init_, Create, CreateFails, handle_timeout,
         CallTimer, TimerReturn, DestroyTimer, Expire
<1>5. CASE PollStep
  BY <1>5 DEF PollStep, start, EpollWait, SweepDone, Dispatch
<1>6. ASSUME NEW e \in Objs, delev(e) \/ Relisten(e)
      PROVE  UNCHANGED at
  BY <1>6 DEF delev, Relisten
<1>7. CASE UNCHANGED vars
  BY <1>7 DEF vars, loopvars
<1> QED BY <1>1, <1>2, <1>3, <1>4, <1>5, <1>6, <1>7, StepKinds DEF Objs

(* The listening socket and its clients.                                   *)
LEMMA AcceptorKeeps ==
  ASSUME LoopInv, OneSocket, ClientInv, [Next]_vars
  PROVE  OneSocket' /\ ClientInv'
<1> USE ReactorAssumption DEF Objs, Events
<1>0. backlog \in [Socks -> Nat]
  BY DEF ClientInv
<1>1. ASSUME UNCHANGED accvars, ~handle_accept, ~handle_receive \/ cur # Acc
      PROVE  OneSocket' /\ ClientInv'
  <2>1. OneSocket'
    BY <1>1, AliveStep, CtorOnce DEF OneSocket, accvars, vars, loopvars
  <2>2. Owed(Acc) => Owed(Acc)'
    BY <1>1, OwedStep
  <2> QED BY <1>1, <2>1, <2>2, AliveStep DEF ClientInv, accvars, vars, loopvars
<1>4. CASE handle_accept
  <2>1. /\ UNCHANGED <<listening, lfd, tcp_enable, evfd, edge>>
        /\ Handling(Acc, "handle") /\ (alive' => alive)
    BY <1>4
       DEF handle_accept, AcceptOne, AcceptAgain, AcceptError, accUnchanged,
           accRest, sockvars, epvars, Handling
  <2>2. OneSocket'
    BY <2>1, CtorOnce DEF OneSocket
  <2>6. ASSUME NEW gone \in {0, 1}, backlog[lfd] > 0,
               backlog' = [backlog EXCEPT ![lfd] = @ - gone]
        PROVE  backlog' \in [Socks -> Nat]
    <3>1. CASE lfd \in Socks
      <4>1. backlog[lfd] \in Nat /\ backlog[lfd] - gone \in Nat
        BY <3>1, <2>6, <1>0
      <4> QED BY <4>1, <2>6, <1>0
    <3>2. CASE lfd \notin Socks
      BY <3>2, <2>6, <1>0
    <3> QED BY <3>1, <3>2
  <2>3. CASE AcceptOne
    <3>1. backlog' \in [Socks -> Nat]
      BY <2>3, <2>6 DEF AcceptOne
    <3>2. Owed(Acc)'
      BY <2>1, <2>3 DEF AcceptOne, Owed, Handling, posvars
    <3> QED BY <2>2, <3>1, <3>2 DEF ClientInv
  <2>4. CASE AcceptAgain
    <3>1. backlog' = backlog /\ backlog[lfd] = 0
      BY <2>4 DEF AcceptAgain
    <3> QED BY <2>1, <2>2, <3>1, <1>0 DEF ClientInv
  <2>5. CASE AcceptError
    <3>1. broke' /\ backlog' \in [Socks -> Nat]
      BY <2>5, <2>6 DEF AcceptError
    <3> QED BY <2>2, <3>1 DEF ClientInv
  <2> QED BY <1>4, <2>3, <2>4, <2>5 DEF handle_accept
<1>2. CASE AcceptorStep
  <2>0. ASSUME ~handle_accept
        PROVE  Owed(Acc) => Owed(Acc)'
    <3>1. ~(cur = Acc /\ handle_receive)
      BY DEF handle_receive, RecvData, UdpReturn, RecvStop, RecvAgain,
             UdpEventcb, Handling
    <3> QED BY <2>0, <3>1, OwedStep
  <2>7. ASSUME EnableTcp, alive, at' # "ctor", CtorPort \/ ~tcp_enable
        PROVE  OneSocket' /\ ClientInv'
    <3>1. backlog' = backlog /\ broke' = broke
      BY <2>7 DEF EnableTcp
    <3>2. PICK s \in Socks : init_sock(s)
      BY <2>7 DEF EnableTcp
    <3>3. CASE ~alive'
      BY <3>1, <3>3, <2>7, <1>0 DEF OneSocket, ClientInv
    <3>4. CASE alive'
      <4>1. /\ lfd' = s /\ listening' = listening \cup {s} /\ evfd' = lfd'
            /\ tcp_enable' /\ add_event(Acc)
        BY <2>7, <3>2, <3>4 DEF EnableTcp, init_sock, perr_exit, Listen, listen
      <4>2. Owed(Acc)'
        BY <4>1 DEF Owed, add_event
      <4>3. OneSocket'
        BY <4>1, <2>7 DEF OneSocket
      <4> QED BY <3>1, <4>1, <4>2, <4>3, <1>0 DEF ClientInv
    <3> QED BY <3>3, <3>4
  <2>1. CASE acceptor \/ server
    <3>1. CASE CtorPort /\ acceptor
      <4>1. /\ UNCHANGED <<evfd, tcp_enable, backlog, broke>>
            /\ ~tcp_enable /\ at' = "server"
        BY <3>1 DEF acceptor, OneSocket
      <4> QED BY <3>1, <4>1, <1>0 DEF OneSocket, ClientInv
    <3>3. CASE CtorPort /\ server
      <4>1. EnableTcp /\ alive /\ at' = "setup"
        BY <3>3 DEF server
      <4> QED BY <3>3, <4>1, <2>7
    <3>2. CASE ~CtorPort
      <4>1. UNCHANGED <<accvars, alive>>
        BY <2>1, <3>2 DEF acceptor, server, accvars, sockvars
      <4>2. ~handle_accept /\ ~handle_receive
        BY <2>1
           DEF acceptor, server, handle_accept, AcceptOne, AcceptAgain,
               AcceptError, handle_receive, RecvData, UdpReturn, RecvStop,
               RecvAgain, UdpEventcb, Handling
      <4> QED BY <4>1, <4>2, <1>1
    <3> QED BY <2>1, <3>1, <3>2, <3>3
  <2>2. CASE enable_tcp
    <3>1. EnableTcp /\ alive /\ at' # "ctor"
      BY <2>2 DEF enable_tcp, UserCan, posvars
    <3>2. ~tcp_enable
      BY <2>2 DEF enable_tcp
    <3> QED BY <3>1, <3>2, <2>7
  <2>3. CASE enable_tcp_accept
    <3>1. /\ UNCHANGED <<alive, listening, lfd, tcp_enable, backlog, broke>>
          /\ evfd' = lfd /\ add_event(Acc)
      BY <2>3 DEF enable_tcp_accept, listen, sockvars
    <3>2. Owed(Acc)'
      BY <3>1 DEF Owed, add_event
    <3> QED BY <3>1, <3>2, CtorOnce DEF OneSocket, ClientInv
  <2>4. CASE disable_tcp_accept
    <3>1. /\ UNCHANGED <<alive, listening, lfd, tcp_enable, backlog, broke>>
          /\ UNCHANGED <<evfd, edge, batch, cur, at>>
      BY <2>4 DEF disable_tcp_accept, del_event, sockvars, posvars
    <3> QED BY <3>1, CtorOnce DEF OneSocket, ClientInv, Owed
  <2>6. ASSUME NEW s \in Socks, ClientConnects(s), ~handle_accept
        PROVE  OneSocket' /\ ClientInv'
    <3>1. /\ UNCHANGED <<alive, listening, lfd, tcp_enable, evfd, broke>>
          /\ backlog' = [backlog EXCEPT ![s] = backlog[s] + 1]
          /\ s = evfd => Acc \in edge'
      BY <2>6 DEF ClientConnects, sockvars, Arrive
    <3>2. OneSocket'
      BY <3>1, CtorOnce DEF OneSocket
    <3>3. backlog' \in [Socks -> Nat]
      BY <3>1, <1>0
    <3>4. ASSUME alive, tcp_enable, ~broke
          PROVE  backlog'[lfd] = 0 \/ Owed(Acc)'
      <4>1. CASE s = lfd
        BY <4>1, <3>1, <3>4 DEF OneSocket, Owed
      <4>2. CASE s # lfd
        <5>1. backlog'[lfd] = backlog[lfd]
          BY <4>2, <3>1, <1>0
        <5> QED BY <5>1, <3>4, <2>0, <2>6 DEF ClientInv
      <4> QED BY <4>1, <4>2
    <3> QED BY <3>1, <3>2, <3>3, <3>4 DEF ClientInv
  <2> QED BY <1>2, <1>4, <2>1, <2>2, <2>3, <2>4, <2>6
             DEF AcceptorStep, AcceptorUser
<1>3. CASE \/ SignalStep \/ UdpStep \/ TimerStep \/ PollStep \/ UNCHANGED vars
           \/ \E e \in Objs : delev(e) \/ Relisten(e)
  <2>1. UNCHANGED accvars
    BY <1>3 DEF SignalStep, UdpStep, TimerStep, PollStep, vars, delev, Relisten
  <2>2. ~(cur = Acc /\ handle_receive)
    BY DEF handle_receive, RecvData, UdpReturn, RecvStop, RecvAgain,
           UdpEventcb, Handling
  <2> QED BY <2>1, <2>2, <1>1, <1>4
<1> QED BY <1>2, <1>3, StepKinds

-----------------------------------------------------------------------------
(* Three sequences over S, and that concatenation is associative.          *)
Three(S, a, b, c) == a \in Seq(S) /\ b \in Seq(S) /\ c \in Seq(S)

(* Concatenations may be bracketed in another way.                         *)
LEMMA Regroup ==
  ASSUME NEW S, NEW a, NEW b, NEW c, Three(S, a, b, c)
  PROVE  (a \o b) \o c = a \o (b \o c)
  BY ConcatAssociative DEF Three

(* An element more at the end.                                             *)
LEMMA RowAppend ==
  ASSUME NEW S, NEW a, NEW b, NEW c, Three(S, a, b, c), NEW n \in S
  PROVE  Row(a, b, Append(c, n)) = Append(Row(a, b, c), n)
<1> DEFINE d == a \o b
           e == <<n>>
           f == d \o c
<1>1. c \in Seq(S) /\ d \in Seq(S) /\ e \in Seq(S) /\ f \in Seq(S)
  BY ConcatProperties DEF Three
<1>2. Append(c, n) = c \o e
  BY <1>1, AppendIsConcat
<1>3. Append(f, n) = f \o e
  BY <1>1, AppendIsConcat
<1> HIDE DEF d, e
<1>4. (d \o c) \o e = d \o (c \o e)
  <2>1. Three(S, d, c, e)
    BY <1>1 DEF Three
  <2> QED BY <2>1, Regroup
<1>5. d \o Append(c, n) = Append(f, n)
  BY <1>2, <1>3, <1>4, Zenon
<1> QED BY <1>5, Zenon DEF d, f, Row

(* A sequence is its first element and the rest.                           *)
LEMMA FirstAndRest ==
  ASSUME NEW S, NEW s \in Seq(S), s # <<>>
  PROVE  s = <<Head(s)>> \o Tail(s)
<1> DEFINE h == <<Head(s)>>
           t == Tail(s)
           u == h \o t
<1>1. /\ h \in Seq(S) /\ Len(h) = 1 /\ h[1] = s[1]
      /\ t \in Seq(S) /\ Len(t) = Len(s) - 1
      /\ \A i \in 1..Len(t) : t[i] = s[i + 1]
      /\ Len(s) \in Nat
  BY HeadTailProperties, LenProperties
<1> HIDE DEF h, t
<1>2. /\ u \in Seq(S) /\ Len(u) = Len(h) + Len(t)
      /\ \A i \in 1..(Len(h) + Len(t)) :
           u[i] = IF i <= Len(h) THEN h[i] ELSE t[i - Len(h)]
  <2>1. h \in Seq(S) /\ t \in Seq(S)
    BY <1>1
  <2> QED BY ONLY <2>1, ConcatProperties, Zenon
<1> HIDE DEF u
<1>3. Len(u) = Len(s)
  BY <1>1, <1>2
<1>4. ASSUME NEW i \in 1..Len(s)
      PROVE  u[i] = s[i]
  <2>1. CASE i = 1
    BY <2>1, <1>1, <1>2, <1>3
  <2>2. CASE i # 1
    <3>1. i - 1 \in 1..Len(t) /\ (i - 1) + 1 = i /\ ~(i <= 1)
          /\ i \in 1..(Len(h) + Len(t))
      BY <2>2, <1>1
    <3>2. u[i] = t[i - 1]
      BY <3>1, <1>1, <1>2
    <3>3. t[i - 1] = s[(i - 1) + 1]
      BY <3>1, <1>1
    <3> QED BY <3>1, <3>2, <3>3
  <2> QED BY <2>1, <2>2
<1>5. u = s
  BY <1>2, <1>3, <1>4, SeqEqual
<1> QED BY <1>5 DEF u, h, t

(* The first element of the second moves to the end of the first.          *)
LEMMA RowTake ==
  ASSUME NEW S, NEW a, NEW b, NEW c, Three(S, a, b, c), b # <<>>
  PROVE  Row(Append(a, Head(b)), Tail(b), c) = Row(a, b, c)
<1> DEFINE h == <<Head(b)>>
           r == Tail(b)
           e == Append(a, Head(b))
<1>1. a \in Seq(S) /\ b \in Seq(S) /\ h \in Seq(S) /\ r \in Seq(S)
  BY HeadTailProperties DEF Three
<1>2. e = a \o h
  BY <1>1, AppendIsConcat, HeadTailProperties
<1>3. b = h \o r
  BY <1>1, FirstAndRest
<1> HIDE DEF h, r, e
<1>4. (a \o h) \o r = a \o (h \o r)
  <2>1. Three(S, a, h, r)
    BY <1>1 DEF Three
  <2> QED BY <2>1, Regroup
<1>5. (e \o r) \o c = (a \o b) \o c
  BY <1>2, <1>3, <1>4, Zenon
<1> QED BY <1>5, Zenon DEF e, r, Row

(* The same from the third to the second.                                  *)
LEMMA RowMove ==
  ASSUME NEW S, NEW a, NEW b, NEW c, Three(S, a, b, c), NEW n \in S
  PROVE  Row(a, Append(b, n), c) = Row(a, b, <<n>> \o c)
<1> DEFINE h == <<n>>
           e == Append(b, n)
           d == a \o b
<1>1. /\ a \in Seq(S) /\ b \in Seq(S) /\ c \in Seq(S)
      /\ h \in Seq(S) /\ d \in Seq(S)
  BY ConcatProperties DEF Three
<1>2. e = b \o h
  BY <1>1, AppendIsConcat
<1> HIDE DEF h, e
<1>3. (a \o b) \o h = a \o (b \o h)
  <2>1. Three(S, a, b, h)
    BY <1>1 DEF Three
  <2> QED BY <2>1, Regroup
<1> HIDE DEF d
<1>4. (d \o h) \o c = d \o (h \o c)
  <2>1. Three(S, d, h, c)
    BY <1>1 DEF Three
  <2> QED BY <2>1, Regroup
<1>5. d \o h = a \o e
  BY <1>2, <1>3, Zenon DEF d
<1>6. (a \o e) \o c = d \o (h \o c)
  BY <1>4, <1>5, Zenon
<1> QED BY <1>6, Zenon DEF d, e, h, Row

(* Bytes that are read leave the pipe at its front.                        *)
LEMMA RowFill ==
  ASSUME NEW S, NEW a \in Seq(S), NEW c \in Seq(S), NEW m \in 0..Len(c)
  PROVE  /\ SubSeq(c, 1, m) \in Seq(S) /\ SubSeq(c, m + 1, Len(c)) \in Seq(S)
         /\ Row(a, SubSeq(c, 1, m), SubSeq(c, m + 1, Len(c))) = Row(a, <<>>, c)
<1> DEFINE l == Len(c)
           h == SubSeq(c, 1, m)
           r == SubSeq(c, m + 1, l)
<1>1. /\ l \in Nat /\ m \in Nat
      /\ 1 \in 1..(l + 1) /\ m \in (1 - 1)..l /\ l \in m..l
  BY LenProperties
<1>2. \A j \in 1..l : c[j] \in S
  BY ElementOfSeq
<1>3. h \o r = SubSeq(c, 1, l)
  BY <1>1, ConcatAdjacentSubSeq, Zenon DEF l
<1>4. SubSeq(c, 1, l) = c
  BY SubSeqFull DEF l
<1> HIDE DEF l
<1>5. h \in Seq(S) /\ r \in Seq(S)
  BY <1>1, <1>2, SubSeqProperties
<1> HIDE DEF h, r
<1>6. (a \o h) \o r = a \o (h \o r)
  <2>1. Three(S, a, h, r)
    BY <1>5 DEF Three
  <2> QED BY <2>1, Regroup
<1>7. a \o <<>> = a
  BY ConcatEmptySeq
<1>8. (a \o h) \o r = (a \o <<>>) \o c
  BY <1>3, <1>4, <1>6, <1>7, Zenon
<1> QED BY <1>5, <1>8, Zenon DEF h, r, l, Row

-----------------------------------------------------------------------------
(* Only handle_read's own steps take the thread away from bytes in hand.   *)
LEMMA HandKept ==
  ASSUME SignalInv, [Next]_vars, ~handle_read, hand # <<>>
  PROVE  UNCHANGED posvars
<1>1. at \in {"bytes", "cb"} /\ cur \in Sigs
  BY DEF SignalInv
<1> QED BY <1>1, MoveCases, ReactorAssumption
           DEF Moves, EpollWait, Dispatch, Handling

(* An event that gets its callback is a new one.                           *)
LEMMA NewCallback ==
  ASSUME LoopInv, [Next]_vars, NEW s \in Sigs, s \in cbset', s \notin cbset
  PROVE  Create(s) /\ life[s] = "unborn" /\ cur # s
<1>1. PICK e \in Objs : Create(e)
  BY LifeCases DEF Destroy
<1>2. e = s /\ Create(s) /\ life[s] = "unborn"
  BY <1>1 DEF Create
<1>3. at \in {"setup", "cb", "ecb"}
  BY <1>1 DEF Create, UserCan
<1>4. cur # s
  BY <1>2, <1>3, ReactorAssumption
     DEF LoopInv, Place, Pointers, InHandler, Live, Events
<1> QED BY <1>2, <1>4

(* The signals.                                                            *)
LEMMA SignalKeeps ==
  ASSUME LoopInv, SlotInv, SignalInv, [Next]_vars
  PROVE  SignalInv'
<1> USE ReactorAssumption
<1>0. /\ SignalTypes
      /\ hand # <<>> => at \in {"bytes", "cb"} /\ cur \in Sigs
      /\ \A s \in Sigs :
           /\ s \in cbset => Row(called[s], InHand(s), pipe[s]) = written[s]
           /\ life[s] = "unborn" =>
                called[s] = <<>> /\ pipe[s] = <<>> /\ written[s] = <<>>
  BY DEF SignalInv
<1>1. Sigs \subseteq Objs /\ life \in [Objs -> {"unborn", "live", "freed"}]
  BY DEF Objs, LoopInv, LoopTypes
<1>2. Row(<<>>, <<>>, <<>>) = <<>>
  BY DEF Row
<1>3. ASSUME UNCHANGED <<pipe, hand, written, called>>, ~handle_read
      PROVE  SignalInv'
  <2>1. /\ SignalTypes'
        /\ hand' # <<>> => at' \in {"bytes", "cb"} /\ cur' \in Sigs
    BY <1>0, <1>3, HandKept DEF SignalTypes, posvars
  <2>2. ASSUME NEW s \in Sigs, life'[s] = "unborn"
        PROVE  called'[s] = <<>> /\ pipe'[s] = <<>> /\ written'[s] = <<>>
    BY <1>0, <1>1, <1>3, <2>2, BornOnce
  <2>3. ASSUME NEW s \in Sigs
        PROVE  InHand(s)' = InHand(s)
    BY <1>3, HandKept DEF InHand, posvars
  <2>4. ASSUME NEW s \in Sigs, s \in cbset'
        PROVE  Row(called'[s], InHand(s)', pipe'[s]) = written'[s]
    <3>1. CASE s \in cbset
      BY <1>0, <1>3, <2>3, <3>1
    <3>2. CASE s \notin cbset
      <4>1. life[s] = "unborn" /\ cur # s
        BY <2>4, <3>2, NewCallback
      <4>2. InHand(s) = <<>>
        BY <4>1 DEF InHand
      <4> QED BY <1>0, <1>2, <1>3, <2>3, <4>1, <4>2
    <3> QED BY <3>1, <3>2
  <2> QED BY <2>1, <2>2, <2>4 DEF SignalInv, Row
<1>4. ASSUME NEW n \in Signos, handle_signal(n), ~handle_read
      PROVE  SignalInv'
  <2>0. UNCHANGED <<at, cur, hand, called, life, cbset>>
    BY <1>4 DEF handle_signal, posvars, objvars
  <2>1. CASE UNCHANGED <<pipe, written>>
    BY <1>3, <1>4, <2>0, <2>1
  <2>2. CASE /\ slot # None /\ life[slot] = "live"
             /\ pipe' = [pipe EXCEPT ![slot] = Append(@, n)]
             /\ written' = [written EXCEPT ![slot] = Append(@, n)]
    <3>1. slot \in Sigs
      BY <2>2 DEF SlotInv
    <3> DEFINE a == called[slot]
               b == InHand(slot)
               c == pipe[slot]
    <3>2. Three(Signos, a, b, c) /\ written[slot] \in Seq(Signos)
      BY <1>0, <3>1, EmptySeq DEF SignalTypes, Three, InHand
    <3>3. Row(a, b, Append(c, n)) = Append(Row(a, b, c), n)
      BY <3>2, RowAppend
    <3>4. /\ Append(c, n) \in Seq(Signos)
          /\ Append(written[slot], n) \in Seq(Signos)
      BY <3>2, AppendProperties DEF Three
    <3>5. SignalTypes'
      BY <1>0, <2>0, <2>2, <3>1, <3>4 DEF SignalTypes
    <3>6. ASSUME NEW s \in Sigs
          PROVE  InHand(s)' = InHand(s)
      BY <2>0 DEF InHand
    <3>7. ASSUME NEW s \in Sigs, s \in cbset
          PROVE  Row(called'[s], InHand(s)', pipe'[s]) = written'[s]
      <4>1. Row(called[s], InHand(s), pipe[s]) = written[s]
        BY <1>0, <3>7
      <4>2. CASE s = slot
        <5>1. pipe'[s] = Append(c, n) /\ written'[s] = Append(written[s], n)
          BY <1>0, <2>2, <4>2 DEF SignalTypes
        <5> QED BY <2>0, <3>3, <3>6, <4>1, <4>2, <5>1
      <4>3. CASE s # slot
        <5>1. pipe'[s] = pipe[s] /\ written'[s] = written[s]
          BY <1>0, <2>2, <4>3 DEF SignalTypes
        <5> QED BY <2>0, <3>6, <4>1, <5>1
      <4> QED BY <4>2, <4>3
    <3>8. ASSUME NEW s \in Sigs, life[s] = "unborn"
          PROVE  called'[s] = <<>> /\ pipe'[s] = <<>> /\ written'[s] = <<>>
      <4>1. s # slot
        BY <2>2, <3>8
      <4> QED BY <1>0, <2>0, <2>2, <3>8, <4>1 DEF SignalTypes
    <3> QED BY <1>0, <2>0, <3>5, <3>7, <3>8 DEF SignalInv, Row
  <2> QED BY <1>4, <2>1, <2>2 DEF handle_signal
<1>5. CASE handle_read
  <2>0. /\ UNCHANGED <<life, cbset, written>> /\ cur \in Sigs
        /\ life[cur] = "live"
    <3>1. UNCHANGED <<life, cbset, written>> /\ cur \in Sigs /\ alive
          /\ at \in {"handle", "bytes", "cb"}
      BY <1>5
         DEF handle_read, ReadPipe, NextByte, SignalReturn, ReadDone, Handling,
             sigUnchanged, objvars
    <3> QED BY <3>1 DEF LoopInv, Pointers, InHandler, Live, Objs, Events
  <2> DEFINE a == called[cur]
             c == pipe[cur]
  <2>1. /\ a \in Seq(Signos) /\ c \in Seq(Signos) /\ hand \in Seq(Signos)
        /\ Len(c) \in Nat /\ InHand(cur) = hand
    BY <1>0, <2>0, LenProperties DEF SignalTypes, InHand
  <2>2. ASSUME cur' = cur, at' \in {"bytes", "cb"}, hand' \in Seq(Signos),
               NEW x \in Seq(Signos), called' = [called EXCEPT ![cur] = x],
               NEW y \in Seq(Signos), pipe' = [pipe EXCEPT ![cur] = y],
               cur \in cbset => Row(x, hand', y) = Row(a, hand, c)
        PROVE  SignalInv'
    <3>1. SignalTypes'
      BY <1>0, <2>0, <2>2 DEF SignalTypes
    <3>2. ASSUME NEW s \in Sigs, s \in cbset
          PROVE  Row(called'[s], InHand(s)', pipe'[s]) = written'[s]
      <4>1. /\ Row(called[s], InHand(s), pipe[s]) = written[s]
            /\ written' = written
        BY <1>0, <2>0, <3>2
      <4>2. CASE s = cur
        <5>1. called'[s] = x /\ pipe'[s] = y /\ InHand(s)' = hand'
          BY <1>0, <2>0, <2>2, <4>2 DEF SignalTypes, InHand
        <5> QED BY <2>1, <2>2, <3>2, <4>1, <4>2, <5>1
      <4>3. CASE s # cur
        <5>1. /\ called'[s] = called[s] /\ pipe'[s] = pipe[s]
              /\ InHand(s)' = InHand(s)
          BY <1>0, <2>0, <2>2, <4>3 DEF SignalTypes, InHand
        <5> QED BY <4>1, <5>1
      <4> QED BY <4>2, <4>3
    <3>3. ASSUME NEW s \in Sigs, life[s] = "unborn"
          PROVE  called'[s] = <<>> /\ pipe'[s] = <<>> /\ written'[s] = <<>>
      <4>1. s # cur
        BY <2>0, <3>3
      <4> QED BY <1>0, <2>0, <2>2, <3>3, <4>1 DEF SignalTypes
    <3> QED BY <2>0, <2>2, <3>1, <3>2, <3>3 DEF SignalInv, Row
  <2>3. /\ called = [called EXCEPT ![cur] = a]
        /\ pipe = [pipe EXCEPT ![cur] = c]
    BY <1>0, <2>0 DEF SignalTypes
  <2>4. CASE ReadPipe
    <3> DEFINE m == Min({ReadMax, Len(c)})
               h == SubSeq(c, 1, m)
               y == SubSeq(c, m + 1, Len(c))
    <3>1. /\ at = "handle" /\ cur' = cur /\ at' = "bytes" /\ hand' = h
          /\ pipe' = [pipe EXCEPT ![cur] = y] /\ called' = called
      BY <2>4 DEF ReadPipe, Handling
    <3>2. m \in 0..Len(c)
      <4> DEFINE l == Len(c)
      <4>1. ReadMax \in Nat /\ l \in Nat
        BY <2>1, SignalAssumption
      <4> HIDE DEF l
      <4>2. Min({ReadMax, l}) = IF ReadMax <= l THEN ReadMax ELSE l
        BY ONLY <4>1, MinOfTwo
      <4>3. Min({ReadMax, l}) \in 0..l
        BY <4>1, <4>2
      <4> QED BY <4>3 DEF l
    <3>3. hand = <<>>
      BY <1>0, <3>1
    <3> HIDE DEF m
    <3>4. /\ h \in Seq(Signos) /\ y \in Seq(Signos)
          /\ Row(a, h, y) = Row(a, <<>>, c)
      BY <2>1, <3>2, RowFill
    <3> QED BY <2>1, <2>2, <2>3, <3>1, <3>3, <3>4
  <2>5. CASE NextByte
    <3>1. /\ hand # <<>> /\ hand' = Tail(hand) /\ cur' = cur
          /\ at \in {"bytes"} /\ at' \in {"bytes", "cb"} /\ pipe' = pipe
          /\ IF cur \in cbset
             THEN called' = [called EXCEPT ![cur] = Append(a, Head(hand))]
             ELSE called' = called
      BY <2>5 DEF NextByte, Handling
    <3>2. Three(Signos, a, hand, c)
      BY <2>1 DEF Three
    <3>3. Row(Append(a, Head(hand)), Tail(hand), c) = Row(a, hand, c)
      BY <3>1, <3>2, RowTake
    <3>4. /\ Tail(hand) \in Seq(Signos) /\ Head(hand) \in Signos
      BY <2>1, <3>1, HeadTailProperties
    <3>5. Append(a, Head(hand)) \in Seq(Signos)
      BY <2>1, <3>4, AppendProperties
    <3>6. CASE cur \in cbset
      BY <2>1, <2>2, <2>3, <3>1, <3>3, <3>4, <3>5, <3>6
    <3>7. CASE cur \notin cbset
      BY <2>1, <2>2, <2>3, <3>1, <3>4, <3>7
    <3> QED BY <3>6, <3>7
  <2>6. CASE SignalReturn
    <3>1. cur' = cur /\ at' = "bytes" /\ UNCHANGED <<pipe, hand, called>>
      BY <2>6 DEF SignalReturn
    <3> QED BY <2>1, <2>2, <2>3, <3>1
  <2>7. CASE ReadDone
    <3>1. hand = <<>> /\ cur' = None /\ UNCHANGED <<pipe, hand, called>>
      BY <2>7 DEF ReadDone, HandlerReturns
    <3>2. \A s \in Sigs : InHand(s)' = InHand(s)
      BY <3>1 DEF InHand
    <3> QED BY <1>0, <2>0, <3>1, <3>2 DEF SignalInv, SignalTypes, Row
  <2> QED BY <1>5, <2>4, <2>5, <2>6, <2>7 DEF handle_read
<1>6. ASSUME ~handle_read, ~\E n \in Signos : handle_signal(n)
      PROVE  UNCHANGED <<pipe, hand, written, called>>
  <2>1. CASE AcceptorStep \/ UdpStep \/ TimerStep \/ PollStep \/ UNCHANGED vars
    BY <2>1 DEF AcceptorStep, UdpStep, TimerStep, PollStep, vars, sigvars
  <2>2. CASE SignalStep
    BY <1>6, <2>2 DEF SignalStep, add_sev, DestroySignal, ResetSlot, sigvars
  <2>3. ASSUME NEW e \in Objs, delev(e) \/ Relisten(e)
        PROVE  UNCHANGED <<pipe, hand, written, called>>
    BY <2>3 DEF delev, Relisten, sigvars
  <2> QED BY <2>1, <2>2, <2>3, StepKinds DEF Objs
<1> QED BY <1>3, <1>4, <1>5, <1>6

-----------------------------------------------------------------------------
(* Induction over the natural numbers, for a set in place of a predicate.  *)
LEMMA LeastNatural ==
  ASSUME NEW T \in SUBSET Nat, T # {}
  PROVE  \E n \in T : \A m \in T : n <= m
<1> DEFINE R == OpToRel(<, Nat)
<1>1. IsWellFoundedOn(R, Nat)
  BY NatLessThanWellFounded, Zenon
<1>2. \A x, y \in Nat : x < y => <<x, y>> \in R
  BY Zenon DEF OpToRel
<1> HIDE DEF R
<1>3. PICK n \in T : \A m \in T : ~ (<<m, n>> \in R)
  BY <1>1, WFMin
<1>4. ASSUME NEW m \in T
      PROVE  n <= m
  <2>1. m \in Nat /\ n \in Nat /\ ~(m < n)
    BY <1>2, <1>3
  <2> QED BY <2>1
<1> QED BY <1>4

(* Induction over the natural numbers, for a set.                          *)
LEMMA InductionOnNat ==
  ASSUME NEW T \in SUBSET Nat, 0 \in T, \A n \in T : n + 1 \in T
  PROVE  T = Nat
<1> SUFFICES ASSUME T # Nat
             PROVE  FALSE
  OBVIOUS
<1> DEFINE C == Nat \ T
<1>1. C \in SUBSET Nat /\ C # {}
  OBVIOUS
<1> HIDE DEF C
<1>2. PICK n \in C : \A m \in C : n <= m
  BY <1>1, LeastNatural
<1>3. n \in Nat /\ n \notin T
  BY <1>1, <1>2 DEF C
<1>4. n # 0
  BY <1>3
<1>5. n - 1 \in Nat /\ n - 1 \notin C
  BY <1>2, <1>3, <1>4
<1>6. n - 1 \in T /\ (n - 1) + 1 = n
  BY <1>3, <1>5 DEF C
<1> QED BY <1>3, <1>6

-----------------------------------------------------------------------------
(* The function by which Data is defined: its value at i is the data among *)
(* the first i datagrams of q.                                             *)
Filters(f, q, n) ==
  f = [i \in 0..n |->
         IF i = 0 THEN <<>>
         ELSE IF q[i] = 0 THEN f[i - 1] ELSE Append(f[i - 1], q[i])]

(* It exists.                                                              *)
LEMMA FilterExists ==
  ASSUME NEW q, NEW n \in Nat
  PROVE  \E f : Filters(f, q, n)
<1> DEFINE T == {k \in Nat : \E f : Filters(f, q, k)}
<1>1. 0 \in T
  <2> DEFINE g == [i \in 0..0 |-> <<>>]
  <2>1. Filters(g, q, 0)
    BY DEF Filters
  <2> QED BY <2>1
<1>2. ASSUME NEW k \in T
      PROVE  k + 1 \in T
  <2>1. k \in Nat /\ k + 1 \in Nat
    OBVIOUS
  <2>2. PICK f : Filters(f, q, k)
    OBVIOUS
  <2> DEFINE v == IF q[k + 1] = 0 THEN f[k] ELSE Append(f[k], q[k + 1])
             g == [i \in 0..(k + 1) |-> IF i = k + 1 THEN v ELSE f[i]]
  <2>3. ASSUME NEW i \in 0..(k + 1)
        PROVE  g[i] = IF i = 0 THEN <<>>
                      ELSE IF q[i] = 0 THEN g[i - 1]
                      ELSE Append(g[i - 1], q[i])
    <3>1. CASE i = k + 1
      <4>1. g[i] = v /\ i - 1 = k /\ k \in 0..(k + 1) /\ i # 0 /\ k # k + 1
        BY <3>1, <2>1
      <4>2. g[k] = f[k]
        BY <4>1
      <4> QED BY <3>1, <4>1, <4>2
    <3>2. CASE i = 0
      BY <3>2, <2>1, <2>2 DEF Filters
    <3>3. CASE i # k + 1 /\ i # 0
      <4>1. i \in 0..k /\ i - 1 \in 0..(k + 1) /\ i - 1 # k + 1
        BY <3>3, <2>1
      <4>2. g[i] = f[i] /\ g[i - 1] = f[i - 1]
        BY <3>3, <4>1
      <4>3. f[i] = IF q[i] = 0 THEN f[i - 1] ELSE Append(f[i - 1], q[i])
        BY <3>3, <4>1, <2>2 DEF Filters
      <4> QED BY <3>3, <4>2, <4>3
    <3> QED BY <3>1, <3>2, <3>3
  <2>4. g = [i \in 0..(k + 1) |-> g[i]]
    OBVIOUS
  <2> HIDE DEF g
  <2>5. Filters(g, q, k + 1)
    BY <2>3, <2>4 DEF Filters
  <2> QED BY <2>1, <2>5
<1>3. T \in SUBSET Nat
  OBVIOUS
<1> HIDE DEF T
<1>4. T = Nat
  BY <1>1, <1>2, <1>3, InductionOnNat
<1> QED BY <1>4 DEF T

(* So Data is its value at the end.                                        *)
LEMMA DataFilter ==
  ASSUME NEW q, Len(q) \in Nat
  PROVE  \E f : Filters(f, q, Len(q)) /\ Data(q) = f[Len(q)]
<1> DEFINE n == Len(q)
           F == CHOOSE f : Filters(f, q, n)
<1>1. \E f : Filters(f, q, n)
  BY FilterExists
<1>2. Filters(F, q, n)
  BY <1>1
<1>3. Data(q) = F[n]
  BY DEF Data, Filters
<1> QED BY <1>2, <1>3

(* One step of the function.                                               *)
LEMMA FilterStep ==
  ASSUME NEW f, NEW q, NEW n \in Nat, Filters(f, q, n)
  PROVE  /\ f[0] = <<>>
         /\ \A i \in 0..n : i + 1 <= n =>
              f[i + 1] = IF q[i + 1] = 0 THEN f[i] ELSE Append(f[i], q[i + 1])
<1>1. f[0] = <<>>
  BY DEF Filters
<1>2. ASSUME NEW i \in 0..n, i + 1 <= n
      PROVE  f[i + 1] = IF q[i + 1] = 0 THEN f[i] ELSE Append(f[i], q[i + 1])
  <2>1. i + 1 \in 0..n /\ i + 1 # 0 /\ (i + 1) - 1 = i
    BY <1>2
  <2> QED BY <2>1 DEF Filters
<1> QED BY <1>1, <1>2

(* Its values are sequences of datagrams.                                  *)
LEMMA FilterSeq ==
  ASSUME NEW f, NEW q \in Seq(Nat), Filters(f, q, Len(q)), NEW j \in 0..Len(q)
  PROVE  f[j] \in Seq(Nat)
<1> DEFINE n == Len(q)
           T == {i \in Nat : i <= n => f[i] \in Seq(Nat)}
<1>0. n \in Nat /\ \A i \in 1..n : q[i] \in Nat
  BY LenProperties, ElementOfSeq
<1>1. /\ f[0] = <<>>
      /\ \A i \in 0..n : i + 1 <= n =>
           f[i + 1] = IF q[i + 1] = 0 THEN f[i] ELSE Append(f[i], q[i + 1])
  BY <1>0, FilterStep
<1> HIDE DEF n
<1>2. 0 \in T
  <2>1. <<>> \in Seq(Nat)
    BY EmptySeq
  <2> QED BY <1>1, <2>1
<1>3. ASSUME NEW i \in T
      PROVE  i + 1 \in T
  <2>1. i \in Nat /\ i + 1 \in Nat
    OBVIOUS
  <2>2. ASSUME i + 1 <= n
        PROVE  f[i + 1] \in Seq(Nat)
    <3>1. i \in 0..n /\ i + 1 \in 1..n /\ i <= n
      BY <1>0, <2>1, <2>2
    <3>2. f[i] \in Seq(Nat) /\ q[i + 1] \in Nat
      BY <1>0, <3>1
    <3>3. Append(f[i], q[i + 1]) \in Seq(Nat)
      BY <3>2, AppendProperties
    <3> QED BY <1>1, <2>2, <3>1, <3>2, <3>3
  <2> QED BY <2>1, <2>2
<1>4. T \in SUBSET Nat
  OBVIOUS
<1> HIDE DEF T
<1>5. T = Nat
  BY <1>2, <1>3, <1>4, InductionOnNat
<1>6. j \in T /\ j <= n
  BY <1>0, <1>5 DEF n
<1> QED BY <1>6 DEF T

(* Its values depend on the first datagrams alone.                         *)
LEMMA FilterPrefix ==
  ASSUME NEW f, NEW g, NEW q, NEW p, NEW n \in Nat, NEW m \in Nat, n <= m,
         Filters(f, q, n), Filters(g, p, m), \A i \in 1..n : p[i] = q[i]
  PROVE  f[n] = g[n]
<1> DEFINE T == {i \in Nat : i <= n => f[i] = g[i]}
<1>1. /\ f[0] = <<>>
      /\ \A i \in 0..n : i + 1 <= n =>
           f[i + 1] = IF q[i + 1] = 0 THEN f[i] ELSE Append(f[i], q[i + 1])
  BY FilterStep
<1>2. /\ g[0] = <<>>
      /\ \A i \in 0..m : i + 1 <= m =>
           g[i + 1] = IF p[i + 1] = 0 THEN g[i] ELSE Append(g[i], p[i + 1])
  BY FilterStep
<1>3. 0 \in T
  BY <1>1, <1>2
<1>4. ASSUME NEW i \in T
      PROVE  i + 1 \in T
  <2>1. i \in Nat /\ i + 1 \in Nat
    OBVIOUS
  <2>2. ASSUME i + 1 <= n
        PROVE  f[i + 1] = g[i + 1]
    <3>1. /\ i \in 0..n /\ i \in 0..m /\ i + 1 \in 1..n /\ i <= n /\ i + 1 <= m
      BY <2>1, <2>2
    <3>2. f[i] = g[i] /\ p[i + 1] = q[i + 1]
      BY <3>1
    <3>3. f[i + 1] = IF q[i + 1] = 0 THEN f[i] ELSE Append(f[i], q[i + 1])
      BY <1>1, <2>2, <3>1
    <3>4. g[i + 1] = IF p[i + 1] = 0 THEN g[i] ELSE Append(g[i], p[i + 1])
      BY <1>2, <3>1
    <3> QED BY <3>2, <3>3, <3>4
  <2> QED BY <2>1, <2>2
<1>5. T \in SUBSET Nat
  OBVIOUS
<1> HIDE DEF T
<1>6. T = Nat
  BY <1>3, <1>4, <1>5, InductionOnNat
<1>7. n \in T
  BY <1>6
<1> QED BY <1>7 DEF T

(* A datagram more at the end of the queue.                                *)
LEMMA DataAppend ==
  ASSUME NEW q \in Seq(Nat), NEW d \in Nat
  PROVE  Data(Append(q, d)) = IF d = 0 THEN Data(q) ELSE Append(Data(q), d)
<1> DEFINE p == Append(q, d)
           n == Len(q)
           m == Len(p)
<1>1. /\ p \in Seq(Nat) /\ m = n + 1 /\ p[n + 1] = d /\ n \in Nat /\ m \in Nat
      /\ \A i \in 1..n : p[i] = q[i]
  BY AppendProperties, LenProperties
<1>2. PICK f : Filters(f, q, n) /\ Data(q) = f[n]
  BY <1>1, DataFilter
<1> HIDE DEF p
<1>3. PICK g : Filters(g, p, m) /\ Data(p) = g[m]
  BY <1>1, DataFilter
<1> HIDE DEF m, n
<1>4. f[n] = g[n]
  <2>1. n <= m
    BY <1>1
  <2>2. Filters(f, q, n) /\ Filters(g, p, m) /\ n \in Nat /\ m \in Nat
        /\ \A i \in 1..n : p[i] = q[i]
    BY ONLY <1>1, <1>2, <1>3
  <2> QED BY ONLY <2>1, <2>2, FilterPrefix, Zenon
<1>5. n \in 0..m /\ n + 1 <= m
  BY <1>1
<1>6. g[n + 1] = IF p[n + 1] = 0 THEN g[n] ELSE Append(g[n], p[n + 1])
  <2>1. m \in Nat /\ Filters(g, p, m)
    BY <1>1, <1>3
  <2>2. \A i \in 0..m : i + 1 <= m =>
          g[i + 1] = IF p[i + 1] = 0 THEN g[i] ELSE Append(g[i], p[i + 1])
    BY ONLY <2>1, FilterStep
  <2> QED BY <1>5, <2>2
<1>7. Data(p) = IF d = 0 THEN Data(q) ELSE Append(Data(q), d)
  BY <1>1, <1>2, <1>3, <1>4, <1>6
<1> QED BY <1>7 DEF p

(* An element more at the end of the second of two sequences.              *)
LEMMA ConcatAppend ==
  ASSUME NEW S, NEW a \in Seq(S), NEW b \in Seq(S), NEW n \in S
  PROVE  a \o Append(b, n) = Append(a \o b, n)
<1> DEFINE e == <<n>>
           d == a \o b
<1>1. e \in Seq(S) /\ d \in Seq(S)
  BY ConcatProperties
<1>2. Append(b, n) = b \o e /\ Append(d, n) = d \o e
  BY <1>1, AppendIsConcat
<1> HIDE DEF e
<1>3. (a \o b) \o e = a \o (b \o e)
  <2>1. Three(S, a, b, e)
    BY <1>1 DEF Three
  <2> QED BY <2>1, Regroup
<1> QED BY <1>2, <1>3, Zenon

(* The first datagram leaves the queue.                                    *)
LEMMA DataTail ==
  ASSUME NEW q \in Seq(Nat), q # <<>>
  PROVE  Data(q) = IF Head(q) = 0 THEN Data(Tail(q))
                                  ELSE <<Head(q)>> \o Data(Tail(q))
<1> DEFINE t == Tail(q)
           n == Len(q)
           m == Len(t)
           h == Head(q)
           e == <<h>>
<1>1. /\ t \in Seq(Nat) /\ n = m + 1 /\ h = q[1] /\ h \in Nat /\ e \in Seq(Nat)
      /\ n \in Nat /\ m \in Nat /\ \A i \in 1..m : t[i] = q[i + 1]
  BY HeadTailProperties, LenProperties
<1>2. PICK f : Filters(f, q, n) /\ Data(q) = f[n]
  BY <1>1, DataFilter
<1> HIDE DEF t, h
<1>3. PICK g : Filters(g, t, m) /\ Data(t) = g[m]
  BY <1>1, DataFilter
<1>4. \A i \in 0..m : g[i] \in Seq(Nat)
  BY <1>1, <1>3, FilterSeq
<1>5. \A i \in 1..m : t[i] \in Nat
  BY <1>1, ElementOfSeq
<1> HIDE DEF m, n
<1>6. /\ f[0] = <<>>
      /\ \A i \in 0..n : i + 1 <= n =>
           f[i + 1] = IF q[i + 1] = 0 THEN f[i] ELSE Append(f[i], q[i + 1])
  BY <1>1, <1>2, FilterStep
<1>7. /\ g[0] = <<>>
      /\ \A i \in 0..m : i + 1 <= m =>
           g[i + 1] = IF t[i + 1] = 0 THEN g[i] ELSE Append(g[i], t[i + 1])
  BY <1>1, <1>3, FilterStep
<1> DEFINE T == {i \in Nat : i <= m =>
                   f[i + 1] = IF h = 0 THEN g[i] ELSE e \o g[i]}
<1>8. 0 \in T
  <2>1. 0 \in 0..n /\ 0 + 1 <= n /\ 0 + 1 = 1
    BY <1>1
  <2>2. f[1] = IF h = 0 THEN <<>> ELSE Append(<<>>, h)
    BY <1>1, <1>6, <2>1
  <2>3. Append(<<>>, h) = e /\ e \o <<>> = e
    BY <1>1, ConcatEmptySeq
  <2> QED BY <1>7, <2>1, <2>2, <2>3
<1>9. ASSUME NEW i \in T
      PROVE  i + 1 \in T
  <2>1. i \in Nat /\ i + 1 \in Nat
    OBVIOUS
  <2>2. ASSUME i + 1 <= m
        PROVE  f[(i + 1) + 1] = IF h = 0 THEN g[i + 1] ELSE e \o g[i + 1]
    <3>1. /\ i <= m /\ i \in 0..m /\ i + 1 \in 1..m /\ i + 1 \in 0..n
          /\ (i + 1) + 1 <= n
      BY <1>1, <2>1, <2>2
    <3>2. f[i + 1] = IF h = 0 THEN g[i] ELSE e \o g[i]
      BY <3>1
    <3> HIDE DEF T
    <3> DEFINE x == q[(i + 1) + 1]
    <3>3. f[(i + 1) + 1] = IF x = 0 THEN f[i + 1] ELSE Append(f[i + 1], x)
      BY <1>6, <3>1
    <3>4. t[i + 1] = x /\ x \in Nat /\ g[i] \in Seq(Nat)
      BY <1>1, <1>4, <1>5, <3>1
    <3>5. g[i + 1] = IF x = 0 THEN g[i] ELSE Append(g[i], x)
      BY <1>7, <2>2, <3>1, <3>4
    <3> HIDE DEF x, e
    <3>6. e \o Append(g[i], x) = Append(e \o g[i], x)
      <4> DEFINE b == g[i]
      <4>1. e \in Seq(Nat) /\ b \in Seq(Nat) /\ x \in Nat
        BY <1>1, <3>4
      <4> HIDE DEF b
      <4>2. e \o Append(b, x) = Append(e \o b, x)
        BY ONLY <4>1, ConcatAppend
      <4> QED BY <4>2 DEF b
    <3> QED BY <3>2, <3>3, <3>5, <3>6
  <2> QED BY <2>1, <2>2
<1>10. T \in SUBSET Nat
  OBVIOUS
<1> HIDE DEF T
<1>11. T = Nat
  BY <1>8, <1>9, <1>10, InductionOnNat
<1>12. m \in T
  BY <1>1, <1>11
<1>13. f[m + 1] = IF h = 0 THEN g[m] ELSE e \o g[m]
  BY <1>1, <1>12 DEF T
<1> QED BY <1>1, <1>2, <1>3, <1>13 DEF t, h

(* The data of a queue are datagrams.                                      *)
LEMMA DataSeq ==
  ASSUME NEW q \in Seq(Nat)
  PROVE  Data(q) \in Seq(Nat)
<1>1. Len(q) \in Nat /\ Len(q) \in 0..Len(q)
  BY LenProperties
<1>2. PICK f : Filters(f, q, Len(q)) /\ Data(q) = f[Len(q)]
  BY <1>1, DataFilter
<1> QED BY <1>1, <1>2, FilterSeq

(* An empty queue has none.                                                *)
LEMMA DataEmpty == Data(<<>>) = <<>>
<1>1. Len(<<>>) = 0
  OBVIOUS
<1>2. PICK f : Filters(f, <<>>, 0) /\ Data(<<>>) = f[0]
  BY <1>1, DataFilter
<1> QED BY <1>2, FilterStep

-----------------------------------------------------------------------------
(* The datagrams.                                                          *)
LEMMA UdpKeeps ==
  ASSUME LoopInv, DatagramInv, UdpInv, [Next]_vars
  PROVE  UdpInv'
<1>0. /\ received \in [Udps -> Seq(Nat)] /\ inbuff \in [Udps -> Seq(Nat)]
      /\ arrived \in [Udps -> Seq(Nat)] /\ queue \in [Udps -> Seq(Nat)]
      /\ env \in Nat
      /\ \A u \in Udps :
           Row(received[u], inbuff[u], Data(queue[u])) = arrived[u]
  BY DEF UdpInv, DatagramInv, LoopInv, LoopTypes
<1>1. CASE UNCHANGED <<queue, inbuff, received, arrived>>
  BY <1>0, <1>1 DEF UdpInv
<1>2. ASSUME NEW u \in Udps,
             NEW a \in Seq(Nat), received' = [received EXCEPT ![u] = a],
             NEW b \in Seq(Nat), inbuff' = [inbuff EXCEPT ![u] = b],
             NEW q, queue' = [queue EXCEPT ![u] = q],
             NEW r \in Seq(Nat), arrived' = [arrived EXCEPT ![u] = r],
             Row(a, b, Data(q)) = r
      PROVE  UdpInv'
  <2>1. /\ received' \in [Udps -> Seq(Nat)] /\ inbuff' \in [Udps -> Seq(Nat)]
        /\ arrived' \in [Udps -> Seq(Nat)]
    BY <1>0, <1>2
  <2>2. ASSUME NEW v \in Udps
        PROVE  Row(received'[v], inbuff'[v], Data(queue'[v])) = arrived'[v]
    <3>1. CASE v = u
      <4>1. /\ received'[v] = a /\ inbuff'[v] = b
            /\ queue'[v] = q /\ arrived'[v] = r
        BY <1>0, <1>2, <3>1
      <4> QED BY <1>2, <4>1
    <3>2. CASE v # u
      <4>1. /\ received'[v] = received[v] /\ inbuff'[v] = inbuff[v]
            /\ queue'[v] = queue[v] /\ arrived'[v] = arrived[v]
        BY <1>0, <1>2, <3>2
      <4> QED BY <1>0, <4>1
    <3> QED BY <3>1, <3>2
  <2> QED BY <2>1, <2>2 DEF UdpInv, Row
<1>3. ASSUME NEW u \in Udps
      PROVE  /\ received[u] \in Seq(Nat) /\ inbuff[u] \in Seq(Nat)
             /\ queue[u] \in Seq(Nat) /\ arrived[u] \in Seq(Nat)
             /\ Data(queue[u]) \in Seq(Nat)
             /\ Row(received[u], inbuff[u], Data(queue[u])) = arrived[u]
             /\ received = [received EXCEPT ![u] = received[u]]
             /\ inbuff = [inbuff EXCEPT ![u] = inbuff[u]]
             /\ queue = [queue EXCEPT ![u] = queue[u]]
             /\ arrived = [arrived EXCEPT ![u] = arrived[u]]
  BY <1>0, <1>3, DataSeq
<1>4. ASSUME NEW u \in Udps, receive(u)
      PROVE  UdpInv'
  <2> DEFINE a == received[u]
             b == inbuff[u]
             q == queue[u]
             c == Data(q)
             r == arrived[u]
             x == a \o b
  <2>1. /\ received' = [received EXCEPT ![u] = x]
        /\ inbuff' = [inbuff EXCEPT ![u] = <<>>]
        /\ UNCHANGED <<queue, arrived>>
    BY <1>4 DEF receive
  <2>2. x \in Seq(Nat) /\ <<>> \in Seq(Nat) /\ x \o <<>> = x
    BY <1>3, ConcatProperties, ConcatEmptySeq, EmptySeq
  <2>3. /\ r \in Seq(Nat) /\ Row(a, b, c) = r
        /\ queue' = [queue EXCEPT ![u] = q]
        /\ arrived' = [arrived EXCEPT ![u] = r]
    BY <1>3, <2>1
  <2>4. Row(x, <<>>, Data(q)) = r
    BY <2>2, <2>3 DEF Row
  <2> HIDE DEF a, b, q, c, r, x
  <2> QED BY <1>2, <2>1, <2>2, <2>3, <2>4
<1>5. ASSUME NEW u \in Udps, DatagramArrives(u)
      PROVE  UdpInv'
  <2> DEFINE a == received[u]
             b == inbuff[u]
             q == queue[u]
             c == Data(q)
             r == arrived[u]
  <2>1. PICK d \in {0, env} :
          /\ queue' = [queue EXCEPT ![u] = Append(q, d)]
          /\ arrived' = IF d = 0 THEN arrived
                                 ELSE [arrived EXCEPT ![u] = Append(r, d)]
    BY <1>5 DEF DatagramArrives
  <2>2. UNCHANGED <<inbuff, received>> /\ d \in Nat
    BY <1>0, <1>5 DEF DatagramArrives
  <2>3. /\ a \in Seq(Nat) /\ b \in Seq(Nat) /\ q \in Seq(Nat) /\ c \in Seq(Nat)
        /\ r \in Seq(Nat) /\ Row(a, b, c) = r
        /\ received' = [received EXCEPT ![u] = a]
        /\ inbuff' = [inbuff EXCEPT ![u] = b]
        /\ arrived = [arrived EXCEPT ![u] = r]
    BY <1>3, <2>2
  <2>4. Data(Append(q, d)) = IF d = 0 THEN c ELSE Append(c, d)
    BY <2>2, <2>3, DataAppend
  <2> HIDE DEF a, b, q, c, r
  <2>5. Three(Nat, a, b, c) /\ Append(r, d) \in Seq(Nat)
    BY <2>2, <2>3, AppendProperties DEF Three
  <2>6. Row(a, b, Append(c, d)) = Append(Row(a, b, c), d)
    BY <2>2, <2>5, RowAppend
  <2>7. CASE d = 0
    BY <1>2, <2>1, <2>3, <2>4, <2>7
  <2>8. CASE d # 0
    BY <1>2, <2>1, <2>3, <2>4, <2>5, <2>6, <2>8
  <2> QED BY <2>7, <2>8
<1>6. CASE handle_receive
  <2>1. CASE RecvData
    <3>1. PICK u \in Udps :
            /\ queue[u] # <<>> /\ Head(queue[u]) # 0
            /\ queue' = [queue EXCEPT ![u] = Tail(@)]
            /\ inbuff' = [inbuff EXCEPT ![u] = Append(@, Head(queue[u]))]
            /\ UNCHANGED <<received, arrived>>
      BY <2>1 DEF RecvData, recvUnchanged
    <3> DEFINE a == received[u]
               b == inbuff[u]
               q == queue[u]
               h == Head(q)
               t == Tail(q)
               c == Data(t)
               r == arrived[u]
    <3>2. /\ a \in Seq(Nat) /\ b \in Seq(Nat) /\ q \in Seq(Nat)
          /\ r \in Seq(Nat) /\ Row(a, b, Data(q)) = r
          /\ received' = [received EXCEPT ![u] = a]
          /\ arrived' = [arrived EXCEPT ![u] = r]
      BY <1>3, <3>1
    <3>3. h \in Nat /\ t \in Seq(Nat)
      BY <3>1, <3>2, HeadTailProperties
    <3>4. Data(q) = <<h>> \o c
      BY <3>1, <3>2, DataTail
    <3>5. queue' = [queue EXCEPT ![u] = t]
          /\ inbuff' = [inbuff EXCEPT ![u] = Append(b, h)]
      BY <3>1
    <3> HIDE DEF a, b, q, h, t, r
    <3>6. c \in Seq(Nat) /\ Append(b, h) \in Seq(Nat)
      BY <3>2, <3>3, DataSeq, AppendProperties
    <3> HIDE DEF c
    <3>7. Row(a, Append(b, h), c) = Row(a, b, <<h>> \o c)
      <4>1. Three(Nat, a, b, c)
        BY <3>2, <3>6 DEF Three
      <4> QED BY <3>3, <4>1, RowMove
    <3>8. Row(a, Append(b, h), Data(t)) = r
      BY <3>2, <3>4, <3>7, Zenon DEF c
    <3> QED BY <1>2, <3>2, <3>5, <3>6, <3>8
  <2>2. CASE RecvStop
    <3>1. PICK u \in Udps :
            /\ \/ UNCHANGED queue
               \/ /\ queue[u] # <<>> /\ Head(queue[u]) = 0
                  /\ queue' = [queue EXCEPT ![u] = Tail(@)]
            /\ UNCHANGED <<inbuff, received, arrived>>
      BY <2>2 DEF RecvStop, recvUnchanged
    <3>2. CASE queue' = queue
      BY <1>1, <3>1, <3>2
    <3>3. CASE /\ queue[u] # <<>> /\ Head(queue[u]) = 0
               /\ queue' = [queue EXCEPT ![u] = Tail(@)]
      <4> DEFINE a == received[u]
                 b == inbuff[u]
                 q == queue[u]
                 t == Tail(q)
                 r == arrived[u]
      <4>1. /\ a \in Seq(Nat) /\ b \in Seq(Nat) /\ q \in Seq(Nat)
            /\ r \in Seq(Nat) /\ Row(a, b, Data(q)) = r
            /\ received' = [received EXCEPT ![u] = a]
            /\ inbuff' = [inbuff EXCEPT ![u] = b]
            /\ arrived' = [arrived EXCEPT ![u] = r]
        BY <1>3, <3>1
      <4>2. Data(q) = Data(t)
        BY <3>3, <4>1, DataTail
      <4>3. queue' = [queue EXCEPT ![u] = t]
        BY <3>3
      <4> HIDE DEF a, b, q, t, r
      <4>4. Row(a, b, Data(t)) = r
        BY <4>1, <4>2
      <4> QED BY <1>2, <4>1, <4>3, <4>4
    <3> QED BY <3>1, <3>2, <3>3
  <2>3. CASE RecvAgain \/ UdpReturn \/ UdpEventcb
    BY <1>1, <2>3 DEF RecvAgain, UdpReturn, UdpEventcb, recvUnchanged, udpvars
  <2> QED BY <1>6, <2>1, <2>2, <2>3 DEF handle_receive
<1>7. CASE \/ AcceptorStep \/ SignalStep \/ TimerStep \/ PollStep
           \/ UNCHANGED vars
  BY <1>1, <1>7
     DEF AcceptorStep, SignalStep, TimerStep, PollStep, vars, udpvars
<1>8. CASE UdpStep
  <2>1. ASSUME NEW u \in Udps,
               \/ add_udpev(u) \/ enable_listen(u) \/ del_listen(u)
               \/ SetEvents(u) \/ modev(u) \/ send_to(u) \/ DestroyUdp(u)
               \/ SocketError(u)
        PROVE  UdpInv'
    BY <1>1, <2>1
       DEF add_udpev, enable_listen, del_listen, SetEvents, modev, send_to,
           udpUnchanged, DestroyUdp, udpvars, SocketError
  <2> QED BY <1>4, <1>5, <1>6, <1>8, <2>1 DEF UdpStep, UdpUser
<1>9. ASSUME NEW e \in Objs, delev(e) \/ Relisten(e)
      PROVE  UdpInv'
  BY <1>1, <1>9 DEF delev, Relisten, udpvars
<1> QED BY <1>7, <1>8, <1>9, StepKinds DEF Objs

-----------------------------------------------------------------------------
(* The inductive invariant.                                                *)
IndInv ==
  /\ LoopInv /\ SlotInv /\ TimerInv
  /\ Told /\ mask[Acc] = Flags
  /\ DatagramInv /\ OneSocket /\ ClientInv /\ SignalInv /\ UdpInv

(* Before the constructor of the server nothing has happened.              *)
LEMMA InitInd == Init => IndInv
<1> SUFFICES ASSUME Init
             PROVE  IndInv
  OBVIOUS
<1> USE ReactorAssumption DEF Init, ReactorInit, Objs, Events
<1>0. <<>> \in Seq(Nat) /\ <<>> \in Seq(Signos) /\ Row(<<>>, <<>>, <<>>) = <<>>
  BY EmptySeq DEF Row
<1>1. LoopInv
  BY DEF LoopInv, LoopTypes, Place, Pointers, InHandler, FirstMask, Flags
<1>2. SlotInv
  BY DEF SignalInit, SlotInv, SlotLive
<1>3. TimerInv
  BY DEF TimerInit, TimerInv
<1>4. Told /\ mask[Acc] = Flags
  BY DEF Told, FirstMask, Flags
<1>5. OneSocket /\ ClientInv
  BY DEF AcceptorInit, OneSocket, ClientInv
<1>6. DatagramInv
  BY <1>0 DEF UdpInit, DatagramInv
<1>7. SignalInv
  <2>1. /\ hand = <<>> /\ pipe = [s \in Sigs |-> <<>>]
        /\ written = pipe /\ called = pipe
    BY DEF SignalInit
  <2>2. SignalTypes
    BY <1>0, <2>1 DEF SignalTypes
  <2>3. \A s \in Sigs : InHand(s) = <<>>
    BY <2>1 DEF InHand
  <2> QED BY <1>0, <2>1, <2>2, <2>3 DEF SignalInv
<1>8. UdpInv
  <2>1. /\ queue = [u \in Udps |-> <<>>]
        /\ inbuff = queue /\ received = queue /\ arrived = queue
    BY DEF UdpInit
  <2> QED BY <1>0, <2>1, DataEmpty DEF UdpInv
<1> QED BY <1>1, <1>2, <1>3, <1>4, <1>5, <1>6, <1>7, <1>8 DEF IndInv

(* It holds in every state.                                                *)
LEMMA Invariance == Spec => []IndInv
<1>1. IndInv /\ [Next]_vars => IndInv'
  <2> SUFFICES ASSUME IndInv, [Next]_vars
               PROVE  IndInv'
    OBVIOUS
  <2>1. LoopInv'
    BY LoopStepKeeps DEF IndInv
  <2>2. SlotInv' /\ TimerInv'
    BY SlotStep, TimerStepKeeps DEF IndInv
  <2>3. Told' /\ mask'[Acc] = Flags
    BY ToldStep DEF IndInv
  <2>4. DatagramInv' /\ OneSocket' /\ ClientInv'
    BY DatagramStep, AcceptorKeeps DEF IndInv
  <2>5. SignalInv' /\ UdpInv'
    BY SignalKeeps, UdpKeeps DEF IndInv
  <2>6. Flags' = Flags
    OBVIOUS
  <2> QED BY <2>1, <2>2, <2>3, <2>4, <2>5, <2>6 DEF IndInv
<1> QED BY <1>1, InitInd, PTL DEF Spec

-----------------------------------------------------------------------------
(* The signal handler never follows the static slot into freed memory,     *)
(* between whichever two steps the signal comes (signalevent.cpp           *)
(* handle_signal, ~signalevent).                                           *)
THEOREM HandlerFindsObject == Spec => []SlotLive
<1>1. IndInv => SlotLive
  BY DEF IndInv, SlotInv
<1> QED BY <1>1, Invariance, PTL

(* evlist_ holds no pointer to a deleted event, but those of UDP objects   *)
(* that their own event callback closed (server.cpp delev, add_udpev;      *)
(* eventloop.cpp loop).                                                    *)
THEOREM NoDanglingEvent == Spec => []EvlistLive
<1>1. IndInv => EvlistLive
  BY DEF IndInv, LoopInv, Pointers, EvlistLive
<1> QED BY <1>1, Invariance, PTL

(* A timer that is not periodic calls back at most once, however often it  *)
(* leaves the loop and returns (timerevent.cpp _init_, handle_timeout).    *)
THEOREM OneShot == Spec => []OneShotOnce
<1>1. IndInv => OneShotOnce
  BY DEF IndInv, TimerInv, OneShotOnce
<1> QED BY <1>1, Invariance, PTL

(* While the loop sleeps no datagram waits for a UDP event that listens,   *)
(* however its mask was changed and whenever handle_receive stopped for    *)
(* lack of data (udpevent.cpp handle_receive, enable_listen, modev).       *)
THEOREM NoDatagramWaits == Spec => []NoDatagramLeft
<1>1. IndInv => NoDatagramLeft
  <2> SUFFICES ASSUME IndInv, Asleep, NEW u \in Udps, u \in registered,
                      "in" \in mask[u], u \notin cut, queue[u] # <<>>
               PROVE  FALSE
    BY DEF NoDatagramLeft
  <2>1. at = "poll" /\ Reported(Readable) = {}
    BY DEF Asleep
  <2>2. u \in edge
    BY <2>1 DEF IndInv, LoopInv, Place, DatagramInv, Owed
  <2>3. interest[u] = mask[u]
    BY DEF IndInv, Told
  <2>4. u \in Readable
    BY DEF Readable, Events, Objs
  <2> QED BY <2>1, <2>2, <2>3, <2>4 DEF Reported
<1> QED BY <1>1, Invariance, PTL

(* No client waits on the acceptor's own socket lfd_ while the loop sleeps *)
(* and accepts, whichever constructor the server had.                      *)
OwnClientsServed ==
  Asleep /\ tcp_enable /\ Acc \in registered /\ ~broke => backlog[lfd] = 0

(* It follows from the invariant: a client that waits has set an edge.     *)
LEMMA OwnQueueEmpty ==
  ASSUME IndInv
  PROVE  OwnClientsServed
<1> SUFFICES ASSUME Asleep, tcp_enable, Acc \in registered, ~broke
             PROVE  backlog[lfd] = 0
  BY DEF OwnClientsServed
<1>1. alive /\ at = "poll" /\ Reported(Readable) = {}
  BY DEF Asleep
<1>2. lfd \in Socks /\ evfd = lfd
  BY <1>1 DEF IndInv, OneSocket
<1>3. backlog[lfd] = 0 \/ Acc \in edge
  BY <1>1, ReactorAssumption DEF IndInv, ClientInv, Owed, LoopInv, Place
<1>4. interest[Acc] = Flags
  BY DEF IndInv, Told
<1>5. backlog[lfd] \in Nat /\ evfd # None
  BY <1>2, AcceptorAssumption DEF IndInv, ClientInv
<1>6. backlog[lfd] > 0 => Acc \in Readable
  BY <1>2, <1>5 DEF Readable, Events
<1> QED BY <1>1, <1>3, <1>4, <1>5, <1>6 DEF Reported, Flags

(* However clients, errors of accept, callbacks and the user's calls       *)
(* interleave, the edge triggered handle_accept leaves nobody waiting on   *)
(* lfd_. A server constructed with a port opens two sockets on it, of      *)
(* which lfd_ is the second: only clients of the first are left            *)
(* (acceptor.cpp handle_accept, listen; server.cpp server, enable_tcp).    *)
THEOREM NoOwnClientWaits == Spec => []OwnClientsServed
  BY Invariance, OwnQueueEmpty, PTL

(* While the loop sleeps no client waits on the port of a server that was  *)
(* constructed without one and is accepting: handle_accept takes everyone  *)
(* and listen makes epoll look again (acceptor.cpp handle_accept, listen). *)
THEOREM NoClientWaits == Spec => [](~CtorPort => NoClientStranded)
<1>1. IndInv => (~CtorPort => NoClientStranded)
  <2> SUFFICES ASSUME IndInv, ~CtorPort, Asleep, Acc \in registered, ~broke,
                      NEW s \in listening
               PROVE  backlog[s] = 0
    BY DEF NoClientStranded
  <2>1. tcp_enable /\ s = lfd
    BY DEF IndInv, OneSocket, Asleep
  <2> QED BY <2>1, OwnQueueEmpty DEF OwnClientsServed
<1> QED BY <1>1, Invariance, PTL

(* timerfd_settime gets what _init_ was told: a valid count of nanoseconds *)
(* that adds up to the timeout, and the value that disarms the timer only  *)
(* for the timeout 0 (timerevent.cpp _init_).                              *)
THEOREM TimespecExactly ==
  ASSUME NEW ms \in Nat
  PROVE  /\ 0 =< timespec(ms).nsec /\ timespec(ms).nsec < 1000000000
         /\ timespec(ms).sec * 1000 + timespec(ms).nsec \div 1000000 = ms
         /\ Disarms(timespec(ms)) <=> ms = 0
<1> DEFINE s == ms \div 1000
           r == ms % 1000
<1>1. /\ s \in Int /\ 0 =< s /\ r \in Int /\ 0 =< r /\ r =< 999
      /\ s * 1000 + r = ms
  BY SMT
<1>2. timespec(ms).sec = s /\ timespec(ms).nsec = r * 1000000
  BY SMT DEF timespec
<1> HIDE DEF s, r
<1>3. 0 =< r * 1000000 /\ r * 1000000 < 1000000000
  BY ONLY <1>1, SMT
<1>4. (r * 1000000) \div 1000000 = r
  BY ONLY <1>1, SMT
<1>5. s = 0 /\ r * 1000000 = 0 <=> ms = 0
  BY ONLY <1>1, SMT
<1> QED BY ONLY <1>1, <1>2, <1>3, <1>4, <1>5, SMT DEF Disarms

(* Signals that fit the pipe and datagrams that fit the queue are          *)
(* delivered once and in order (signalevent.cpp handle_signal,             *)
(* handle_read; udpevent.cpp handle_receive, receive).                     *)
THEOREM InOrderOfArrival == Spec => []DeliveredInOrder
<1>1. IndInv => DeliveredInOrder
  <2> SUFFICES ASSUME IndInv
               PROVE  DeliveredInOrder
    OBVIOUS
  <2>1. \A s \in cbset \cap Sigs :
          called[s] \o (IF cur = s THEN hand ELSE <<>>) \o pipe[s] = written[s]
    BY DEF IndInv, SignalInv, Row, InHand
  <2>2. \A u \in Udps :
          received[u] \o inbuff[u] \o Data(queue[u]) = arrived[u]
    BY DEF IndInv, UdpInv, Row
  <2> QED BY <2>1, <2>2, Zenon DEF DeliveredInOrder
<1> QED BY <1>1, Invariance, PTL
=============================================================================
