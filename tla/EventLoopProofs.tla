--------------------------- MODULE EventLoopProofs ---------------------------
(***************************************************************************)
(* For every number of connections, timers and threads that call           *)
(* loopbreak, and every depth of nested callbacks: the reactor never       *)
(* touches a deleted event, leaks no connection or timer, and deletes an   *)
(* object twice only if delev is called for it inside its own delev.       *)
(***************************************************************************)
EXTENDS EventLoop, TLAPS

(* Until ~server runs, exactly the objects in events_ have callbacks.      *)
CallbacksOwned == pc \notin Dying \cup {"crashed"} => cbset = owned

(* A queued object has no callbacks, so its destructor calls no readcb_.   *)
QueuedSilent ==
  \A e \in Objs : Queued(e) => e \notin cbset /\ life[e] # "unborn"

(* An object that is alive has someone who will delete it.                 *)
SomeoneDeletes ==
  \A e \in Objs : life[e] = "live" => e \in owned \/ Queued(e)

(* closed_ is set only once the event has left the loop.                   *)
ClosedLeft ==
  \A e \in closed : e \notin evlist \cup registered /\ life[e] # "unborn"

(* A queued object whose destructor will not take its event off the loop   *)
(* has left it: any timer always, any object between two batches.          *)
QueuedLeft ==
  \A e \in Objs :
    Queued(e) /\ (e \in Tevs \/ pc \notin InIteration \cup {"crashed"})
      => e \notin evlist

(* Nothing of a batch is in use when objects are deleted.                  *)
BatchOver ==
  /\ pc \notin InIteration \ {"sweep"} => batch = {}
  /\ pc \notin InCallback \cup {"handle"} => cur = None

(* The closing callback runs for a connection that is not yet closed.      *)
EventcbOwned == pc = "eventcb" => cur \in Bevs \cap owned

(* The loop knows of no event of the acceptor but ev_, and of that one     *)
(* only until ~server stops the acceptor.                                  *)
AcceptorInv ==
  \A a \in Accs : a \in evlist \cup registered
                  => a = lsn /\ a \in evlist /\ pc \notin Dying

(* How far the destructors are.                                            *)
DtorPhase ==
  /\ pc \in {"dtorl", "dtorq", "destroyed"} => owned = {}
  /\ pc = "destroyed" => \A e \in Objs : ~Queued(e)

(* evlist_ and epoll hold no pointer to a deleted event.                   *)
PointersLive == \A e \in evlist \cup registered : Live(e)

(* What an operation that waits for a readcb_ will find when it goes on:   *)
(* its object is alive, and an object that delev was removing is still     *)
(* owned unless the callback removed it again.                             *)
Waiting(i) ==
  /\ life[calls[i].ev] = "live"
  /\ calls[i].op = "delev" => calls[i].ev \in owned \cup again
  /\ calls[i].op = "dtor" =>
       i = 1 /\ pc \in {"dtorcb", "hung"} /\ calls[i].ev \in owned
  /\ pc = "eventcb" => calls[i].ev # cur

(* Operations wait only while a callback runs.                             *)
CallsInv ==
  /\ pc = "setup" => inbuf = {}
  /\ calls # <<>> => pc \in (UserCode \ {"setup"}) \cup {"hung"}
  /\ \A i \in DOMAIN calls : Waiting(i)

(* All that the steps of the loop, the callbacks and the destructors keep. *)
IndInv ==
  /\ TypeOK
  /\ DispatchLive
  /\ DeletedOnceUnlessReentered
  /\ PointersLive
  /\ CallbacksOwned
  /\ QueuedSilent
  /\ SomeoneDeletes
  /\ ClosedLeft
  /\ QueuedLeft
  /\ BatchOver
  /\ EventcbOwned
  /\ AcceptorInv
  /\ DtorPhase
  /\ CallsInv

-----------------------------------------------------------------------------
(* It holds before loop() is called.                                       *)
LEMMA InitInd == Init => IndInv
<1> SUFFICES ASSUME Init PROVE IndInv
  OBVIOUS
<1> USE ObjectsAssumption, BoundsAssumption DEF Init
<1>0. FALSE \in BOOLEAN /\ 0 \in Nat /\ MaxIO \in 0..MaxIO
  OBVIOUS
<1>1. TypeOK
  <2>1. /\ shutdown \in BOOLEAN /\ efdcount \in Nat
        /\ io \in 0..MaxIO
    BY <1>0, Zenon
  <2>2. pc \in PCs /\ cur \in Events \cup {None}
    BY DEF PCs
  <2>3. batch \subseteq Events /\ revents \subseteq {"in", "out", "err"}
        /\ registered \subseteq Events /\ evlist \subseteq Events
    BY DEF Events, Born
  <2>4. /\ delque \in [Objs -> Nat]
        /\ life \in [Born -> {"unborn", "live", "freed"}]
        /\ brk \in [Breakers -> {"idle", "write", "done"}]
    OBVIOUS
  <2>5. /\ cbset \subseteq Objs /\ owned \subseteq Objs
        /\ closed \subseteq Bevs /\ fdopen \subseteq Objs
    OBVIOUS
  <2>6. /\ inbuf \subseteq Bevs /\ calls \in Seq(Frames)
        /\ again \subseteq Objs /\ lsn \in Accs
    OBVIOUS
  <2> QED BY <2>1, <2>2, <2>3, <2>4, <2>5, <2>6, Zenon DEF TypeOK
<1>2. DispatchLive /\ CallbacksOwned /\ BatchOver /\ EventcbOwned /\ DtorPhase
  BY DEF DispatchLive, CallbacksOwned, BatchOver, EventcbOwned, DtorPhase
<1>3. DeletedOnceUnlessReentered /\ QueuedSilent /\ SomeoneDeletes
      /\ ClosedLeft /\ QueuedLeft
  BY DEF DeletedOnceUnlessReentered, QueuedSilent, SomeoneDeletes, ClosedLeft,
         QueuedLeft, Queued, Born
<1>4. PointersLive /\ AcceptorInv
  BY DEF PointersLive, AcceptorInv, Live, Born, Dying
<1>5. CallsInv
  BY DEF CallsInv
<1> QED BY <1>1, <1>2, <1>3, <1>4, <1>5 DEF IndInv

(* A step that leaves the objects and the event list alone, and neither    *)
(* begins a destructor nor ends the sweep early nor leaves user code while *)
(* an operation waits.                                                     *)
LEMMA Frame ==
  ASSUME IndInv,
         UNCHANGED <<delque, life, cbset, owned, closed, fdopen, again,
                     loopvars, calls, lsn>>,
         \/ pc' = pc
         \/ /\ pc \notin Dying \cup {"crashed"}
            /\ pc' \notin Dying \cup {"crashed"},
         \/ pc' \in InIteration
         \/ pc \notin InIteration
         \/ \A e \in Objs : ~Queued(e),
         calls # <<>> => pc' = pc /\ cur' = cur,
         pc' = "setup" => pc = "setup" /\ inbuf' = inbuf
  PROVE  /\ DeletedOnceUnlessReentered' /\ PointersLive' /\ CallbacksOwned'
         /\ QueuedSilent' /\ SomeoneDeletes' /\ ClosedLeft' /\ QueuedLeft'
         /\ AcceptorInv' /\ DtorPhase' /\ CallsInv'
<1> USE DEF loopvars, IndInv
<1>1. /\ DeletedOnceUnlessReentered' /\ QueuedSilent' /\ SomeoneDeletes'
      /\ ClosedLeft'
  BY DEF DeletedOnceUnlessReentered, QueuedSilent, SomeoneDeletes, ClosedLeft,
         Queued
<1>2. CallbacksOwned'
  BY DEF CallbacksOwned
<1>3. QueuedLeft'
  BY DEF QueuedLeft, Queued
<1>4. DtorPhase' /\ AcceptorInv'
  BY DEF DtorPhase, AcceptorInv, Queued, Dying
<1>5. PointersLive'
  BY DEF PointersLive, Live
<1>6. CallsInv'
  BY DEF CallsInv, Waiting
<1> QED BY <1>1, <1>2, <1>3, <1>4, <1>5, <1>6

-----------------------------------------------------------------------------
(* The steps of the loop thread that change no object.                     *)

(* The head of loop() and epoll_wait.                                      *)
LEMMA IdleInd ==
  ASSUME IndInv, start \/ Check \/ EpollWait \/ EpollEintr \/ EpollError
  PROVE  IndInv'
<1> USE ObjectsAssumption DEF IndInv
<1>1. TypeOK'
  BY BoundsAssumption
     DEF start, Check, EpollWait, EpollEintr, EpollError, TypeOK, objvars,
         loopvars, stopvars, PCs, InIteration, InCallback, Dying, Events, Born,
         Objs
<1>2. DispatchLive'
  <2>1. CASE EpollWait
    <3>1. PICK S \in SUBSET (registered \ {Efd}) :
            batch' = S \cup (IF efdcount > 0 THEN {Efd} ELSE {})
      BY <2>1 DEF EpollWait
    <3>2. \A e \in batch' : Live(e)
      BY <3>1 DEF PointersLive, Live
    <3>3. cur' = None /\ life' = life
      BY <2>1 DEF EpollWait, objvars, BatchOver, InCallback
    <3> QED BY <3>2, <3>3 DEF DispatchLive, Live
  <2>2. CASE start \/ Check \/ EpollEintr \/ EpollError
    BY <2>2
       DEF start, Check, EpollEintr, EpollError, DispatchLive, InIteration,
           InCallback
  <2> QED BY <2>1, <2>2
<1>3. BatchOver' /\ EventcbOwned'
  BY DEF start, Check, EpollWait, EpollEintr, EpollError, BatchOver,
         EventcbOwned, InIteration, InCallback
<1>4. /\ DeletedOnceUnlessReentered' /\ PointersLive' /\ CallbacksOwned'
      /\ QueuedSilent' /\ SomeoneDeletes' /\ ClosedLeft' /\ QueuedLeft'
      /\ AcceptorInv' /\ DtorPhase' /\ CallsInv'
  <2>1. UNCHANGED <<delque, life, cbset, owned, closed, fdopen, again,
                    loopvars, calls, lsn>>
    BY DEF objvars, start, Check, EpollWait, EpollEintr, EpollError
  <2>2. /\ \/ pc' = pc
           \/ /\ pc \notin Dying \cup {"crashed"}
              /\ pc' \notin Dying \cup {"crashed"}
        /\ \/ pc' \in InIteration
           \/ pc \notin InIteration
           \/ \A e \in Objs : ~Queued(e)
        /\ calls # <<>> => pc' = pc /\ cur' = cur
        /\ pc' = "setup" => pc = "setup" /\ inbuf' = inbuf
    BY DEF CallsInv, UserCode, InCallback, start, Check, EpollWait, EpollEintr,
           EpollError, InIteration, InCallback, Dying
  <2> QED BY <2>1, <2>2, Frame
<1> QED BY <1>1, <1>2, <1>3, <1>4

(* The next event of the batch.                                            *)
LEMMA DispatchInd ==
  ASSUME IndInv, NEW ev \in Events, Dispatch(ev)
  PROVE  IndInv'
<1> USE ObjectsAssumption DEF IndInv
<1>1. TypeOK'
  BY BoundsAssumption
     DEF Dispatch, Flags, TypeOK, objvars, loopvars, stopvars, PCs,
         InIteration, Events
<1>2. DispatchLive'
  BY DEF Dispatch, DispatchLive, Live, objvars, InIteration, Events
<1>3. BatchOver' /\ EventcbOwned'
  BY DEF Dispatch, BatchOver, EventcbOwned, InIteration, Events
<1>4. /\ DeletedOnceUnlessReentered' /\ PointersLive' /\ CallbacksOwned'
      /\ QueuedSilent' /\ SomeoneDeletes' /\ ClosedLeft' /\ QueuedLeft'
      /\ AcceptorInv' /\ DtorPhase' /\ CallsInv'
  <2>1. UNCHANGED <<delque, life, cbset, owned, closed, fdopen, again,
                    loopvars, calls, lsn>>
    BY DEF objvars, Dispatch
  <2>2. /\ \/ pc' = pc
           \/ /\ pc \notin Dying \cup {"crashed"}
              /\ pc' \notin Dying \cup {"crashed"}
        /\ \/ pc' \in InIteration
           \/ pc \notin InIteration
           \/ \A e \in Objs : ~Queued(e)
        /\ calls # <<>> => pc' = pc /\ cur' = cur
        /\ pc' = "setup" => pc = "setup" /\ inbuf' = inbuf
    BY DEF CallsInv, UserCode, InCallback, Dispatch, InIteration, Dying
  <2> QED BY <2>1, <2>2, Frame
<1> QED BY <1>1, <1>2, <1>3, <1>4

(* The handlers of the eventfd, the acceptor and a timer.                  *)
LEMMA EventfdInd ==
  ASSUME IndInv, read_eventfd \/ AcceptEnd \/ handle_timeout
  PROVE  IndInv'
<1> USE ObjectsAssumption DEF IndInv
<1>1. TypeOK'
  <2>1. CASE read_eventfd
    <3>1. shutdown' \in BOOLEAN /\ efdcount' \in Nat
      <4>1. TRUE \in BOOLEAN /\ 0 \in Nat OBVIOUS
      <4> QED BY <2>1, <4>1, Zenon DEF read_eventfd
    <3>2. revents' \subseteq {"in", "out", "err"}
      BY <2>1 DEF read_eventfd
    <3>3. UNCHANGED <<pc, batch, cur, objvars, loopvars, brk, io, calls, lsn>>
      BY <2>1 DEF read_eventfd
    <3> QED BY <3>1, <3>2, <3>3, Zenon DEF TypeOK, objvars, loopvars
  <2>2. CASE AcceptEnd \/ handle_timeout
    BY <2>2
       DEF AcceptEnd, handle_timeout, TypeOK, objvars, loopvars, stopvars, PCs,
           InIteration, InCallback
  <2> QED BY <2>1, <2>2
<1>2. DispatchLive'
  BY DEF read_eventfd, AcceptEnd, handle_timeout, DispatchLive, Live, objvars,
         loopvars, InIteration
<1>3. BatchOver' /\ EventcbOwned'
  BY DEF read_eventfd, AcceptEnd, handle_timeout, BatchOver, EventcbOwned,
         objvars, loopvars, InIteration, InCallback
<1>4. /\ DeletedOnceUnlessReentered' /\ PointersLive' /\ CallbacksOwned'
      /\ QueuedSilent' /\ SomeoneDeletes' /\ ClosedLeft' /\ QueuedLeft'
      /\ AcceptorInv' /\ DtorPhase' /\ CallsInv'
  <2>1. UNCHANGED <<delque, life, cbset, owned, closed, fdopen, again,
                    loopvars, calls, lsn>>
    BY DEF objvars, read_eventfd, AcceptEnd, handle_timeout
  <2>2. /\ \/ pc' = pc
           \/ /\ pc \notin Dying \cup {"crashed"}
              /\ pc' \notin Dying \cup {"crashed"}
        /\ \/ pc' \in InIteration
           \/ pc \notin InIteration
           \/ \A e \in Objs : ~Queued(e)
        /\ calls # <<>> => pc' = pc /\ cur' = cur
        /\ pc' = "setup" => pc = "setup" /\ inbuf' = inbuf
    BY DEF objvars, CallsInv, UserCode, InCallback, read_eventfd, AcceptEnd,
           handle_timeout, InIteration, InCallback, Dying
  <2> QED BY <2>1, <2>2, Frame
<1> QED BY <1>1, <1>2, <1>3, <1>4

(* The parts of bfevent::handle_cb.                                        *)
LEMMA TransferInd ==
  ASSUME IndInv, NEW part \in {"in", "out", "err"},
         Transfer(part) \/ TransferEnd(part) \/ CallEventcb(part)
  PROVE  IndInv'
<1> USE ObjectsAssumption DEF IndInv
<1>1. TypeOK'
  <2>1. pc' \in PCs /\ revents' \subseteq revents
    BY DEF Transfer, TransferEnd, CallEventcb, TypeOK, PCs, InIteration,
           InCallback
  <2>2. io' \in 0..MaxIO
    BY BoundsAssumption DEF Transfer, TransferEnd, CallEventcb, TypeOK
  <2>3. inbuf' \subseteq Bevs
    BY DEF Transfer, TransferEnd, CallEventcb, Part, TypeOK, objvars
  <2>4. UNCHANGED <<batch, cur, delque, life, cbset, owned, closed, fdopen,
                    again, loopvars, stopvars, calls, lsn>>
    BY DEF Transfer, TransferEnd, CallEventcb, objvars
  <2> QED BY <2>1, <2>2, <2>3, <2>4 DEF TypeOK, loopvars, stopvars
<1>2. DispatchLive'
  BY DEF Transfer, TransferEnd, CallEventcb, Part, DispatchLive, Live, objvars,
         InIteration
<1>3. BatchOver' /\ EventcbOwned'
  BY DEF Transfer, TransferEnd, CallEventcb, Part, BatchOver, EventcbOwned,
         CallbacksOwned, objvars, InIteration, InCallback, Dying
<1>4. /\ DeletedOnceUnlessReentered' /\ PointersLive' /\ CallbacksOwned'
      /\ QueuedSilent' /\ SomeoneDeletes' /\ ClosedLeft' /\ QueuedLeft'
      /\ AcceptorInv' /\ DtorPhase' /\ CallsInv'
  <2>1. UNCHANGED <<delque, life, cbset, owned, closed, fdopen, again,
                    loopvars, calls, lsn>>
    BY DEF objvars, Transfer, TransferEnd, CallEventcb
  <2>2. /\ \/ pc' = pc
           \/ /\ pc \notin Dying \cup {"crashed"}
              /\ pc' \notin Dying \cup {"crashed"}
        /\ \/ pc' \in InIteration
           \/ pc \notin InIteration
           \/ \A e \in Objs : ~Queued(e)
        /\ calls # <<>> => pc' = pc /\ cur' = cur
        /\ pc' = "setup" => pc = "setup" /\ inbuf' = inbuf
    BY DEF CallsInv, UserCode, InCallback, Transfer, TransferEnd, CallEventcb,
           Part, InIteration, InCallback, Dying
  <2> QED BY <2>1, <2>2, Frame
<1> QED BY <1>1, <1>2, <1>3, <1>4

(* A handler returns, and the ends of the batch and of the sweep.          *)
LEMMA ReturnInd ==
  ASSUME IndInv, UserReturn \/ HandleDone \/ BatchDone \/ SweepDone
  PROVE  IndInv'
<1> USE ObjectsAssumption DEF IndInv
<1>1. TypeOK'
  BY BoundsAssumption
     DEF UserReturn, HandleDone, BatchDone, SweepDone, TypeOK, objvars,
         loopvars, stopvars, PCs, InIteration, InCallback, Dying, Events, Born,
         Objs
<1>2. DispatchLive'
  BY DEF UserReturn, HandleDone, BatchDone, SweepDone, DispatchLive, Live,
         objvars, InIteration, InCallback
<1>3. BatchOver' /\ EventcbOwned'
  BY DEF UserReturn, HandleDone, BatchDone, SweepDone, BatchOver, EventcbOwned,
         InIteration, InCallback
<1>4. /\ DeletedOnceUnlessReentered' /\ PointersLive' /\ CallbacksOwned'
      /\ QueuedSilent' /\ SomeoneDeletes' /\ ClosedLeft' /\ QueuedLeft'
      /\ AcceptorInv' /\ DtorPhase' /\ CallsInv'
  <2>1. UNCHANGED <<delque, life, cbset, owned, closed, fdopen, again,
                    loopvars, calls, lsn>>
    BY DEF objvars, UserReturn, HandleDone, BatchDone, SweepDone
  <2>2. /\ \/ pc' = pc
           \/ /\ pc \notin Dying \cup {"crashed"}
              /\ pc' \notin Dying \cup {"crashed"}
        /\ \/ pc' \in InIteration
           \/ pc \notin InIteration
           \/ \A e \in Objs : ~Queued(e)
        /\ calls # <<>> => pc' = pc /\ cur' = cur
        /\ pc' = "setup" => pc = "setup" /\ inbuf' = inbuf
    BY DEF CallsInv, UserCode, InCallback, UserReturn, HandleDone, BatchDone,
           SweepDone, InIteration, Dying
  <2> QED BY <2>1, <2>2, Frame
<1> QED BY <1>1, <1>2, <1>3, <1>4

(* loopbreak, from a callback or from another thread.                      *)
LEMMA LoopbreakInd ==
  ASSUME IndInv,
         \/ loopbreak_cb
         \/ \E t \in Breakers : LoopbreakTest(t) \/ write_eventfd(t)
  PROVE  IndInv'
<1> USE ObjectsAssumption DEF IndInv
<1>1. TypeOK'
  <2>1. efdcount' \in Nat /\ brk' \in [Breakers -> {"idle", "write", "done"}]
    BY DEF loopbreak_cb, LoopbreakTest, write_eventfd, TypeOK
  <2>2. UNCHANGED <<pc, batch, cur, revents, objvars, loopvars, shutdown, io,
                    calls, lsn>>
    BY DEF loopbreak_cb, LoopbreakTest, write_eventfd
  <2> QED BY <2>1, <2>2 DEF TypeOK, objvars, loopvars
<1>2. DispatchLive'
  BY DEF loopbreak_cb, LoopbreakTest, write_eventfd, DispatchLive, Live,
         objvars
<1>3. BatchOver' /\ EventcbOwned'
  BY DEF loopbreak_cb, LoopbreakTest, write_eventfd, BatchOver, EventcbOwned,
         objvars
<1>4. /\ DeletedOnceUnlessReentered' /\ PointersLive' /\ CallbacksOwned'
      /\ QueuedSilent' /\ SomeoneDeletes' /\ ClosedLeft' /\ QueuedLeft'
      /\ AcceptorInv' /\ DtorPhase' /\ CallsInv'
  <2>1. UNCHANGED <<delque, life, cbset, owned, closed, fdopen, again,
                    loopvars, calls, lsn>>
    BY DEF objvars, loopbreak_cb, LoopbreakTest, write_eventfd
  <2>2. /\ \/ pc' = pc
           \/ /\ pc \notin Dying \cup {"crashed"}
              /\ pc' \notin Dying \cup {"crashed"}
        /\ \/ pc' \in InIteration
           \/ pc \notin InIteration
           \/ \A e \in Objs : ~Queued(e)
        /\ calls # <<>> => pc' = pc /\ cur' = cur
        /\ pc' = "setup" => pc = "setup" /\ inbuf' = inbuf
    BY DEF objvars, loopbreak_cb, LoopbreakTest, write_eventfd, InIteration
  <2> QED BY <2>1, <2>2, Frame
<1> QED BY <1>1, <1>2, <1>3, <1>4

-----------------------------------------------------------------------------
(* The steps that create, close, queue or delete an object.                *)

(* A connection is accepted or a timer is added.                           *)
LEMMA CreateInd ==
  ASSUME IndInv, NEW x \in Objs, acceptcb_(x) \/ add_timeev(x)
  PROVE  IndInv'
<1> USE ObjectsAssumption DEF IndInv
<1>1. TypeOK'
  <2>1. registered' \subseteq Events /\ evlist' \subseteq Events
    BY DEF acceptcb_, add_timeev, Create, add_event, TypeOK, Events, Born, Objs
  <2>2. delque' \in [Objs -> Nat]
    BY DEF acceptcb_, add_timeev, TypeOK, Objs
  <2>6. life' \in [Born -> {"unborn", "live", "freed"}]
    BY DEF acceptcb_, add_timeev, Create, TypeOK, Objs
  <2>3. /\ cbset' \subseteq Objs /\ owned' \subseteq Objs
        /\ closed' \subseteq Bevs /\ fdopen' \subseteq Objs
    BY DEF acceptcb_, add_timeev, Create, TypeOK, Objs
  <2>4. /\ inbuf' \subseteq Bevs /\ calls' \in Seq(Frames)
        /\ again' \subseteq Objs /\ lsn' \in Accs
    BY DEF acceptcb_, add_timeev, TypeOK, Objs
  <2>5. pc' \in PCs /\ UNCHANGED <<batch, cur, revents, stopvars, io>>
    BY DEF acceptcb_, add_timeev, TypeOK
  <2> QED BY <2>1, <2>2, <2>3, <2>4, <2>5, <2>6 DEF TypeOK, stopvars
<1>2. DeletedOnceUnlessReentered'
  BY DEF acceptcb_, add_timeev, Create, QueuedSilent,
         DeletedOnceUnlessReentered, Queued, TypeOK, Objs, Born
<1>3. PointersLive'
  BY DEF acceptcb_, add_timeev, Create, add_event, PointersLive, Live, TypeOK,
         Objs, Events, Born
<1>4. CallbacksOwned' /\ QueuedSilent'
  <2>1. CallbacksOwned'
    BY DEF acceptcb_, add_timeev, Create, CallbacksOwned
  <2>2. QueuedSilent'
    BY DEF acceptcb_, add_timeev, Create, QueuedSilent, Queued, TypeOK, Objs,
           Born
  <2> QED BY <2>1, <2>2
<1>5. SomeoneDeletes'
  BY DEF acceptcb_, add_timeev, Create, SomeoneDeletes, Queued, TypeOK, Objs,
         Born
<1>6. ClosedLeft'
  BY DEF acceptcb_, add_timeev, Create, add_event, ClosedLeft, TypeOK, Objs,
         Born
<1>7. QueuedLeft'
  BY DEF acceptcb_, add_timeev, Create, add_event, QueuedLeft, QueuedSilent,
         Queued, Objs
<1>8. DispatchLive' /\ BatchOver'
  <2>1. UNCHANGED <<pc, batch, cur>>
    BY DEF acceptcb_, add_timeev
  <2>2. ASSUME NEW e \in Events, Live(e)
        PROVE  Live(e)'
    BY <2>2 DEF acceptcb_, add_timeev, Create, Live, TypeOK, Events
  <2> QED BY <2>1, <2>2 DEF DispatchLive, BatchOver, TypeOK
<1>9. EventcbOwned' /\ DtorPhase'
  BY DEF acceptcb_, add_timeev, Create, EventcbOwned, DtorPhase, InCallback,
         Objs
<1>10. AcceptorInv'
  BY DEF acceptcb_, add_timeev, Create, add_event, AcceptorInv, Objs
<1>11. CallsInv'
  <2>1. UNCHANGED <<pc, cur, calls, inbuf, again>> /\ owned \subseteq owned'
    BY DEF acceptcb_, add_timeev, Create
  <2>2. life[x] = "unborn" /\ life' = [life EXCEPT ![x] = "live"]
    BY DEF acceptcb_, add_timeev, Create
  <2>3. ASSUME NEW i \in DOMAIN calls PROVE Waiting(i)'
    <3>1. Waiting(i) /\ calls[i] \in Frames
      BY <2>3 DEF CallsInv, TypeOK
    <3>2. life'[calls[i].ev] = "live"
      BY <2>2, <3>1 DEF Waiting
    <3> QED BY <2>1, <3>1, <3>2 DEF Waiting
  <2> QED BY <2>1, <2>3 DEF CallsInv
<1> QED BY <1>1, <1>2, <1>3, <1>4, <1>5, <1>6, <1>7, <1>8, <1>9, <1>10, <1>11

(* The operation on x goes on that a readcb_ has, or has not, delayed: the *)
(* rest of delev, del_listen and close.  The caller's frame is gone.       *)
LEMMA EndInd ==
  ASSUME IndInv, NEW x \in Objs,
         pc \in UserCode, pc = "eventcb" => x # cur,
         UNCHANGED <<batch, cur, revents, stopvars, io, lsn>>,
         calls' \in Seq(Frames),
         \A i \in DOMAIN calls' : i \in DOMAIN calls /\ calls'[i] = calls[i],
         calls' = calls \/ calls # <<>>,
         \/ EndListen(x) \/ EndClose(x)
         \/ EndDelev(x) /\ x \in owned \cup again,
         life[x] = "live"
  PROVE  IndInv'
<1> USE ObjectsAssumption DEF IndInv
<1>1. TypeOK'
  <2>1. registered' \subseteq Events /\ evlist' \subseteq Events
    BY DEF EndListen, EndClose, EndDelev, Unlisten, del_event, TypeOK, Objs
  <2>2. delque' \in [Objs -> Nat]
    BY DEF EndListen, EndClose, EndDelev, LockAndClose, handle_close, TypeOK,
           Objs
  <2>6. life' \in [Born -> {"unborn", "live", "freed"}]
    BY DEF EndListen, EndClose, EndDelev, TypeOK, Objs
  <2>3. /\ cbset' \subseteq Objs /\ owned' \subseteq Objs
        /\ closed' \subseteq Bevs /\ fdopen' \subseteq Objs
    BY DEF EndListen, EndClose, EndDelev, LockAndClose, handle_close, Unlisten,
           TypeOK, Objs
  <2>4. /\ inbuf' \subseteq Bevs /\ calls' \in Seq(Frames)
        /\ again' \subseteq Objs /\ lsn' \in Accs
    BY DEF EndListen, EndClose, EndDelev, LockAndClose, handle_close, TypeOK,
           Objs
  <2>5. pc' \in PCs /\ UNCHANGED <<batch, cur, revents, stopvars, io>>
    BY DEF EndListen, EndClose, EndDelev, LockAndClose, PCs, TypeOK, Dying
  <2> QED BY <2>1, <2>2, <2>3, <2>4, <2>5, <2>6 DEF TypeOK, stopvars
<1>2. DeletedOnceUnlessReentered'
  BY DEF EndListen, EndClose, EndDelev, LockAndClose, handle_close,
         QueuedSilent, DeletedOnceUnlessReentered, Queued, TypeOK, Objs
<1>3. PointersLive'
  BY DEF EndListen, EndClose, EndDelev, Unlisten, del_event, PointersLive,
         Live, Objs
<1>4. CallbacksOwned' /\ QueuedSilent'
  <2>1. CallbacksOwned'
    BY DEF EndListen, EndClose, EndDelev, LockAndClose, handle_close,
           CallbacksOwned, Dying
  <2>2. QueuedSilent'
    BY DEF EndListen, EndClose, EndDelev, LockAndClose, handle_close,
           QueuedSilent, Queued, TypeOK, Objs
  <2> QED BY <2>1, <2>2
<1>5. SomeoneDeletes'
  BY DEF EndListen, EndClose, EndDelev, LockAndClose, handle_close,
         SomeoneDeletes, Queued, TypeOK, Objs
<1>6. ClosedLeft'
  BY DEF EndListen, EndClose, EndDelev, Unlisten, del_event, ClosedLeft, Objs
<1>7. QueuedLeft'
  BY DEF EndListen, EndClose, EndDelev, LockAndClose, handle_close, Unlisten,
         del_event, QueuedLeft, Queued, TypeOK, InIteration, InCallback, Objs
<1>8. DispatchLive' /\ BatchOver'
  BY DEF EndListen, EndClose, EndDelev, LockAndClose, DispatchLive, BatchOver,
         Live, InIteration, InCallback, Objs
<1>9. EventcbOwned' /\ DtorPhase'
  BY DEF EndListen, EndClose, EndDelev, LockAndClose, handle_close, UserCode,
         EventcbOwned, DtorPhase, InCallback, Objs
<1>10. AcceptorInv'
  BY DEF EndListen, EndClose, EndDelev, LockAndClose, Unlisten, del_event,
         AcceptorInv, Dying, Objs
<1>11. CallsInv'
  BY DEF EndListen, EndClose, EndDelev, LockAndClose, handle_close, CallsInv,
         Waiting, UserCode, InCallback, Frames, Objs
<1> QED BY <1>1, <1>2, <1>3, <1>4, <1>5, <1>6, <1>7, <1>8, <1>9, <1>10, <1>11

(* An operation on x begins with the readcb_ of x.                         *)
LEMMA CallInd ==
  ASSUME IndInv, NEW x \in Objs, NEW op \in {"delev", "listen", "close"},
         UserHas(x), CallReadcb(op, x)
  PROVE  IndInv'
<1> USE ObjectsAssumption DEF IndInv
<1>1. TypeOK'
  <2>1. registered' \subseteq Events /\ evlist' \subseteq Events
    BY DEF CallReadcb, loopvars, TypeOK, Objs
  <2>2. delque' \in [Objs -> Nat]
    BY DEF CallReadcb, objvars, TypeOK, Objs
  <2>6. life' \in [Born -> {"unborn", "live", "freed"}]
    BY DEF CallReadcb, objvars, TypeOK, Objs
  <2>3. /\ cbset' \subseteq Objs /\ owned' \subseteq Objs
        /\ closed' \subseteq Bevs /\ fdopen' \subseteq Objs
    BY DEF CallReadcb, objvars, TypeOK, Objs
  <2>4. /\ inbuf' \subseteq Bevs /\ calls' \in Seq(Frames)
        /\ again' \subseteq Objs /\ lsn' \in Accs
    BY DEF CallReadcb, objvars, Frames, TypeOK, Objs
  <2>5. pc' \in PCs /\ UNCHANGED <<batch, cur, revents, stopvars, io>>
    BY DEF CallReadcb, TypeOK
  <2> QED BY <2>1, <2>2, <2>3, <2>4, <2>5, <2>6 DEF TypeOK, stopvars
<1>2. DeletedOnceUnlessReentered'
  BY DEF CallReadcb, UserHas, objvars, DeletedOnceUnlessReentered, Queued, Objs
<1>3. PointersLive'
  BY DEF CallReadcb, UserHas, objvars, loopvars, PointersLive, Live, Objs
<1>4. CallbacksOwned' /\ QueuedSilent'
  BY DEF CallReadcb, UserHas, objvars, CallbacksOwned, QueuedSilent, Queued,
         Objs
<1>5. SomeoneDeletes'
  BY DEF CallReadcb, UserHas, objvars, SomeoneDeletes, Queued, Objs
<1>6. ClosedLeft'
  BY DEF CallReadcb, UserHas, objvars, loopvars, ClosedLeft, Objs
<1>7. QueuedLeft'
  BY DEF CallReadcb, UserHas, objvars, loopvars, QueuedLeft, Queued, Objs
<1>8. DispatchLive' /\ BatchOver'
  BY DEF CallReadcb, UserHas, objvars, DispatchLive, BatchOver, Live, Objs
<1>9. EventcbOwned' /\ DtorPhase'
  BY DEF CallReadcb, UserHas, objvars, EventcbOwned, DtorPhase, Objs
<1>10. AcceptorInv'
  BY DEF CallReadcb, UserHas, loopvars, AcceptorInv, Objs
<1>11. CallsInv'
  <2>1. calls' = Append(calls, [op |-> op, ev |-> x]) /\ calls \in Seq(Frames)
    BY DEF CallReadcb, TypeOK
  <2>0. PICK n : n = Len(calls) + 1
    OBVIOUS
  <2>2. /\ \A i \in DOMAIN calls : calls'[i] = calls[i]
        /\ calls'[n] = [op |-> op, ev |-> x]
        /\ DOMAIN calls' = DOMAIN calls \cup {n}
    BY <2>0, <2>1
  <2>3. UNCHANGED <<pc, cur, life, owned, again, inbuf>>
    BY DEF CallReadcb, objvars
  <2>4. ASSUME NEW i \in DOMAIN calls PROVE Waiting(i)'
    BY <2>2, <2>3, <2>4 DEF CallsInv, Waiting
  <2>5. Waiting(n)'
    BY <2>2, <2>3 DEF UserHas, Waiting, DeletedOnceUnlessReentered, Objs
  <2>6. pc \in UserCode \ {"setup"} /\ (pc = "setup" => inbuf = {})
    BY DEF UserHas, CallReadcb, Flushes, CallsInv
  <2> QED BY <2>2, <2>3, <2>4, <2>5, <2>6 DEF CallsInv
<1> QED BY <1>1, <1>2, <1>3, <1>4, <1>5, <1>6, <1>7, <1>8, <1>9, <1>10, <1>11

(* server::delev, del_listen and bfevent::close, called by user code.      *)
LEMMA RemoveInd ==
  ASSUME IndInv, NEW x \in Objs, delev(x) \/ del_listen(x) \/ user_close(x)
  PROVE  IndInv'
<1> USE DEF IndInv
<1>1. UserHas(x) /\ pc \in UserCode /\ x \in owned /\ life[x] = "live"
  BY DEF delev, del_listen, user_close, UserHas, DeletedOnceUnlessReentered
<1>2. CASE \E op \in {"delev", "listen", "close"} : CallReadcb(op, x)
  BY <1>1, <1>2, CallInd
<1>3. CASE /\ UNCHANGED <<batch, cur, revents, stopvars, io, calls, lsn>>
           /\ EndDelev(x) \/ EndListen(x) \/ EndClose(x)
  <2>1. /\ calls' \in Seq(Frames) /\ calls' = calls
        /\ \A i \in DOMAIN calls' : i \in DOMAIN calls /\ calls'[i] = calls[i]
    BY <1>3 DEF TypeOK
  <2>2. pc = "eventcb" => x # cur
    BY <1>1 DEF UserHas
  <2> QED BY <1>1, <1>3, <2>1, <2>2, EndInd
<1> QED BY <1>2, <1>3 DEF delev, del_listen, user_close

(* ~server has closed x and deletes it.                                    *)
LEMMA DeleteOwnedInd ==
  ASSUME IndInv, NEW x \in Objs, x \in owned,
         pc \in {"dtor", "dtorcb"}, calls' = <<>>,
         UNCHANGED <<batch, cur, revents, stopvars, io, lsn>>,
         Unlisten(x), DeleteOwned(x)
  PROVE  IndInv'
<1> USE ObjectsAssumption DEF IndInv
<1>1. TypeOK'
  <2>1. registered' \subseteq Events /\ evlist' \subseteq Events
    BY DEF DeleteOwned, Unlisten, del_event, TypeOK, Objs
  <2>2. delque' \in [Objs -> Nat]
    BY DEF DeleteOwned, Unlisten, TypeOK, Objs
  <2>6. life' \in [Born -> {"unborn", "live", "freed"}]
    BY DEF DeleteOwned, Unlisten, TypeOK, Objs, Born
  <2>3. /\ cbset' \subseteq Objs /\ owned' \subseteq Objs
        /\ closed' \subseteq Bevs /\ fdopen' \subseteq Objs
    BY DEF DeleteOwned, Unlisten, TypeOK, Objs
  <2>4. /\ inbuf' \subseteq Bevs /\ calls' \in Seq(Frames)
        /\ again' \subseteq Objs /\ lsn' \in Accs
    BY DEF DeleteOwned, Unlisten, TypeOK, Objs
  <2>5. pc' \in PCs /\ UNCHANGED <<batch, cur, revents, stopvars, io>>
    BY DEF DeleteOwned, Unlisten, PCs, Dying
  <2> QED BY <2>1, <2>2, <2>3, <2>4, <2>5, <2>6 DEF TypeOK, stopvars
<1>2. DeletedOnceUnlessReentered'
  BY DEF DeleteOwned, Unlisten, DeletedOnceUnlessReentered, Queued, Objs
<1>3. PointersLive'
  BY DEF DeleteOwned, Unlisten, del_event, PointersLive, Live, Objs
<1>4. CallbacksOwned' /\ QueuedSilent'
  BY DEF DeleteOwned, Unlisten, Dying, CallbacksOwned, QueuedSilent, Queued,
         Objs
<1>5. SomeoneDeletes'
  BY DEF DeleteOwned, Unlisten, SomeoneDeletes, Queued, TypeOK, Objs, Born
<1>6. ClosedLeft'
  BY DEF DeleteOwned, Unlisten, del_event, ClosedLeft, TypeOK, Objs, Born
<1>7. QueuedLeft'
  BY DEF DeleteOwned, Unlisten, del_event, QueuedLeft, Queued, InIteration,
         InCallback, Objs
<1>8. DispatchLive' /\ BatchOver'
  BY DEF DeleteOwned, Unlisten, DispatchLive, BatchOver, InIteration,
         InCallback, Objs
<1>9. EventcbOwned' /\ DtorPhase'
  BY DEF DeleteOwned, Unlisten, EventcbOwned, DtorPhase, Objs
<1>10. AcceptorInv'
  BY DEF DeleteOwned, Unlisten, del_event, AcceptorInv, Dying, Objs
<1>11. CallsInv'
  BY DEF DeleteOwned, Unlisten, CallsInv, Objs
<1> QED BY <1>1, <1>2, <1>3, <1>4, <1>5, <1>6, <1>7, <1>8, <1>9, <1>10, <1>11

(* The readcb_ that an operation waits for returns.                        *)
LEMMA ReadcbReturnInd ==
  ASSUME IndInv, NEW f \in Frames, ReadcbReturn(f)
  PROVE  IndInv'
<1> USE ObjectsAssumption DEF IndInv
<1> DEFINE x == f.ev
<1>1. /\ x \in Objs /\ Len(calls) \in DOMAIN calls /\ f = calls[Len(calls)]
      /\ calls \in Seq(Frames) /\ Len(calls) \in Nat
  BY DEF ReadcbReturn, TypeOK, Frames
<1>2. /\ life[x] = "live" /\ (pc = "eventcb" => x # cur)
      /\ f.op = "delev" => x \in owned \cup again
      /\ f.op = "dtor" =>
           Len(calls) = 1 /\ pc \in {"dtorcb", "hung"} /\ x \in owned
  BY <1>1 DEF CallsInv, Waiting
<1>3. /\ calls' = SubSeq(calls, 1, Len(calls) - 1)
      /\ calls' \in Seq(Frames)
      /\ \A i \in DOMAIN calls' : i \in DOMAIN calls /\ calls'[i] = calls[i]
      /\ Len(calls) = 1 => calls' = <<>>
  BY <1>1 DEF ReadcbReturn
<1>4. /\ pc \in UserCode /\ calls # <<>>
      /\ UNCHANGED <<batch, cur, revents, stopvars, io, lsn>>
  BY DEF ReadcbReturn
<1>5. CASE f.op # "dtor"
  <2>1. \/ EndListen(x) \/ EndClose(x)
        \/ EndDelev(x) /\ x \in owned \cup again
    BY <1>2, <1>5 DEF ReadcbReturn
  <2> HIDE DEF x
  <2> QED BY <1>1, <1>2, <1>3, <1>4, <2>1, EndInd
<1>6. CASE f.op = "dtor"
  <2>1. pc = "dtorcb" /\ calls' = <<>> /\ Unlisten(x) /\ DeleteOwned(x)
    BY <1>2, <1>3, <1>4, <1>6 DEF ReadcbReturn, UserCode, InCallback
  <2>2. x \in owned /\ pc \in {"dtor", "dtorcb"}
    BY <1>2, <1>6, <2>1
  <2> HIDE DEF x, IndInv
  <2>3. IndInv
    OBVIOUS
  <2> QED BY ONLY <1>1, <1>4, <2>1, <2>2, <2>3, DeleteOwnedInd
<1> QED BY <1>5, <1>6

(* enable_listen of an object.                                             *)
LEMMA EnableInd ==
  ASSUME IndInv, NEW x \in Objs, enable_listen(x)
  PROVE  IndInv'
<1> USE ObjectsAssumption DEF IndInv
<1>1. TypeOK'
  <2>1. registered' \subseteq Events /\ evlist' \subseteq Events
    BY DEF enable_listen, add_event, TypeOK, Events, Born, Objs
  <2>2. delque' \in [Objs -> Nat]
    BY DEF enable_listen, TypeOK, Objs
  <2>6. life' \in [Born -> {"unborn", "live", "freed"}]
    BY DEF enable_listen, TypeOK, Objs
  <2>3. /\ cbset' \subseteq Objs /\ owned' \subseteq Objs
        /\ closed' \subseteq Bevs /\ fdopen' \subseteq Objs
    BY DEF enable_listen, TypeOK, Objs
  <2>4. /\ inbuf' \subseteq Bevs /\ calls' \in Seq(Frames)
        /\ again' \subseteq Objs /\ lsn' \in Accs
    BY DEF enable_listen, TypeOK, Objs
  <2>5. pc' \in PCs /\ UNCHANGED <<batch, cur, revents, stopvars, io>>
    BY DEF enable_listen, TypeOK
  <2> QED BY <2>1, <2>2, <2>3, <2>4, <2>5, <2>6 DEF TypeOK, stopvars
<1>2. DeletedOnceUnlessReentered'
  BY DEF enable_listen, DeletedOnceUnlessReentered, Queued, Objs
<1>3. PointersLive'
  BY DEF enable_listen, UserHas, add_event, PointersLive, Live,
         DeletedOnceUnlessReentered, Objs
<1>4. CallbacksOwned' /\ QueuedSilent'
  BY DEF enable_listen, CallbacksOwned, QueuedSilent, Queued, Objs
<1>5. SomeoneDeletes'
  BY DEF enable_listen, SomeoneDeletes, Queued, Objs
<1>6. ClosedLeft'
  BY DEF enable_listen, add_event, ClosedLeft, Objs
<1>7. QueuedLeft'
  BY DEF enable_listen, UserHas, add_event, QueuedLeft, Queued,
         DeletedOnceUnlessReentered, Objs
<1>8. DispatchLive' /\ BatchOver'
  BY DEF enable_listen, DispatchLive, BatchOver, Live, Objs
<1>9. EventcbOwned' /\ DtorPhase'
  BY DEF enable_listen, EventcbOwned, DtorPhase, Queued, Objs
<1>10. AcceptorInv'
  BY DEF enable_listen, add_event, AcceptorInv, Objs
<1>11. CallsInv'
  BY DEF enable_listen, CallsInv, Waiting, Objs
<1> QED BY <1>1, <1>2, <1>3, <1>4, <1>5, <1>6, <1>7, <1>8, <1>9, <1>10, <1>11

(* User code takes what a connection has received.                         *)
LEMMA ReceiveInd ==
  ASSUME IndInv, NEW x \in Bevs, receive(x)
  PROVE  IndInv'
<1> USE DEF IndInv
<1>1. TypeOK'
  BY DEF receive, TypeOK, loopvars, stopvars
<1>2. DispatchLive' /\ BatchOver' /\ EventcbOwned'
  BY DEF receive, DispatchLive, BatchOver, EventcbOwned, Live
<1>3. /\ UNCHANGED <<delque, life, cbset, owned, closed, fdopen, again,
                     loopvars, calls, lsn>>
      /\ pc' = pc /\ cur' = cur
  BY DEF receive
<1>4. pc' \in InIteration \/ pc \notin InIteration
  BY <1>3
<1>5. pc' = "setup" => pc = "setup" /\ inbuf' = inbuf
  BY DEF receive, CallsInv
<1> QED BY <1>1, <1>2, <1>3, <1>4, <1>5, Frame

(* The acceptor stops and resumes.                                         *)
LEMMA AcceptorInd ==
  ASSUME IndInv,
         disable_tcp_accept \/ \E a \in Accs : enable_tcp_accept(a)
  PROVE  IndInv'
<1> USE ObjectsAssumption DEF IndInv
<1>1. TypeOK'
  <2>1. registered' \subseteq Events /\ evlist' \subseteq Events
    BY DEF disable_tcp_accept, enable_tcp_accept, del_event, add_event, TypeOK,
           Events, Born
  <2>2. delque' \in [Objs -> Nat]
    BY DEF disable_tcp_accept, enable_tcp_accept, objvars, TypeOK
  <2>6. life' \in [Born -> {"unborn", "live", "freed"}]
    BY DEF disable_tcp_accept, enable_tcp_accept, objvars, TypeOK
  <2>3. /\ cbset' \subseteq Objs /\ owned' \subseteq Objs
        /\ closed' \subseteq Bevs /\ fdopen' \subseteq Objs
    BY DEF disable_tcp_accept, enable_tcp_accept, objvars, TypeOK, Objs
  <2>4. /\ inbuf' \subseteq Bevs /\ calls' \in Seq(Frames)
        /\ again' \subseteq Objs /\ lsn' \in Accs
    BY DEF disable_tcp_accept, enable_tcp_accept, objvars, TypeOK, Objs
  <2>5. pc' \in PCs /\ UNCHANGED <<batch, cur, revents, stopvars, io>>
    BY DEF disable_tcp_accept, enable_tcp_accept, TypeOK
  <2> QED BY <2>1, <2>2, <2>3, <2>4, <2>5, <2>6 DEF TypeOK, stopvars
<1>2. DeletedOnceUnlessReentered'
  BY DEF disable_tcp_accept, enable_tcp_accept, objvars,
         DeletedOnceUnlessReentered, Queued, TypeOK, Objs, Born
<1>3. PointersLive'
  BY DEF disable_tcp_accept, enable_tcp_accept, del_event, add_event, objvars,
         PointersLive, Live, TypeOK, Objs, Events, Born
<1>4. CallbacksOwned' /\ QueuedSilent'
  BY DEF disable_tcp_accept, enable_tcp_accept, objvars, CallbacksOwned,
         QueuedSilent, Queued, TypeOK, Objs, Born
<1>5. SomeoneDeletes'
  BY DEF disable_tcp_accept, enable_tcp_accept, objvars, SomeoneDeletes,
         Queued, TypeOK, Objs, Born
<1>6. ClosedLeft'
  BY DEF disable_tcp_accept, enable_tcp_accept, del_event, add_event, objvars,
         ClosedLeft, TypeOK, Objs, Born
<1>7. QueuedLeft'
  BY DEF disable_tcp_accept, enable_tcp_accept, del_event, add_event, objvars,
         QueuedLeft, Queued, Objs
<1>8. DispatchLive' /\ BatchOver'
  BY DEF disable_tcp_accept, enable_tcp_accept, objvars, DispatchLive,
         BatchOver, Live, TypeOK, Events, Objs
<1>9. EventcbOwned' /\ DtorPhase'
  BY DEF disable_tcp_accept, enable_tcp_accept, objvars, EventcbOwned,
         DtorPhase, InCallback, Objs
<1>10. AcceptorInv'
  BY DEF disable_tcp_accept, enable_tcp_accept, del_event, add_event,
         AcceptorInv, Dying, Objs, InCallback
<1>11. CallsInv'
  <2>1. /\ UNCHANGED <<pc, cur, calls, inbuf, again, owned>>
    BY DEF disable_tcp_accept, enable_tcp_accept, objvars
  <2>2. ASSUME NEW e \in Objs, life[e] = "live" PROVE life'[e] = "live"
    BY <2>2 DEF disable_tcp_accept, enable_tcp_accept, objvars, TypeOK, Born
  <2>3. ASSUME NEW i \in DOMAIN calls PROVE Waiting(i)'
    <3>1. Waiting(i) /\ calls[i] \in Frames
      BY <2>3 DEF CallsInv, TypeOK
    <3>2. life'[calls[i].ev] = "live"
      BY <2>2, <3>1 DEF Waiting, Frames
    <3> QED BY <2>1, <3>1, <3>2 DEF Waiting
  <2> QED BY <2>1, <2>3 DEF CallsInv
<1> QED BY <1>1, <1>2, <1>3, <1>4, <1>5, <1>6, <1>7, <1>8, <1>9, <1>10, <1>11

(* The closing callback that the server installs.                          *)
LEMMA TcpEventcbInd ==
  ASSUME IndInv, tcp_eventcb_
  PROVE  IndInv'
<1> USE ObjectsAssumption DEF IndInv
<1>1. TypeOK'
  <2>1. registered' \subseteq Events /\ evlist' \subseteq Events
    BY DEF tcp_eventcb_, loopvars, TypeOK
  <2>2. delque' \in [Objs -> Nat]
    BY DEF tcp_eventcb_, handle_close, EventcbOwned, TypeOK
  <2>6. life' \in [Born -> {"unborn", "live", "freed"}]
    BY DEF tcp_eventcb_, TypeOK
  <2>3. /\ cbset' \subseteq Objs /\ owned' \subseteq Objs
        /\ closed' \subseteq Bevs /\ fdopen' \subseteq Objs
    BY DEF tcp_eventcb_, handle_close, TypeOK, Objs
  <2>4. /\ inbuf' \subseteq Bevs /\ calls' \in Seq(Frames)
        /\ again' \subseteq Objs /\ lsn' \in Accs
    BY DEF tcp_eventcb_, handle_close, TypeOK, Objs
  <2>5. pc' \in PCs /\ UNCHANGED <<batch, cur, revents, stopvars, io>>
    BY DEF tcp_eventcb_, PCs, InIteration
  <2> QED BY <2>1, <2>2, <2>3, <2>4, <2>5, <2>6 DEF TypeOK, stopvars
<1>2. DeletedOnceUnlessReentered'
  BY DEF tcp_eventcb_, handle_close, EventcbOwned, DeletedOnceUnlessReentered,
         Queued, TypeOK, Objs
<1>3. PointersLive'
  BY DEF tcp_eventcb_, loopvars, PointersLive, Live, Objs
<1>4. CallbacksOwned' /\ QueuedSilent'
  BY DEF tcp_eventcb_, handle_close, EventcbOwned, Dying, CallbacksOwned,
         QueuedSilent, Queued, DeletedOnceUnlessReentered, Objs
<1>5. SomeoneDeletes'
  BY DEF tcp_eventcb_, handle_close, SomeoneDeletes, Queued, TypeOK, Objs
<1>6. ClosedLeft'
  BY DEF tcp_eventcb_, loopvars, ClosedLeft, Objs
<1>7. QueuedLeft'
  BY DEF tcp_eventcb_, handle_close, EventcbOwned, loopvars, QueuedLeft,
         Queued, InIteration, Objs
<1>8. DispatchLive' /\ BatchOver'
  BY DEF tcp_eventcb_, DispatchLive, BatchOver, Live, InIteration, Objs
<1>9. EventcbOwned' /\ DtorPhase'
  BY DEF tcp_eventcb_, EventcbOwned, EventcbOwned, DtorPhase, Objs
<1>10. AcceptorInv'
  BY DEF tcp_eventcb_, loopvars, AcceptorInv, Dying, Objs
<1>11. CallsInv'
  BY DEF tcp_eventcb_, CallsInv, Objs
<1> QED BY <1>1, <1>2, <1>3, <1>4, <1>5, <1>6, <1>7, <1>8, <1>9, <1>10, <1>11

(* An object is deleted, by the sweep or by ~eventloop.                    *)
LEMMA DeleteInd ==
  ASSUME IndInv, NEW x \in Objs, DeletePending(x) \/ DtorQueue(x)
  PROVE  IndInv'
<1> USE ObjectsAssumption DEF IndInv
<1>1. TypeOK'
  <2>1. registered' \subseteq Events /\ evlist' \subseteq Events
    BY DEF DeletePending, DtorQueue, Destroy, Destruct, close, Unlisten,
           del_event, loopvars, TypeOK, Objs
  <2>2. delque' \in [Objs -> Nat]
    BY DEF DeletePending, DtorQueue, Queued, TypeOK, Objs
  <2>6. life' \in [Born -> {"unborn", "live", "freed"}]
    BY DEF DeletePending, DtorQueue, Destroy, TypeOK, Objs
  <2>3. /\ cbset' \subseteq Objs /\ owned' \subseteq Objs
        /\ closed' \subseteq Bevs /\ fdopen' \subseteq Objs
    BY DEF DeletePending, DtorQueue, Destroy, Destruct, close, Unlisten,
           TypeOK, Objs
  <2>4. /\ inbuf' \subseteq Bevs /\ calls' \in Seq(Frames)
        /\ again' \subseteq Objs /\ lsn' \in Accs
    BY DEF DeletePending, DtorQueue, TypeOK, Objs
  <2>5. pc' \in PCs /\ UNCHANGED <<batch, cur, revents, stopvars, io>>
    BY DEF DeletePending, DtorQueue, PCs, InIteration, Dying
  <2> QED BY <2>1, <2>2, <2>3, <2>4, <2>5, <2>6 DEF TypeOK, stopvars
<1>2. DeletedOnceUnlessReentered'
  <2>1. /\ delque' = [delque EXCEPT ![x] = @ - 1] /\ Queued(x)
        /\ life' = [life EXCEPT ![x] = "freed"] /\ x \notin owned
        /\ UNCHANGED <<owned, again>> /\ pc' = pc /\ pc # "crashed"
    BY DEF DeletePending, DtorQueue, Destroy, DeletedOnceUnlessReentered
  <2>2. delque \in [Objs -> Nat] /\ \A e \in Objs : e \in DOMAIN life
    BY DEF TypeOK, Objs, Born
  <2> QED BY <2>1, <2>2 DEF DeletedOnceUnlessReentered, Queued
<1>3. PointersLive'
  BY DEF DeletePending, DtorQueue, Destroy, Destruct, close, Unlisten,
         del_event, loopvars, PointersLive, Live, ClosedLeft, QueuedLeft,
         TypeOK, Objs, Events
<1>4. CallbacksOwned' /\ QueuedSilent'
  BY DEF DeletePending, DtorQueue, Destroy, CallbacksOwned, QueuedSilent,
         Queued, TypeOK, Objs, Born
<1>5. SomeoneDeletes'
  BY DEF DeletePending, DtorQueue, Destroy, SomeoneDeletes, Queued, TypeOK,
         Objs, Born
<1>6. ClosedLeft'
  BY DEF DeletePending, DtorQueue, Destroy, Destruct, close, Unlisten,
         del_event, loopvars, ClosedLeft, TypeOK, Objs, Born
<1>7. QueuedLeft'
  BY DEF DeletePending, DtorQueue, Destroy, Destruct, close, Unlisten,
         del_event, loopvars, QueuedLeft, Queued, TypeOK, Objs
<1>8. DispatchLive' /\ BatchOver'
  BY DEF DeletePending, DtorQueue, DispatchLive, BatchOver, InIteration,
         InCallback, Objs
<1>9. EventcbOwned' /\ DtorPhase'
  BY DEF DeletePending, DtorQueue, EventcbOwned, DtorPhase, Objs
<1>10. AcceptorInv'
  BY DEF DeletePending, DtorQueue, Destroy, Destruct, close, Unlisten,
         del_event, loopvars, AcceptorInv, Objs
<1>11. CallsInv'
  BY DEF DeletePending, DtorQueue, CallsInv, UserCode, InCallback, Objs
<1> QED BY <1>1, <1>2, <1>3, <1>4, <1>5, <1>6, <1>7, <1>8, <1>9, <1>10, <1>11

(* An object is deleted again.                                             *)
LEMMA DeleteFreedInd ==
  ASSUME IndInv, NEW x \in Objs, DeleteFreed(x)
  PROVE  IndInv'
<1> USE ObjectsAssumption DEF IndInv
<1>1. TypeOK'
  <2>1. registered' \subseteq Events /\ evlist' \subseteq Events
    BY DEF DeleteFreed, loopvars, TypeOK, Objs
  <2>2. delque' \in [Objs -> Nat]
    BY DEF DeleteFreed, objvars, TypeOK, Objs
  <2>6. life' \in [Born -> {"unborn", "live", "freed"}]
    BY DEF DeleteFreed, objvars, TypeOK, Objs
  <2>3. /\ cbset' \subseteq Objs /\ owned' \subseteq Objs
        /\ closed' \subseteq Bevs /\ fdopen' \subseteq Objs
    BY DEF DeleteFreed, objvars, TypeOK, Objs
  <2>4. /\ inbuf' \subseteq Bevs /\ calls' \in Seq(Frames)
        /\ again' \subseteq Objs /\ lsn' \in Accs
    BY DEF DeleteFreed, objvars, TypeOK, Objs
  <2>5. pc' \in PCs /\ UNCHANGED <<batch, cur, revents, stopvars, io>>
    BY DEF DeleteFreed, PCs
  <2> QED BY <2>1, <2>2, <2>3, <2>4, <2>5, <2>6 DEF TypeOK, stopvars
<1>2. DeletedOnceUnlessReentered'
  BY DEF DeleteFreed, objvars, DeletedOnceUnlessReentered, Queued, Objs
<1>3. PointersLive'
  BY DEF DeleteFreed, objvars, loopvars, PointersLive, Live, Objs
<1>4. CallbacksOwned' /\ QueuedSilent'
  BY DEF DeleteFreed, objvars, CallbacksOwned, QueuedSilent, Queued, Objs
<1>5. SomeoneDeletes'
  BY DEF DeleteFreed, objvars, SomeoneDeletes, Queued, Objs
<1>6. ClosedLeft'
  BY DEF DeleteFreed, objvars, loopvars, ClosedLeft, Objs
<1>7. QueuedLeft'
  BY DEF DeleteFreed, objvars, loopvars, QueuedLeft, Queued, Objs
<1>8. DispatchLive' /\ BatchOver'
  BY DEF DeleteFreed, DispatchLive, BatchOver, InIteration, InCallback, Objs
<1>9. EventcbOwned' /\ DtorPhase'
  BY DEF DeleteFreed, EventcbOwned, DtorPhase, Objs
<1>10. AcceptorInv'
  BY DEF DeleteFreed, loopvars, AcceptorInv, Dying, Objs
<1>11. CallsInv'
  BY DEF DeleteFreed, CallsInv, UserCode, InCallback, Objs
<1> QED BY <1>1, <1>2, <1>3, <1>4, <1>5, <1>6, <1>7, <1>8, <1>9, <1>10, <1>11

(* The steps of the destructors that delete no object.                     *)
LEMMA DtorBeginInd ==
  ASSUME IndInv, DtorBegin \/ DtorAcceptor \/ DtorEvlist \/ DtorDone
  PROVE  IndInv'
<1> USE ObjectsAssumption DEF IndInv
<1>1. TypeOK'
  <2>1. registered' \subseteq Events /\ evlist' \subseteq Events
    BY DEF DtorBegin, DtorAcceptor, DtorEvlist, DtorDone, del_event, loopvars,
           TypeOK
  <2>2. delque' \in [Objs -> Nat]
    BY DEF DtorBegin, DtorAcceptor, DtorEvlist, DtorDone, objvars, TypeOK
  <2>6. life' \in [Born -> {"unborn", "live", "freed"}]
    BY DEF DtorBegin, DtorAcceptor, DtorEvlist, DtorDone, objvars, TypeOK
  <2>3. /\ cbset' \subseteq Objs /\ owned' \subseteq Objs
        /\ closed' \subseteq Bevs /\ fdopen' \subseteq Objs
    BY DEF DtorBegin, DtorAcceptor, DtorEvlist, DtorDone, objvars, TypeOK, Objs
  <2>4. /\ inbuf' \subseteq Bevs /\ calls' \in Seq(Frames)
        /\ again' \subseteq Objs /\ lsn' \in Accs
    BY DEF DtorBegin, DtorAcceptor, DtorEvlist, DtorDone, objvars, TypeOK, Objs
  <2>5. pc' \in PCs /\ UNCHANGED <<batch, cur, revents, stopvars, io>>
    BY DEF DtorBegin, DtorAcceptor, DtorEvlist, DtorDone, PCs, Dying
  <2> QED BY <2>1, <2>2, <2>3, <2>4, <2>5, <2>6 DEF TypeOK, stopvars
<1>2. DeletedOnceUnlessReentered'
  BY DEF DtorBegin, DtorAcceptor, DtorEvlist, DtorDone, objvars,
         DeletedOnceUnlessReentered, Queued, TypeOK, Objs, Born
<1>3. PointersLive'
  BY DEF DtorBegin, DtorAcceptor, DtorEvlist, DtorDone, del_event, objvars,
         loopvars, PointersLive, Live, AcceptorInv, Dying, TypeOK, Objs, Events
<1>4. CallbacksOwned' /\ QueuedSilent'
  BY DEF DtorBegin, DtorAcceptor, DtorEvlist, DtorDone, objvars, Dying,
         CallbacksOwned, QueuedSilent, Queued, TypeOK, Objs, Born
<1>5. SomeoneDeletes'
  BY DEF DtorBegin, DtorAcceptor, DtorEvlist, DtorDone, objvars,
         SomeoneDeletes, Queued, TypeOK, Objs, Born
<1>6. ClosedLeft'
  BY DEF DtorBegin, DtorAcceptor, DtorEvlist, DtorDone, del_event, objvars,
         loopvars, ClosedLeft, TypeOK, Objs, Born
<1>7. QueuedLeft'
  BY DEF DtorBegin, DtorAcceptor, DtorEvlist, DtorDone, del_event, objvars,
         loopvars, QueuedLeft, Queued, InIteration, InCallback, Objs
<1>8. DispatchLive' /\ BatchOver'
  BY DEF DtorBegin, DtorAcceptor, DtorEvlist, DtorDone, DispatchLive,
         BatchOver, InIteration, InCallback, Objs
<1>9. EventcbOwned' /\ DtorPhase'
  BY DEF DtorBegin, DtorAcceptor, DtorEvlist, DtorDone, objvars, EventcbOwned,
         DtorPhase, Queued, Objs
<1>10. AcceptorInv'
  BY DEF DtorBegin, DtorAcceptor, DtorEvlist, DtorDone, del_event, loopvars,
         AcceptorInv, Dying, Objs
<1>11. CallsInv'
  BY DEF DtorBegin, DtorAcceptor, DtorEvlist, DtorDone, CallsInv, UserCode,
         InCallback, Objs
<1> QED BY <1>1, <1>2, <1>3, <1>4, <1>5, <1>6, <1>7, <1>8, <1>9, <1>10, <1>11

(* ~server gives up one object of events_.                                 *)
LEMMA DtorEventInd ==
  ASSUME IndInv, NEW x \in Objs, DtorEvent(x)
  PROVE  IndInv'
<1> USE ObjectsAssumption DEF IndInv
<1>0. /\ pc = "dtor" /\ x \in owned /\ calls = <<>> /\ life[x] = "live"
      /\ UNCHANGED <<batch, cur, revents, stopvars, io, lsn>>
  BY DEF DtorEvent, CallsInv, UserCode, InCallback, DeletedOnceUnlessReentered
<1>a. CASE x \notin closed /\ ~Flushes(x)
  BY <1>0, <1>a, DeleteOwnedInd DEF DtorEvent
<1>b. CASE x \notin closed /\ Flushes(x)
  <2> USE <1>0, <1>b
  <2>0. /\ pc' = "dtorcb" /\ calls' = <<[op |-> "dtor", ev |-> x]>>
        /\ UNCHANGED <<objvars, loopvars>>
    BY DEF DtorEvent
  <2> USE <2>0
  <2>1. TypeOK'
    <3>1. registered' \subseteq Events /\ evlist' \subseteq Events
      BY DEF objvars, loopvars, TypeOK, Events, Objs
    <3>2. delque' \in [Objs -> Nat]
      BY DEF objvars, loopvars, TypeOK, Objs
    <3>6. life' \in [Born -> {"unborn", "live", "freed"}]
      BY DEF objvars, loopvars, TypeOK, Objs, Born
    <3>3. /\ cbset' \subseteq Objs /\ owned' \subseteq Objs
          /\ closed' \subseteq Bevs /\ fdopen' \subseteq Objs
      BY DEF objvars, loopvars, TypeOK, Objs
    <3>4. /\ inbuf' \subseteq Bevs /\ calls' \in Seq(Frames)
          /\ again' \subseteq Objs /\ lsn' \in Accs
      BY DEF objvars, loopvars, Frames, TypeOK, Objs
    <3>5. pc' \in PCs /\ UNCHANGED <<batch, cur, revents, stopvars, io>>
      BY DEF objvars, loopvars, Frames, PCs, Dying
    <3> QED BY <3>1, <3>2, <3>3, <3>4, <3>5, <3>6 DEF TypeOK, stopvars
  <2>2. DeletedOnceUnlessReentered'
    BY DEF objvars, loopvars, DeletedOnceUnlessReentered, Queued, Objs, Born
  <2>3. PointersLive'
    BY DEF objvars, loopvars, PointersLive, Live, Objs, Events, Born
  <2>4. CallbacksOwned' /\ QueuedSilent'
    BY DEF objvars, loopvars, Dying, CallbacksOwned, QueuedSilent, Queued,
           Objs, Born
  <2>5. SomeoneDeletes'
    BY DEF objvars, loopvars, SomeoneDeletes, Queued, Objs, Born
  <2>6. ClosedLeft'
    BY DEF objvars, loopvars, ClosedLeft, Objs, Born
  <2>7. QueuedLeft'
    BY DEF objvars, loopvars, QueuedLeft, Queued, InIteration, InCallback, Objs
  <2>8. DispatchLive' /\ BatchOver'
    BY DEF objvars, loopvars, DispatchLive, BatchOver, InIteration, InCallback,
           Events, Born, Objs
  <2>9. EventcbOwned' /\ DtorPhase'
    BY DEF objvars, loopvars, EventcbOwned, DtorPhase, Objs
  <2>10. AcceptorInv'
    BY DEF objvars, loopvars, AcceptorInv, Dying, Objs, Born
  <2>11. CallsInv'
    BY DEF objvars, loopvars, CallsInv, Waiting, UserCode, Frames, Objs, Born
  <2> QED BY <2>1, <2>2, <2>3, <2>4, <2>5, <2>6, <2>7, <2>8, <2>9, <2>10, <2>11
<1>c. CASE x \in closed
  <2> USE <1>0, <1>c
  <2>0. /\ pc' = "dtor" /\ owned' = owned \ {x}
        /\ life' = [life EXCEPT ![x] = "freed"]
        /\ UNCHANGED <<delque, cbset, closed, fdopen, inbuf, again, loopvars,
                       calls>>
    BY DEF DtorEvent
  <2> USE <2>0
  <2>1. TypeOK'
    <3>1. registered' \subseteq Events /\ evlist' \subseteq Events
      BY DEF loopvars, TypeOK, Events, Born, Objs
    <3>2. delque' \in [Objs -> Nat]
      BY DEF loopvars, TypeOK, Objs
    <3>6. life' \in [Born -> {"unborn", "live", "freed"}]
      BY DEF loopvars, TypeOK, Objs, Born
    <3>3. /\ cbset' \subseteq Objs /\ owned' \subseteq Objs
          /\ closed' \subseteq Bevs /\ fdopen' \subseteq Objs
      BY DEF loopvars, TypeOK, Objs
    <3>4. /\ inbuf' \subseteq Bevs /\ calls' \in Seq(Frames)
          /\ again' \subseteq Objs /\ lsn' \in Accs
      BY DEF loopvars, TypeOK, Objs
    <3>5. pc' \in PCs /\ UNCHANGED <<batch, cur, revents, stopvars, io>>
      BY DEF loopvars, PCs, Dying
    <3> QED BY <3>1, <3>2, <3>3, <3>4, <3>5, <3>6 DEF TypeOK, stopvars
  <2>2. DeletedOnceUnlessReentered'
    BY DEF loopvars, DeletedOnceUnlessReentered, Queued, Objs, Born
  <2>3. PointersLive'
    BY DEF loopvars, PointersLive, Live, ClosedLeft, Objs, Events, Born
  <2>4. CallbacksOwned' /\ QueuedSilent'
    BY DEF loopvars, Dying, CallbacksOwned, QueuedSilent, Queued, Objs, Born
  <2>5. SomeoneDeletes'
    BY DEF loopvars, SomeoneDeletes, Queued, TypeOK, Objs, Born
  <2>6. ClosedLeft'
    BY DEF loopvars, ClosedLeft, Objs, Born
  <2>7. QueuedLeft'
    BY DEF loopvars, QueuedLeft, Queued, Objs
  <2>8. DispatchLive' /\ BatchOver'
    BY DEF loopvars, DispatchLive, BatchOver, InIteration, InCallback, Events,
           Born, Objs
  <2>9. EventcbOwned' /\ DtorPhase'
    BY DEF loopvars, EventcbOwned, DtorPhase, Objs
  <2>10. AcceptorInv'
    BY DEF loopvars, AcceptorInv, Objs, Born
  <2>11. CallsInv'
    BY DEF loopvars, CallsInv, Frames, Objs, Born
  <2> QED BY <2>1, <2>2, <2>3, <2>4, <2>5, <2>6, <2>7, <2>8, <2>9, <2>10, <2>11
<1> QED BY <1>a, <1>b, <1>c

-----------------------------------------------------------------------------
(* Every step is one of these.                                             *)
LEMMA StepInd ==
  ASSUME IndInv, [Next]_vars
  PROVE  IndInv'
<1>1. CASE start \/ LoopStep
  <2>1. CASE start \/ Check \/ EpollWait \/ EpollEintr \/ EpollError
    BY <2>1, IdleInd
  <2>2. CASE \E e \in Events : Dispatch(e)
    BY <2>2, DispatchInd
  <2>3. CASE Handle
    BY <2>3, EventfdInd, TransferInd, CreateInd DEF Handle, Objs
  <2>4. CASE UserReturn \/ HandleDone \/ BatchDone \/ SweepDone
    BY <2>4, ReturnInd
  <2>5. CASE tcp_eventcb_ \/ \E e \in Objs : DeletePending(e) \/ DeleteFreed(e)
    BY <2>5, TcpEventcbInd, DeleteInd, DeleteFreedInd
  <2>6. CASE \E f \in Frames : ReadcbReturn(f)
    BY <2>6, ReadcbReturnInd
  <2> QED BY <1>1, <2>1, <2>2, <2>3, <2>4, <2>5, <2>6 DEF LoopStep
<1>2. CASE UserStep
  BY <1>2, CreateInd, RemoveInd, EnableInd, ReceiveInd, AcceptorInd,
     LoopbreakInd
     DEF UserStep, Objs
<1>3. CASE \E t \in Breakers : LoopbreakTest(t) \/ write_eventfd(t)
  BY <1>3, LoopbreakInd
<1>4. CASE Dtor
  BY <1>4, DtorBeginInd, DtorEventInd, DeleteInd DEF Dtor
<1>5. CASE Terminated \/ UNCHANGED vars
  <2>1. UNCHANGED <<pc, batch, cur, revents, objvars, loopvars, stopvars, io,
                    calls, lsn>>
    BY <1>5 DEF Terminated, vars
  <2>2. TypeOK' /\ DispatchLive' /\ BatchOver' /\ EventcbOwned'
    BY <2>1
       DEF objvars, loopvars, stopvars, IndInv, TypeOK, DispatchLive,
           BatchOver, EventcbOwned, Live
  <2>3. /\ UNCHANGED <<delque, life, cbset, owned, closed, fdopen, again,
                       loopvars, calls, lsn>>
        /\ pc' = pc /\ cur' = cur /\ inbuf' = inbuf
    BY <2>1 DEF objvars
  <2> QED BY <2>2, <2>3, Frame DEF IndInv
<1> QED BY <1>1, <1>2, <1>3, <1>4, <1>5 DEF Next

(* So the invariant holds in every reachable state.                        *)
LEMMA Invariance == Spec => []IndInv
<1>1. Init => IndInv
  BY InitInd
<1>2. IndInv /\ [Next]_vars => IndInv'
  BY StepInd
<1> QED BY <1>1, <1>2, PTL DEF Spec

-----------------------------------------------------------------------------
(* The variables of the loop and its objects keep their types.             *)
THEOREM TypeCorrect == Spec => []TypeOK
  BY Invariance, PTL DEF IndInv

(* eventloop::loop never calls handle_cb on an event that was deleted      *)
(* while the batch was being handled, for any number of connections and    *)
(* timers and whatever the callbacks do.                                   *)
THEOREM NeverDispatchesDeleted == Spec => []DispatchLive
  BY Invariance, PTL DEF IndInv

(* The loop, ~server and ~eventloop delete an object twice only if user    *)
(* code called delev for it inside the readcb_ that its own delev calls,   *)
(* however deep those calls nest.                                          *)
THEOREM DeletedTwiceOnlyReentered == Spec => []DeletedOnceUnlessReentered
  BY Invariance, PTL DEF IndInv

(* evlist_ and epoll never hold a pointer to a deleted event, and          *)
(* ~eventloop deletes no event that belongs to someone else.               *)
THEOREM NeverDangling == Spec => []NoDanglingPointer
<1>1. IndInv => NoDanglingPointer
  <2> SUFFICES ASSUME IndInv PROVE NoDanglingPointer
    OBVIOUS
  <2>1. \A e \in evlist \cup registered : Live(e)
    BY DEF IndInv, PointersLive
  <2>2. ASSUME pc = "dtorl", NEW e \in evlist
        PROVE  e \in {Efd}
    <3>1. e \notin Accs
      BY <2>2 DEF IndInv, AcceptorInv, Dying
    <3>2. e \notin Objs
      <4> SUFFICES ASSUME e \in Objs PROVE FALSE
        OBVIOUS
      <4>1. owned = {}
        BY <2>2 DEF IndInv, DtorPhase
      <4>2. Queued(e)
        BY <2>1, <2>2, <4>1, ObjectsAssumption
           DEF IndInv, SomeoneDeletes, Live, Born
      <4> QED BY <4>2, <2>2 DEF IndInv, QueuedLeft, InIteration, InCallback
    <3> QED BY <3>1, <3>2, <2>2 DEF IndInv, TypeOK, Events, Born
  <2> QED BY <2>1, <2>2 DEF NoDanglingPointer
<1> QED BY <1>1, Invariance, PTL

(* When ~server and ~eventloop are done, every connection and timer that   *)
(* was created has been deleted.                                           *)
THEOREM NeverLeaks == Spec => []NothingLeaked
<1>1. IndInv => NothingLeaked
  BY DEF IndInv, NothingLeaked, SomeoneDeletes, DtorPhase
<1> QED BY <1>1, Invariance, PTL

(* After handle_close, from delev or from the closing callback, the loop   *)
(* runs no callback of the object any more.                                *)
THEOREM SilentAfterClose == Spec => NoCallbackAfterClose
<1>1. IndInv /\ [Next]_vars
        => [pc = "handle" /\ pc' \in InCallback => cur \in owned]_vars
  <2> SUFFICES ASSUME IndInv, Next, pc = "handle", pc' \in InCallback
               PROVE  cur \in cbset
    BY DEF IndInv, CallbacksOwned, Dying
  <2>1. ~UserStep
    BY DEF UserStep, add_timeev, delev, del_listen, enable_listen, user_close,
           receive, UserHas, UserCode, disable_tcp_accept, enable_tcp_accept,
           loopbreak_cb, InCallback
  <2>2. ~Dtor /\ ~Terminated
    BY DEF Dtor, DtorBegin, DtorEvent, DtorAcceptor, DtorEvlist, DtorQueue,
           DtorDone, Terminated
  <2>3. ~\E t \in Breakers : LoopbreakTest(t) \/ write_eventfd(t)
    BY DEF LoopbreakTest, write_eventfd, InCallback
  <2>4. Handle
    BY <2>1, <2>2, <2>3
       DEF Next, start, LoopStep, Check, EpollWait, EpollEintr, EpollError,
           Dispatch, UserReturn, tcp_eventcb_, ReadcbReturn, UserCode,
           HandleDone, BatchDone, DeletePending, DeleteFreed, SweepDone,
           InCallback
  <2> QED BY <2>4
             DEF Handle, read_eventfd, AcceptEnd, handle_timeout, acceptcb_,
                 Transfer, TransferEnd, CallEventcb, InCallback
<1> QED BY <1>1, Invariance, PTL DEF Spec, NoCallbackAfterClose
=============================================================================
