--------------------------- MODULE ServerPoolProofs ---------------------------
(***************************************************************************)
(* Every thread uses live connections only, unless one was closed before   *)
(* acceptcb_ was done with it, and the destructor of the server leaves     *)
(* none, for every number of loops and every set of connections.           *)
(***************************************************************************)
EXTENDS ServerPool, TLAPS

(* Where the thread of the server can be.                                  *)
Pcs == {"spawn", "getloop", "waiting", "idle", "rcb", "ecb", "mod", "own",
        "stop", "join", "manager", "exited", "dtorstop", "dtorjoin",
        "dtormanager", "dtor", "gone", "crashed"}

(* The thread of a loop is inside handle_cb.                               *)
Busy == {"read", "close", "rest"}

(* The types of what the argument is about.                                *)
Types ==
  /\ bpc \in Pcs /\ i \in 0..TNum
  /\ bcur \in Conns \cup {NoConn} /\ owned \subseteq Conns
  /\ wpc \in [Loops -> {"none", "start", "publish", "check", "poll",
                        "dispatch", "ended"} \cup Busy]
  /\ batch \in [Loops -> SUBSET (Conns \cup {Efd})]
  /\ cur \in [Loops -> Conns \cup {NoConn}]
  /\ delque \in [Loops -> SUBSET Conns]
  /\ life \in [Conns -> {"none", "live", "deleted"}]
  /\ home \in [Conns -> Loops]
  /\ reg \subseteq Conns /\ ready \subseteq Conns
  /\ early \subseteq Conns /\ ecb \subseteq Conns

(* Only a thread inside a round holds events or has something to delete,   *)
(* and only inside handle_cb has it a connection in hand.                  *)
HoldsInRound ==
  \A w \in Loops :
    /\ wpc[w] \notin {"dispatch"} \cup Busy =>
         batch[w] = {} /\ delque[w] = {}
    /\ cur[w] # NoConn <=> wpc[w] \in Busy

(* What epoll knows is live.                                               *)
RegisteredLive ==
  ready \subseteq reg /\ \A c \in reg : life[c] = "live"

(* A connection is in the hands of the thread of its own loop only.        *)
HeldAtHome ==
  \A w \in Loops : \A c \in Conns :
    /\ c \in batch[w] \/ c = cur[w] => life[c] = "live" /\ home[c] = w
    /\ c \in delque[w] => life[c] = "live" /\ home[c] = w /\ c \notin ecb

(* acceptcb_ has a connection in hand between new and emplace_back.        *)
InAccept ==
  bpc # "crashed" => (bcur # NoConn <=> bpc \in {"rcb", "ecb", "mod", "own"})

(* Only a connection with an eventcb_ is closed, so acceptcb_ has a live   *)
(* one in hand until it has set that.                                      *)
ClosesWithEcb ==
  /\ \A w \in Loops : wpc[w] = "close" => cur[w] \in ecb
  /\ \A c \in ecb : life[c] # "none"
  /\ bpc \in {"rcb", "ecb"} =>
       /\ bcur \notin ecb /\ life[bcur] = "live"
       /\ \A w \in Loops : bcur \notin delque[w]

(* What the base thread and events_ hold is alive and not queued, unless   *)
(* its loop closed it early.                                               *)
EarlyOnly ==
  /\ \A c \in Conns :
       (c \in owned \/ c = bcur) /\ c \notin early =>
         life[c] = "live" /\ \A w \in Loops : c \notin delque[w]
  /\ bpc = "crashed" => early # {}

(* Somebody will delete each live connection.                              *)
Reachable ==
  \A c \in Conns :
    life[c] = "live" => c \in owned \/ c = bcur \/ c \in delque[home[c]]

(* The loops that stop has joined have ended; all have before anything     *)
(* else is destroyed.                                                      *)
Joined ==
  /\ bpc \in {"stop", "join", "dtorstop", "dtorjoin"} =>
       \A w \in Loops : w < i => wpc[w] = "ended"
  /\ bpc \in {"join", "dtorjoin"} => i < TNum
  /\ bpc \in {"manager", "dtormanager", "dtor", "gone"} =>
       \A w \in Loops : wpc[w] = "ended"

(* Before init_pool is done there are no threads beyond number i.          *)
Spawning ==
  /\ bpc = "spawn" => \A w \in Loops : w >= i => wpc[w] = "none"
  /\ bpc \in {"getloop", "waiting"} =>
       i < TNum /\ \A w \in Loops : w > i => wpc[w] = "none"

(* ~looptpool is the last to delete anything.                              *)
Emptied == bpc = "gone" => owned = {} /\ \A w \in Loops : delque[w] = {}

(* The inductive invariant.                                                *)
IndInv ==
  /\ Types /\ HoldsInRound /\ RegisteredLive /\ HeldAtHome /\ InAccept
  /\ ClosesWithEcb /\ EarlyOnly /\ Reachable /\ Joined /\ Spawning /\ Emptied

(* Every step of every thread keeps the invariant.                         *)
LEMMA Inductive == IndInv /\ [Next]_vars => IndInv'
<1> SUFFICES ASSUME IndInv, [Next]_vars PROVE IndInv'
  OBVIOUS
<1> USE PoolAssumption
    DEF IndInv, Types, HoldsInRound, RegisteredLive, HeldAtHome, InAccept,
        ClosesWithEcb, EarlyOnly, Reachable, Used, Joined, Spawning,
        Emptied, Pcs, Busy, Loops,
        basevars, workvars, cbvars, sockvars, connvars
<1>1. ASSUME Spawn PROVE IndInv'
  BY <1>1 DEF Spawn
<1>2. ASSUME getloop PROVE IndInv'
  BY <1>2 DEF getloop
<1>3. ASSUME PoolReady PROVE IndInv'
  BY <1>3 DEF PoolReady
<1>4. ASSUME SetRcb PROVE IndInv'
  BY <1>4 DEF SetRcb
<1>5. ASSUME SetEcb PROVE IndInv'
  BY <1>5 DEF SetEcb
<1>6. ASSUME update_ep PROVE IndInv'
  BY <1>6 DEF update_ep
<1>7. ASSUME EmplaceBack PROVE IndInv'
  BY <1>7 DEF EmplaceBack
<1>8. ASSUME StopLoop PROVE IndInv'
  BY <1>8 DEF StopLoop, JoinAfter
<1>9. ASSUME JoinLoop PROVE IndInv'
  BY <1>9 DEF JoinLoop, StopAfter
<1>10. ASSUME StopAdjust PROVE IndInv'
  BY <1>10 DEF StopAdjust
<1>11. ASSUME StopDone PROVE IndInv'
  BY <1>11 DEF StopDone
<1>12. ASSUME DtorEvent PROVE IndInv'
  BY <1>12 DEF DtorEvent, Deleted
<1>13. ASSUME DtorPool PROVE IndInv'
  <2>0. \A w \in Loops : wpc[w] = "ended"
    <3>1. bpc = "dtor" /\ Joined
      BY ONLY <1>13, IndInv DEF DtorPool, IndInv
    <3> QED BY ONLY <3>1 DEF Joined
  <2>1. \A w \in Loops : delque[w] = {} /\ batch[w] = {} /\ cur[w] = NoConn
    <3>1. HoldsInRound
      BY ONLY IndInv DEF IndInv
    <3> QED BY ONLY <2>0, <3>1 DEF HoldsInRound, Busy
  <2>2. UNION {delque[w] : w \in Loops} = {}
    BY <2>1
  <2>3. life' = life
    BY <2>2, <1>13 DEF DtorPool, Deleted
  <2>4. delque' = delque
    BY <2>1, <1>13 DEF DtorPool
  <2>5. bpc = "dtor" /\ bpc' = "gone" /\ owned = {}
    BY <1>13 DEF DtorPool
  <2>6. UNCHANGED <<i, bcur, owned, wpc, batch, cur, home, reg, ready, early,
                    ecb>>
    BY <1>13 DEF DtorPool
  <2> QED BY <2>1, <2>3, <2>4, <2>5, <2>6
<1>14. ASSUME stop PROVE IndInv'
  BY <1>14 DEF stop
<1>15. ASSUME LoopExit PROVE IndInv'
  BY <1>15 DEF LoopExit
<1>16. ASSUME adjust_task PROVE IndInv'
  BY <1>16 DEF adjust_task
<1>17. ASSUME Terminated PROVE IndInv'
  BY <1>17 DEF Terminated, vars
<1>18. ASSUME NEW c \in Conns, Accept(c) PROVE IndInv'
  BY <1>18 DEF Accept
<1>19. ASSUME NEW c \in Conns, PeerSends(c) PROVE IndInv'
  BY <1>19 DEF PeerSends
<1>20. ASSUME NEW c \in Conns, PeerCloses(c) PROVE IndInv'
  BY <1>20 DEF PeerCloses
<1>21. ASSUME NEW w \in Loops, MakeLoop(w) PROVE IndInv'
  BY <1>21 DEF MakeLoop
<1>22. ASSUME NEW w \in Loops, Publish(w) PROVE IndInv'
  BY <1>22 DEF Publish
<1>23. ASSUME NEW w \in Loops, Check(w) PROVE IndInv'
  BY <1>23 DEF Check, Goto
<1>24. ASSUME NEW w \in Loops, EpollWait(w) PROVE IndInv'
  <2> DEFINE R == Reported(w)
  <2>1. /\ R \subseteq Conns \cup {Efd}
        /\ \A c \in R \cap Conns :
             c \in ready /\ home[c] = w /\ life[c] = "live"
    BY DEF Reported
  <2>2. /\ wpc[w] = "poll" /\ batch' = [batch EXCEPT ![w] = R]
        /\ wpc' = [wpc EXCEPT ![w] = "dispatch"] /\ ready' = ready \ R
        /\ UNCHANGED <<bpc, i, bcur, owned, cur, delque, life, home, reg,
                       early, ecb>>
    BY <1>24 DEF EpollWait, Goto
  <2> HIDE DEF R
  <2>3. Types' /\ HoldsInRound' /\ RegisteredLive' /\ InAccept'
    BY <2>1, <2>2
  <2>4. HeldAtHome'
    BY <2>1, <2>2
  <2>5. ClosesWithEcb' /\ EarlyOnly' /\ Reachable'
    BY <2>2
  <2>6. Joined' /\ Spawning' /\ Emptied'
    BY <2>2
  <2> QED BY <2>3, <2>4, <2>5, <2>6
<1>25. ASSUME NEW w \in Loops, EpollNothing(w) PROVE IndInv'
  BY <1>25 DEF EpollNothing, Goto
<1>26. ASSUME NEW w \in Loops, EpollError(w) PROVE IndInv'
  BY <1>26 DEF EpollError, Goto
<1>27. ASSUME NEW w \in Loops, read_eventfd(w) PROVE IndInv'
  BY <1>27 DEF read_eventfd
<1>28. ASSUME NEW w \in Loops, Dispatch(w) PROVE IndInv'
  BY <1>28 DEF Dispatch, Goto
<1>29. ASSUME NEW w \in Loops, ReadSome(w) PROVE IndInv'
  BY <1>29 DEF ReadSome
<1>30. ASSUME NEW w \in Loops, ReadEnd(w) PROVE IndInv'
  BY <1>30 DEF ReadEnd, Goto
<1>31. ASSUME NEW w \in Loops, ReadEof(w) PROVE IndInv'
  BY <1>31 DEF ReadEof, Goto
<1>32. ASSUME NEW w \in Loops, handle_close(w) PROVE IndInv'
  <2>1. /\ wpc[w] = "close" /\ owned' = owned \ {cur[w]}
        /\ ecb' = ecb \ {cur[w]}
        /\ delque' = [delque EXCEPT ![w] = @ \cup {cur[w]}]
        /\ early' = early \cup ({cur[w]} \cap {bcur})
        /\ wpc' = [wpc EXCEPT ![w] = "rest"]
        /\ UNCHANGED <<bpc, i, bcur, batch, cur, life, home, reg, ready>>
    BY <1>32 DEF handle_close, Goto
  <2>2. /\ cur[w] \in Conns /\ cur[w] \in ecb /\ home[cur[w]] = w
        /\ life[cur[w]] = "live"
    BY <2>1
  <2>3. Types' /\ HoldsInRound' /\ RegisteredLive' /\ InAccept'
    BY <2>1, <2>2
  <2>4. HeldAtHome'
    BY <2>1, <2>2
  <2>5. ClosesWithEcb'
    BY <2>1, <2>2
  <2>6. EarlyOnly'
    <3>1. early \subseteq early' /\ bpc' = bpc
      BY <2>1
    <3>2. ASSUME NEW c \in Conns, c \in owned' \/ c = bcur', c \notin early'
          PROVE  life'[c] = "live" /\ \A v \in Loops : c \notin delque'[v]
      <4>1. (c \in owned \/ c = bcur) /\ c \notin early /\ c # cur[w]
        BY <2>1, <3>1, <3>2
      <4>2. life[c] = "live" /\ \A v \in Loops : c \notin delque[v]
        BY <4>1
      <4> QED BY <2>1, <4>1, <4>2
    <3> QED BY <3>1, <3>2
  <2>7. Reachable'
    BY <2>1, <2>2
  <2>8. Joined' /\ Spawning' /\ Emptied'
    BY <2>1, <2>2
  <2> QED BY <2>3, <2>4, <2>5, <2>6, <2>7, <2>8
<1>33. ASSUME NEW w \in Loops, handle_event(w) PROVE IndInv'
  BY <1>33 DEF handle_event, Goto
<1>34. ASSUME NEW w \in Loops, HandleDone(w) PROVE IndInv'
  BY <1>34 DEF HandleDone, Goto
<1>35. ASSUME NEW w \in Loops, Sweep(w) PROVE IndInv'
  <2>1. /\ life' \in [Conns -> {"none", "live", "deleted"}]
        /\ \A c \in Conns :
             life'[c] = IF c \in delque[w] THEN "deleted" ELSE life[c]
    BY <1>35 DEF Sweep, Deleted
  <2>2. batch[w] = {} /\ cur[w] = NoConn
    BY <1>35 DEF Sweep
  <2>3. /\ delque' = [delque EXCEPT ![w] = {}]
        /\ wpc' = [wpc EXCEPT ![w] = "check"]
    BY <1>35 DEF Sweep, Goto
  <2>4. HeldAtHome'
    BY <2>1, <2>2, <2>3, <1>35 DEF Sweep
  <2>5. Reachable'
    BY <2>1, <2>3, <1>35 DEF Sweep
  <2> QED BY <2>1, <2>2, <2>3, <2>4, <2>5, <1>35 DEF Sweep
<1>36. CASE UNCHANGED vars
  BY <1>36 DEF vars
<1> HIDE DEF IndInv
<1> QED BY <1>1, <1>2, <1>3, <1>4, <1>5, <1>6, <1>7, <1>8, <1>9, <1>10,
       <1>11, <1>12, <1>13, <1>14, <1>15, <1>16, <1>17, <1>18, <1>19,
       <1>20, <1>21, <1>22, <1>23, <1>24, <1>25, <1>26, <1>27, <1>28,
       <1>29, <1>30, <1>31, <1>32, <1>33, <1>34, <1>35, <1>36 DEF Next,
       BaseCall, acceptcb_, Run

-----------------------------------------------------------------------------
(* The server that init_pool was called on satisfies the invariant.        *)
LEMMA InitInd == Init => IndInv
  BY PoolAssumption
     DEF Init, IndInv, Types, HoldsInRound, RegisteredLive, HeldAtHome,
         InAccept, ClosesWithEcb, EarlyOnly, Reachable, Joined, Spawning,
         Emptied, Pcs, Busy, Loops

(* It holds in every behaviour.                                            *)
LEMMA Invariance == Spec => []IndInv
  BY InitInd, Inductive, PTL DEF Spec

(* For any number of loops and connections: no loop's thread has a deleted *)
(* connection in its batch, in hand or in delque_, where each is once, and *)
(* neither acceptcb_ nor ~server uses one, unless its loop closed it       *)
(* before acceptcb_ had stored it: the one way to undefined behaviour      *)
(* (server.h acceptcb_ and handle_close, bfevent.cpp update_ep).           *)
THEOREM UsesLiveUnlessClosedEarly == Spec => []LiveUnlessClosedEarly
<1>1. IndInv => LiveUnlessClosedEarly
  <2> SUFFICES ASSUME IndInv PROVE LiveUnlessClosedEarly
    OBVIOUS
  <2>1. ASSUME NEW w \in Loops,
               NEW c \in (batch[w] \cup {cur[w]} \cup delque[w])
                          \ {Efd, NoConn}
        PROVE  life[c] = "live"
    BY <2>1 DEF IndInv, Types, HeldAtHome
  <2>2. ASSUME NEW w \in Loops PROVE delque[w] \cap ecb = {}
    BY <2>2 DEF IndInv, Types, HeldAtHome
  <2>3. /\ \A c \in (owned \cup ({bcur} \ {NoConn})) \ early :
             life[c] = "live" /\ \A w \in Loops : c \notin delque[w]
        /\ bpc = "crashed" => early # {}
    BY DEF IndInv, Types, EarlyOnly
  <2> QED BY <2>1, <2>2, <2>3 DEF LiveUnlessClosedEarly
<1> QED BY <1>1, Invariance, PTL

(* ~server, with stop and ~looptpool, leaves no connection: each live one  *)
(* is in events_, in the delque_ of its loop or in the hands of acceptcb_, *)
(* whichever threads closed connections meanwhile (server.cpp 53-62,       *)
(* looptpool.cpp 47-54).                                                   *)
THEOREM NoLeak == Spec => []AllReleased
<1>1. IndInv => AllReleased
  BY PoolAssumption
     DEF IndInv, Types, InAccept, Reachable, Emptied, AllReleased
<1> QED BY <1>1, Invariance, PTL
=============================================================================
