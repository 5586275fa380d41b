----------------------------- MODULE LfThreadPool -----------------------------
(***************************************************************************)
(* moon::lfthreadpool over moon::lfthread: every worker thread has a ring  *)
(* of tasks of its own, one client thread adds tasks and shuts the pool    *)
(* down, and in dynamic mode a mentor thread is to adjust the pool.        *)
(*                                                                         *)
(* A ring is a sequence of at most Room tasks with an atomic push and pop: *)
(* RingBuff implements this queue for one producer, which is why there is  *)
(* one client and it is also the thread that shuts down (t_shutdown pushes *)
(* a task).  Tasks are numbered in the order in which they are given.      *)
(***************************************************************************)
EXTENDS Integers, Sequences

CONSTANTS
  N,         \* tnum_
  Room,      \* tasks that fit into one ring
  MaxTasks   \* bound: calls of add_task over the whole run

Workers == 0..(N - 1)
Nop == 0     \* the empty task that t_shutdown pushes
Tasks == 1..MaxTasks

ASSUME PoolAssumption ==
  /\ N \in Nat \ {0}
  /\ Room \in Nat \ {0}
  /\ MaxTasks \in Nat

VARIABLES
  mode,      \* mode_
  shutdown,  \* shutdown_ of the pool
  next,      \* next_
  queue,     \* buffer_ of each lfthread
  wshut,     \* shutdown_ of each lfthread
  wpc,       \* where each worker is in t_task
  hand,      \* _task of each worker while it runs
  mpc,       \* where the mentor is in adjust_task
  client,    \* where the client is
  idx,       \* worker the client has chosen, or is shutting down
  scan,      \* i of getminidx
  seen,      \* loads that the running getminidx has read
  given,     \* number of tasks given to add_task
  assigned,  \* tasks each worker's ring has accepted, in order
  ran        \* tasks each worker has run, in order

workvars == <<queue, wshut, wpc, hand, ran>>
clientvars == <<next, client, idx, scan, seen, given, assigned>>
poolvars == <<mode, shutdown, mpc, workvars, clientvars>>

PoolInit ==
  /\ mode \in {"Static", "Dynamic"}
  /\ shutdown = FALSE
  /\ next = 0
  /\ queue = [w \in Workers |-> <<>>]
  /\ wshut = [w \in Workers |-> FALSE]
  /\ wpc = [w \in Workers |-> "test"]
  /\ hand = [w \in Workers |-> Nop]
  /\ mpc = IF mode = "Dynamic" THEN "test" ELSE "ended"
  /\ client = "idle" /\ idx = 0 /\ scan = 0
  /\ seen = [w \in Workers |-> 0]
  /\ given = 0
  /\ assigned = [w \in Workers |-> <<>>]
  /\ ran = [w \in Workers |-> <<>>]

Full(w) == Len(queue[w]) = Room

-----------------------------------------------------------------------------
(* add_task and add_task_move.  Once the pool is shut down they return     *)
(* false and change nothing.                                               *)

GiveTask ==
  /\ client = "idle" /\ ~shutdown /\ given < MaxTasks
  /\ given' = given + 1

(* getnext in static mode: round robin.                                    *)
AddStatic ==
  /\ GiveTask /\ mode = "Static"
  /\ next' = (next + 1) % N
  /\ idx' = next'
  /\ client' = "enqueue"
  /\ UNCHANGED <<mode, shutdown, mpc, workvars, scan, seen, assigned>>

(* getminidx: the loads are read one after the other while the workers go  *)
(* on popping.                                                             *)
AddDynamic ==
  /\ GiveTask /\ mode = "Dynamic"
  /\ seen' = [seen EXCEPT ![0] = Len(queue[0])]
  /\ idx' = 0
  /\ scan' = 1
  /\ client' = "scan"
  /\ UNCHANGED <<mode, shutdown, mpc, workvars, next, assigned>>

(* Mutant: the comparison is the wrong way round.                          *)
getminidx_max ==
  /\ client = "scan" /\ scan < N
  /\ seen' = [seen EXCEPT ![scan] = Len(queue[scan])]
  /\ idx' = IF Len(queue[scan]) > seen[idx] THEN scan ELSE idx
  /\ scan' = scan + 1
  /\ UNCHANGED <<mode, shutdown, mpc, workvars, next, client, given, assigned>>

getminidx ==
  /\ client = "scan" /\ scan < N
  /\ seen' = [seen EXCEPT ![scan] = Len(queue[scan])]
  /\ idx' = IF Len(queue[scan]) < seen[idx] THEN scan ELSE idx
  /\ scan' = scan + 1
  /\ UNCHANGED <<mode, shutdown, mpc, workvars, next, client, given, assigned>>

ScanDone ==
  /\ client = "scan" /\ scan = N
  /\ client' = "enqueue"
  /\ UNCHANGED <<mode, shutdown, mpc, workvars, next, idx, scan, seen, given,
                 assigned>>

(* enqueue_task: true if the task went into the ring, false if it is full. *)
enqueue_task ==
  /\ client = "enqueue"
  /\ IF Full(idx)
     THEN UNCHANGED <<queue, assigned>>
     ELSE /\ queue' = [queue EXCEPT ![idx] = Append(@, given)]
          /\ assigned' = [assigned EXCEPT ![idx] = Append(@, given)]
  /\ client' = "idle"
  /\ UNCHANGED <<mode, shutdown, mpc, wshut, wpc, hand, ran, next, idx, scan,
                 seen, given>>

-----------------------------------------------------------------------------
(* lfthreadpool::t_shutdown, called by the client or by the destructor,    *)
(* with lfthread::t_shutdown for each worker in turn.                      *)

t_shutdown ==
  /\ client = "idle" /\ ~shutdown
  /\ shutdown' = TRUE
  /\ idx' = 0
  /\ client' = "mentor"
  /\ UNCHANGED <<mode, mpc, workvars, next, scan, seen, given, assigned>>

(* mentor_.join(), in dynamic mode only; the mentor has otherwise ended.   *)
JoinMentor ==
  /\ client = "mentor" /\ mpc = "ended"
  /\ client' = "flag"
  /\ UNCHANGED <<mode, shutdown, mpc, workvars, next, idx, scan, seen, given,
                 assigned>>

(* Mutant: lfthread::t_shutdown does not set shutdown_.                    *)
StopFlag_unset ==
  /\ client = "flag" /\ idx < N
  /\ client' = "wake"
  /\ UNCHANGED <<mode, shutdown, mpc, workvars, next, idx, scan, seen, given,
                 assigned>>

StopFlag ==
  /\ client = "flag" /\ idx < N
  /\ wshut' = [wshut EXCEPT ![idx] = TRUE]
  /\ client' = "wake"
  /\ UNCHANGED <<mode, shutdown, mpc, queue, wpc, hand, ran, next, idx, scan,
                 seen, given, assigned>>

(* buffer_.push of the empty task, which a full ring refuses.              *)
StopPush ==
  /\ client = "wake"
  /\ queue' = [queue EXCEPT ![idx] = IF Full(idx) THEN @ ELSE Append(@, Nop)]
  /\ client' = "join"
  /\ UNCHANGED <<mode, shutdown, mpc, wshut, wpc, hand, ran, next, idx, scan,
                 seen, given, assigned>>

StopJoin ==
  /\ client = "join" /\ wpc[idx] = "ended"
  /\ idx' = idx + 1
  /\ client' = "flag"
  /\ UNCHANGED <<mode, shutdown, mpc, workvars, next, scan, seen, given,
                 assigned>>

StopDone ==
  /\ client = "flag" /\ idx = N
  /\ client' = "down"
  /\ UNCHANGED <<mode, shutdown, mpc, workvars, next, idx, scan, seen, given,
                 assigned>>

(* A client that has begun a call goes on with it.                         *)
ClientCall ==
  \/ getminidx \/ ScanDone \/ enqueue_task
  \/ JoinMentor \/ StopFlag \/ StopPush \/ StopJoin \/ StopDone

-----------------------------------------------------------------------------
(* lfthread::t_task.  shutdown_ is no atomic, but it is stored before the  *)
(* release of the pushed task and read again in every round.               *)

WorkerTest(w) ==
  /\ wpc[w] = "test"
  /\ wpc' = [wpc EXCEPT ![w] = IF wshut[w] THEN "drain" ELSE "pop"]
  /\ UNCHANGED <<mode, shutdown, mpc, queue, wshut, hand, ran, clientvars>>

(* pop_move succeeds, or the worker sleeps and tests again.                *)
WorkerPop(w) ==
  /\ wpc[w] = "pop"
  /\ IF queue[w] = <<>>
     THEN /\ wpc' = [wpc EXCEPT ![w] = "test"]
          /\ UNCHANGED <<queue, hand>>
     ELSE /\ wpc' = [wpc EXCEPT ![w] = "run"]
          /\ hand' = [hand EXCEPT ![w] = Head(queue[w])]
          /\ queue' = [queue EXCEPT ![w] = Tail(@)]
  /\ UNCHANGED <<mode, shutdown, mpc, wshut, ran, clientvars>>

(* Mutant: a worker that ran a task goes straight to the shutdown code.    *)
WorkerRun_once(w) ==
  /\ wpc[w] = "run"
  /\ ran' = [ran EXCEPT ![w] = IF hand[w] = Nop THEN @ ELSE Append(@, hand[w])]
  /\ wpc' = [wpc EXCEPT ![w] = "drain"]
  /\ UNCHANGED <<mode, shutdown, mpc, queue, wshut, hand, clientvars>>

(* Mutant: _task is run once more.                                         *)
WorkerRun_again(w) ==
  /\ wpc[w] = "run"
  /\ ran' = [ran EXCEPT ![w] = IF hand[w] = Nop THEN @ ELSE Append(@, hand[w])]
  /\ \E pc \in {"run", "test"} : wpc' = [wpc EXCEPT ![w] = pc]
  /\ Len(ran[w]) < MaxTasks + 1
  /\ UNCHANGED <<mode, shutdown, mpc, queue, wshut, hand, clientvars>>

(* _task()                                                                 *)
WorkerRun(w) ==
  /\ wpc[w] = "run"
  /\ ran' = [ran EXCEPT ![w] = IF hand[w] = Nop THEN @ ELSE Append(@, hand[w])]
  /\ wpc' = [wpc EXCEPT ![w] = "test"]
  /\ UNCHANGED <<mode, shutdown, mpc, queue, wshut, hand, clientvars>>

(* After the loop the remaining tasks are popped; the statement task();    *)
(* makes an empty task object and does not call the one popped.            *)
WorkerDrain(w) ==
  /\ wpc[w] = "drain" /\ queue[w] # <<>>
  /\ queue' = [queue EXCEPT ![w] = Tail(@)]
  /\ UNCHANGED <<mode, shutdown, mpc, wshut, wpc, hand, ran, clientvars>>

WorkerEnd(w) ==
  /\ wpc[w] = "drain" /\ queue[w] = <<>>
  /\ wpc' = [wpc EXCEPT ![w] = "ended"]
  /\ UNCHANGED <<mode, shutdown, mpc, queue, wshut, hand, ran, clientvars>>

t_task(w) ==
  \/ WorkerTest(w) \/ WorkerPop(w) \/ WorkerRun(w)
  \/ WorkerDrain(w) \/ WorkerEnd(w)

-----------------------------------------------------------------------------
(* adjust_task: while (shutdown_) { sleep; if (shutdown_) break; ... }.    *)
(* The loop is entered only when the pool is shut down, and then left      *)
(* after the sleep, so nothing behind the break is ever reached.           *)

MentorTest ==
  /\ mpc = "test"
  /\ mpc' = IF shutdown THEN "sleep" ELSE "ended"
  /\ UNCHANGED <<mode, shutdown, workvars, clientvars>>

MentorWake ==
  /\ mpc = "sleep" /\ shutdown
  /\ mpc' = "ended"
  /\ UNCHANGED <<mode, shutdown, workvars, clientvars>>

adjust_task == MentorTest \/ MentorWake

(* The pool is shut down: all threads have ended.                          *)
Terminated == client = "down" /\ UNCHANGED poolvars

PoolNext ==
  \/ AddStatic \/ AddDynamic \/ t_shutdown \/ ClientCall
  \/ \E w \in Workers : t_task(w)
  \/ adjust_task
  \/ Terminated

PoolSpec == PoolInit /\ [][PoolNext]_poolvars

(* Every thread keeps running and tasks return; nobody is obliged to add   *)
(* tasks or to shut the pool down.                                         *)
FairPoolSpec ==
  /\ PoolSpec
  /\ WF_poolvars(ClientCall) /\ WF_poolvars(adjust_task)
  /\ \A w \in Workers : WF_poolvars(t_task(w))

-----------------------------------------------------------------------------
InHand(w) == IF wpc[w] = "run" THEN <<hand[w]>> ELSE <<>>

(* The tasks of s.  t_shutdown pushes the empty task behind all others.    *)
Real(s) ==
  IF s # <<>> /\ s[Len(s)] = Nop THEN SubSeq(s, 1, Len(s) - 1) ELSE s

(* A worker runs the tasks its ring has accepted, each once and in the     *)
(* order of add_task: until it leaves its loop they are the ones it has    *)
(* run, the one in hand and the ones in the ring, and later what it has    *)
(* run is a prefix of them (lfthread.cpp 92-106, lfthreadpool.tpp 55-63).  *)
RunOnceInOrder ==
  \A w \in Workers :
    /\ wpc[w] \notin {"drain", "ended"}
         => ran[w] \o Real(InHand(w) \o queue[w]) = assigned[w]
    /\ Len(ran[w]) <= Len(assigned[w])
    /\ ran[w] = SubSeq(assigned[w], 1, Len(ran[w]))

(* In dynamic mode a task goes to a worker that, at the moment of the      *)
(* push, has no more tasks than any worker had when getminidx looked at    *)
(* it; so a refused task found every ring full (getminidx, although the    *)
(* loads are old when they are compared).                                  *)
LeastLoaded ==
  client = "enqueue" /\ mode = "Dynamic"
    => \A w \in Workers : Len(queue[idx]) <= seen[w]

(* t_shutdown returns, whatever the workers do and however full the rings  *)
(* are (lfthread.cpp 80-86).                                               *)
ShutdownEnds == shutdown ~> (client = "down")

(* A task that add_task accepted is run, unless the pool is shut down.     *)
TasksRun ==
  \A w \in Workers, k \in Tasks :
    Len(assigned[w]) >= k ~> (Len(ran[w]) >= k \/ shutdown)

(* t_shutdown runs what is still queued: the comment in t_task says        *)
(* "execute task before shutdown", guide_en.md "ensuring all tasks are     *)
(* completed".                                                             *)
AllTasksCompleted ==
  client = "down" => \A w \in Workers : ran[w] = assigned[w]
=============================================================================
