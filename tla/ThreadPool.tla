------------------------------ MODULE ThreadPool ------------------------------
(***************************************************************************)
(* moon::threadpool: a locked queue of tasks, worker threads that wait on  *)
(* a condition variable, and a manager thread that starts workers and asks *)
(* workers to exit.  The manager sets exit_num and reads most of what it   *)
(* decides on without the lock mx, in steps of their own; so a worker's    *)
(* wait predicate and its tests behind it are two steps of one critical    *)
(* section.  Every other critical section is one step.                     *)
(*                                                                         *)
(* Tasks are numbered in the order in which they are added.  t_shutdown is *)
(* called once, by the destructor.                                         *)
(***************************************************************************)
EXTENDS Integers, Sequences, FiniteSets

CONSTANTS
  Clients,   \* threads that call add_task
  MinThr,    \* min_thr_num
  MaxThr,    \* max_thr_num
  Batch,     \* at most so many workers are added or removed at once (10)
  MaxTasks,  \* bound: tasks that are added
  MaxExit    \* bound: rounds in which the manager asks workers to exit

ASSUME PoolAssumption ==
  /\ MinThr \in Nat \ {0} /\ MaxThr \in Nat /\ Batch \in Nat \ {0}
  /\ MaxTasks \in Nat /\ MaxExit \in Nat

Least(i, j) == IF i < j THEN i ELSE j

(* threads starts with MinThr empty elements, so it has MinThr more than   *)
(* there are workers.                                                      *)
Limit == IF 2 * MinThr < MaxThr THEN MaxThr - MinThr ELSE MinThr
Workers == 1..Limit

VARIABLES
  tasks,     \* tasks
  added,     \* number of tasks that were added
  taken,     \* tasks that workers took, in order
  shutdown,  \* shutdown
  run_num,   \* run_num
  live_num,  \* live_num
  exit_num,  \* exit_num
  started,   \* number of workers started
  wpc,       \* where each worker is in t_task; "awake" holds mx
  cpc,       \* where each client is in add_task
  opc,       \* where the destructor is in t_shutdown
  joining,   \* workers that t_shutdown has still to join
  mpc,       \* where the manager is in adjust_task
  x,         \* local of adjust_task
  rounds,    \* rounds in which workers may still be asked to exit
  crashed    \* the program did what has no defined outcome

counts == <<run_num, live_num, exit_num>>
ownervars == <<shutdown, opc, joining>>
mgrvars == <<mpc, x, rounds>>
vars == <<tasks, added, taken, counts, started, wpc, cpc, ownervars, mgrvars,
          crashed>>

Init ==
  /\ tasks = <<>> /\ added = 0 /\ taken = <<>>
  /\ shutdown = FALSE
  /\ run_num = 0 /\ live_num = 0 /\ exit_num = 0
  /\ started = MinThr
  /\ wpc = [w \in Workers |-> IF w <= MinThr THEN "top" ELSE "unborn"]
  /\ cpc = [c \in Clients |-> "idle"]
  /\ opc = "running" /\ joining = {}
  /\ mpc = "test" /\ x = 0 /\ rounds = MaxExit
  /\ crashed = FALSE

(* No worker holds mx.                                                     *)
Unlocked == \A w \in Workers : wpc[w] # "awake"

Waiting == {w \in Workers : wpc[w] = "waiting"}

(* Threads in S leave the wait and will test the predicate again.          *)
Wake(S) == [w \in Workers |-> IF w \in S THEN "top" ELSE wpc[w]]

(* notify_one, k times: k waiting threads wake, or all if there are fewer. *)
Notify(k) ==
  \E S \in SUBSET Waiting :
    /\ Cardinality(S) = Least(k, Cardinality(Waiting))
    /\ wpc' = Wake(S)

-----------------------------------------------------------------------------
(* add_task.                                                               *)

(* Mutant: shutdown is not tested.                                         *)
AddPush_always(c) ==
  /\ cpc[c] = "idle" /\ Unlocked /\ added < MaxTasks
  /\ added' = added + 1
  /\ tasks' = Append(tasks, added')
  /\ cpc' = [cpc EXCEPT ![c] = "notify"]
  /\ UNCHANGED <<taken, counts, started, wpc, ownervars, mgrvars, crashed>>

AddPush(c) ==
  /\ cpc[c] = "idle" /\ Unlocked /\ ~shutdown /\ added < MaxTasks
  /\ added' = added + 1
  /\ tasks' = Append(tasks, added')
  /\ cpc' = [cpc EXCEPT ![c] = "notify"]
  /\ UNCHANGED <<taken, counts, started, wpc, ownervars, mgrvars, crashed>>

(* Mutant: notify_one is forgotten.                                        *)
AddNotify_silent(c) ==
  /\ cpc[c] = "notify"
  /\ cpc' = [cpc EXCEPT ![c] = "idle"]
  /\ UNCHANGED <<tasks, added, taken, counts, started, wpc, ownervars,
                 mgrvars, crashed>>

(* task_cv.notify_one() after the lock is released.                        *)
AddNotify(c) ==
  /\ cpc[c] = "notify"
  /\ Notify(1)
  /\ cpc' = [cpc EXCEPT ![c] = "idle"]
  /\ UNCHANGED <<tasks, added, taken, counts, started, ownervars, mgrvars,
                 crashed>>

-----------------------------------------------------------------------------
(* t_task.                                                                 *)

Predicate == tasks # <<>> \/ shutdown \/ exit_num > 0

Goto(w, pc) == wpc' = [wpc EXCEPT ![w] = pc]

(* The predicate is false: unlock and wait, in one step.                   *)
WorkerWait(w) ==
  /\ wpc[w] = "top" /\ Unlocked /\ ~Predicate
  /\ Goto(w, "waiting")
  /\ UNCHANGED <<tasks, added, taken, counts, started, cpc, ownervars,
                 mgrvars, crashed>>

(* The predicate is true: the worker goes on with the lock held.           *)
WorkerWake(w) ==
  /\ wpc[w] = "top" /\ Unlocked /\ Predicate
  /\ Goto(w, "awake")
  /\ UNCHANGED <<tasks, added, taken, counts, started, cpc, ownervars,
                 mgrvars, crashed>>

(* A condition variable may wake up without a notification.                *)
Spurious(w) ==
  /\ w \in Waiting
  /\ Goto(w, "top")
  /\ UNCHANGED <<tasks, added, taken, counts, started, cpc, ownervars,
                 mgrvars, crashed>>

WorkerExit(w) ==
  /\ wpc[w] = "awake" /\ exit_num > 0
  /\ exit_num' = exit_num - 1
  /\ Goto(w, "exited")
  /\ UNCHANGED <<tasks, added, taken, run_num, live_num, started, cpc,
                 ownervars, mgrvars, crashed>>

WorkerLeave(w) ==
  /\ wpc[w] = "awake" /\ exit_num <= 0 /\ shutdown /\ tasks = <<>>
  /\ Goto(w, "left")
  /\ UNCHANGED <<tasks, added, taken, counts, started, cpc, ownervars,
                 mgrvars, crashed>>

(* Mutant: the task is copied from the queue but not popped.               *)
WorkerTake_nopop(w) ==
  /\ wpc[w] = "awake" /\ exit_num <= 0 /\ tasks # <<>>
  /\ Len(taken) < MaxTasks
  /\ taken' = Append(taken, Head(tasks))
  /\ Goto(w, "took")
  /\ UNCHANGED <<tasks, added, counts, started, cpc, ownervars, mgrvars,
                 crashed>>

WorkerTake(w) ==
  /\ wpc[w] = "awake" /\ exit_num <= 0 /\ tasks # <<>>
  /\ taken' = Append(taken, Head(tasks))
  /\ tasks' = Tail(tasks)
  /\ Goto(w, "took")
  /\ UNCHANGED <<added, counts, started, cpc, ownervars, mgrvars, crashed>>

(* The manager has set exit_num to zero or less since the predicate was    *)
(* tested, and that was all that made it true: front() of an empty queue.  *)
WorkerFront(w) ==
  /\ wpc[w] = "awake" /\ exit_num <= 0 /\ ~shutdown /\ tasks = <<>>
  /\ crashed' = TRUE
  /\ UNCHANGED <<tasks, added, taken, counts, started, wpc, cpc, ownervars,
                 mgrvars>>

(* ++run_num, which no line of the code takes back.                        *)
WorkerRunNum(w) ==
  /\ wpc[w] = "took"
  /\ run_num' = run_num + 1
  /\ Goto(w, "counted")
  /\ UNCHANGED <<tasks, added, taken, live_num, exit_num, started, cpc,
                 ownervars, mgrvars, crashed>>

(* --live_num, task(), sleep.                                              *)
WorkerRun(w) ==
  /\ wpc[w] = "counted"
  /\ live_num' = live_num - 1
  /\ Goto(w, "top")
  /\ UNCHANGED <<tasks, added, taken, run_num, exit_num, started, cpc,
                 ownervars, mgrvars, crashed>>

t_task(w) ==
  \/ WorkerWait(w) \/ WorkerWake(w) \/ WorkerExit(w) \/ WorkerLeave(w)
  \/ WorkerTake(w) \/ WorkerFront(w) \/ WorkerRunNum(w) \/ WorkerRun(w)

-----------------------------------------------------------------------------
(* adjust_task.                                                            *)

ManagerTest ==
  /\ mpc = "test"
  /\ mpc' = IF shutdown THEN "ended" ELSE "growtest"
  /\ UNCHANGED <<tasks, added, taken, counts, started, wpc, cpc, ownervars,
                 x, rounds, crashed>>

(* threads.size(), which the manager alone changes.                        *)
size == MinThr + started

(* tasks.size() > live_num compares as unsigned: a negative live_num is    *)
(* larger than any size.                                                   *)
ManagerGrowTest ==
  /\ mpc = "growtest"
  /\ mpc' = IF /\ live_num >= 0 /\ Len(tasks) > live_num
               /\ live_num < MaxThr /\ size < MaxThr
            THEN "grow" ELSE "shrinktest"
  /\ UNCHANGED <<tasks, added, taken, counts, started, wpc, cpc, ownervars,
                 x, rounds, crashed>>

(* threads.emplace_back, under the lock; but the loop of t_shutdown over   *)
(* threads holds none.  If the elements move while it runs, it goes on     *)
(* over the old ones in freed memory: they may look joined already, or the *)
(* program crashes.                                                        *)
ManagerGrow ==
  LET new == Least(Batch, MaxThr - size)
  IN /\ mpc = "grow" /\ Unlocked
     /\ started' = started + new
     /\ live_num' = live_num + new
     /\ wpc' = [w \in Workers |->
                  IF w \in (started + 1)..started' THEN "top" ELSE wpc[w]]
     /\ mpc' = "shrinktest"
     /\ joining' \in SUBSET joining
     /\ crashed' \in {FALSE, opc = "join"}
     /\ UNCHANGED <<tasks, added, taken, run_num, exit_num, cpc, shutdown,
                    opc, x, rounds>>

ManagerShrinkTest ==
  /\ mpc = "shrinktest"
  /\ mpc' = IF run_num * 2 < live_num /\ live_num > MinThr /\ rounds > 0
            THEN "shrink" ELSE "test"
  /\ UNCHANGED <<tasks, added, taken, counts, started, wpc, cpc, ownervars,
                 x, rounds, crashed>>

(* exit_num = ..., without the lock.                                       *)
ManagerSetExit ==
  /\ mpc = "shrink"
  /\ exit_num' = Least(Batch, live_num - MinThr)
  /\ rounds' = rounds - 1
  /\ mpc' = "readexit"
  /\ UNCHANGED <<tasks, added, taken, run_num, live_num, started, wpc, cpc,
                 ownervars, x, crashed>>

(* int x = exit_num: a worker may have taken some of it already.           *)
ManagerReadExit ==
  /\ mpc = "readexit"
  /\ x' = exit_num
  /\ mpc' = "notify"
  /\ UNCHANGED <<tasks, added, taken, counts, started, wpc, cpc, ownervars,
                 rounds, crashed>>

(* x times notify_one and live_num--, under the lock; x is not used again. *)
ManagerNotify ==
  LET k == IF x > 0 THEN x ELSE 0
  IN /\ mpc = "notify" /\ Unlocked
     /\ Notify(k)
     /\ live_num' = live_num - k
     /\ mpc' = "test" /\ x' = 0
     /\ UNCHANGED <<tasks, added, taken, run_num, exit_num, started, cpc,
                    ownervars, rounds, crashed>>

adjust_task ==
  \/ ManagerTest \/ ManagerGrowTest \/ ManagerGrow
  \/ ManagerShrinkTest \/ ManagerSetExit \/ ManagerReadExit \/ ManagerNotify

-----------------------------------------------------------------------------
(* ~threadpool: t_shutdown.                                                *)

ShutdownFlag ==
  /\ opc = "running" /\ Unlocked
  /\ shutdown' = TRUE
  /\ opc' = "notify"
  /\ UNCHANGED <<tasks, added, taken, counts, started, wpc, cpc, joining,
                 mgrvars, crashed>>

(* Mutant: notify_one instead of notify_all.                               *)
ShutdownNotify_one ==
  /\ opc = "notify"
  /\ Notify(1)
  /\ joining' = 1..started
  /\ opc' = "join"
  /\ UNCHANGED <<tasks, added, taken, counts, started, cpc, shutdown,
                 mgrvars, crashed>>

(* adjust_thr.detach(), task_cv.notify_all(), and the range of the for     *)
(* loop is fixed.                                                          *)
ShutdownNotify ==
  /\ opc = "notify"
  /\ wpc' = Wake(Waiting)
  /\ joining' = 1..started
  /\ opc' = "join"
  /\ UNCHANGED <<tasks, added, taken, counts, started, cpc, shutdown,
                 mgrvars, crashed>>

Ended(w) == wpc[w] \in {"exited", "left"}

ShutdownJoin ==
  /\ opc = "join"
  /\ \E w \in joining : Ended(w) /\ joining' = joining \ {w}
  /\ UNCHANGED <<tasks, added, taken, counts, started, wpc, cpc, shutdown, opc,
                 mgrvars, crashed>>

ShutdownDone ==
  /\ opc = "join" /\ joining = {}
  /\ opc' = "down"
  /\ UNCHANGED <<tasks, added, taken, counts, started, wpc, cpc, shutdown,
                 joining, mgrvars, crashed>>

t_shutdown == ShutdownNotify \/ ShutdownJoin \/ ShutdownDone

(* There is a pool: what a thread does to one that is gone, or goes on to  *)
(* do after a crash, is undefined.                                         *)
Alive == opc # "down" /\ ~crashed

Terminated == ~Alive /\ UNCHANGED vars

Step ==
  \/ \E c \in Clients : AddPush(c) \/ AddNotify(c)
  \/ \E w \in Workers : t_task(w) \/ Spurious(w)
  \/ adjust_task
  \/ ShutdownFlag \/ t_shutdown

Next == (Alive /\ Step) \/ Terminated

Spec == Init /\ [][Next]_vars

(* Every thread that does not wait keeps running; tasks return.  No wakeup *)
(* is assumed but the ones that are sent.                                  *)
FairSpec ==
  /\ Spec
  /\ \A c \in Clients : WF_vars(Alive /\ AddNotify(c))
  /\ \A w \in Workers : WF_vars(Alive /\ t_task(w))
  /\ WF_vars(Alive /\ adjust_task) /\ WF_vars(Alive /\ t_shutdown)

-----------------------------------------------------------------------------
(* Each task is taken once, in the order in which tasks were added         *)
(* (threadpool.cpp 82-83).                                                 *)
TakenInOrder == taken \o tasks = [k \in 1..added |-> k]

(* A worker that leaves because of the shutdown leaves no task behind,     *)
(* then or later, although clients may be in add_task and other workers    *)
(* may have been told to exit (threadpool.cpp 75-81, threadpool.tpp 58).   *)
LeavesNothing == (\E w \in Workers : wpc[w] = "left") => tasks = <<>>

(* t_shutdown returns: no worker sleeps through it, whatever clients and   *)
(* the manager do (threadpool.cpp 99-109), unless the manager, by adding   *)
(* workers to threads meanwhile, crashes the program.                      *)
ShutdownEnds == shutdown ~> (opc = "down" \/ crashed)

(* Until the manager asks workers to exit, no wakeup is lost: when a task  *)
(* is queued some worker is awake or some client is about to notify one    *)
(* (threadpool.tpp 57-62, threadpool.cpp 71-74); and no worker takes a     *)
(* task from an empty queue.  Later the worker that was notified may exit  *)
(* instead, and one that woke up to exit may find that it need not.        *)
NoLostWakeup ==
  ~shutdown /\ rounds = MaxExit
    => /\ ~crashed
       /\ tasks # <<>> =>
            \/ \E w \in Workers :
                 wpc[w] \in {"top", "awake", "took", "counted"}
            \/ \E c \in Clients : cpc[c] = "notify"
=============================================================================
