--------------------------- MODULE ThreadPoolProofs ---------------------------
(***************************************************************************)
(* The safety of moon::threadpool for every number of clients, workers and *)
(* tasks.                                                                  *)
(***************************************************************************)
EXTENDS ThreadPool, FiniteSetTheorems, SequenceTheorems, TLAPS

(* A worker that is awake or will be notified.                             *)
Serving == {"waiting", "top", "awake", "took", "counted"}

(* The types of what the argument is about.                                *)
Types ==
  /\ tasks \in Seq(Nat) /\ taken \in Seq(Nat) /\ added \in Nat
  /\ shutdown \in BOOLEAN /\ crashed \in BOOLEAN
  /\ wpc \in [Workers -> Serving \cup {"unborn", "exited", "left"}]
  /\ cpc \in [Clients -> {"idle", "notify"}]
  /\ rounds \in Int /\ rounds <= MaxExit

(* Until the manager has asked workers to exit, none is asked to, and the  *)
(* first worker serves.                                                    *)
NoneExits ==
  rounds = MaxExit =>
    /\ exit_num = 0 /\ mpc \notin {"readexit", "notify"}
    /\ shutdown \/ wpc[1] \in Serving

(* One worker at a time is awake with the lock held, and before the        *)
(* manager asks workers to exit it has a task or a shutdown to go for.     *)
Locked ==
  /\ \A v, w \in Workers : wpc[v] = "awake" /\ wpc[w] = "awake" => v = w
  /\ \A w \in Workers :
       wpc[w] = "awake" /\ rounds = MaxExit => tasks # <<>> \/ shutdown

(* t_shutdown sets the flag first.                                         *)
FlagFirst == opc # "running" => shutdown

(* Workers leave in a shutdown only, when nothing is queued.               *)
LeftInShutdown ==
  \A w \in Workers : wpc[w] = "left" => shutdown /\ tasks = <<>>

(* The inductive invariant.                                                *)
IndInv ==
  /\ Types /\ TakenInOrder /\ NoneExits /\ Locked /\ FlagFirst
  /\ LeftInShutdown /\ NoLostWakeup

-----------------------------------------------------------------------------
(* Pushing at the end of the second of two sequences.                      *)
LEMMA ConcatAppend ==
  ASSUME NEW S, NEW a \in Seq(S), NEW b \in Seq(S), NEW e \in S
  PROVE  a \o Append(b, e) = Append(a \o b, e)
<1>1. Append(b, e) = b \o <<e>> /\ <<e>> \in Seq(S)
  BY AppendIsConcat
<1>2. a \o b \in Seq(S)
  BY ConcatProperties
<1>3. Append(a \o b, e) = (a \o b) \o <<e>>
  BY <1>2, AppendIsConcat
<1>4. (a \o b) \o <<e>> = a \o (b \o <<e>>)
  BY <1>1, ConcatAssociative
<1> QED BY <1>1, <1>3, <1>4

(* Moving the head of the second to the end of the first.                  *)
LEMMA ConcatShift ==
  ASSUME NEW S, NEW a \in Seq(S), NEW b \in Seq(S), b # <<>>
  PROVE  Append(a, Head(b)) \o Tail(b) = a \o b
<1> DEFINE h == Head(b)
           t == Tail(b)
<1>1. h \in S /\ t \in Seq(S)
  BY HeadTailProperties
<1>2. <<h>> \o t = b
  <2>1. 1 \in 1..Len(b) /\ Len(b) \in 1..Len(b) /\ 1 + 1 = 2
    BY EmptySeq, LenProperties
  <2>2. SubSeq(b, 1, Len(b)) = <<b[1]>> \o SubSeq(b, 1 + 1, Len(b))
    BY <2>1, SubSeqRecursiveFirst
  <2>3. SubSeq(b, 1, Len(b)) = b /\ t = SubSeq(b, 2, Len(b)) /\ h = b[1]
    BY SubSeqFull, TailIsSubSeq
  <2> QED BY <2>1, <2>2, <2>3
<1> HIDE DEF h, t
<1>3. Append(a, h) = a \o <<h>> /\ <<h>> \in Seq(S)
  BY <1>1, AppendIsConcat
<1>4. (a \o <<h>>) \o t = a \o (<<h>> \o t)
  BY <1>1, <1>3, ConcatAssociative
<1> QED BY <1>2, <1>3, <1>4 DEF t

(* The first n numbers, and one more.                                      *)
LEMMA NumbersAppend ==
  ASSUME NEW n \in Nat
  PROVE  Append([k \in 1..n |-> k], n + 1) = [k \in 1..(n + 1) |-> k]
  OBVIOUS

(* add_task and t_task keep the order of the tasks.                        *)
LEMMA PushKeepsOrder ==
  ASSUME Types, TakenInOrder, UNCHANGED taken,
         added' = added + 1, tasks' = Append(tasks, added + 1)
  PROVE  TakenInOrder'
<1>1. /\ tasks \in Seq(Nat) /\ taken \in Seq(Nat)
      /\ added \in Nat /\ added + 1 \in Nat
  BY DEF Types
<1>2. taken \o Append(tasks, added + 1) = Append(taken \o tasks, added + 1)
  BY <1>1, ConcatAppend
<1>3. taken' \o tasks' = Append([k \in 1..added |-> k], added + 1)
  BY <1>2, Zenon DEF TakenInOrder
<1> QED BY <1>1, <1>3, NumbersAppend, Zenon DEF TakenInOrder

(* A worker that takes the first task keeps the order.                     *)
LEMMA TakeKeepsOrder ==
  ASSUME Types, TakenInOrder, UNCHANGED added, tasks # <<>>,
         taken' = Append(taken, Head(tasks)), tasks' = Tail(tasks)
  PROVE  TakenInOrder'
<1>1. tasks \in Seq(Nat) /\ taken \in Seq(Nat)
  BY DEF Types
<1>2. Append(taken, Head(tasks)) \o Tail(tasks) = taken \o tasks
  BY <1>1, ConcatShift, Zenon
<1> QED BY <1>2, Zenon DEF TakenInOrder

-----------------------------------------------------------------------------
(* There is a first worker.                                                *)
LEMMA FirstWorker == 1 \in Workers /\ Limit \in Nat
  BY PoolAssumption DEF Workers, Limit

(* notify_one wakes a worker when one waits, and changes nothing else.     *)
LEMMA NotifyWakes ==
  ASSUME Types, NEW k \in Nat, Notify(k)
  PROVE  \E S \in SUBSET Waiting :
           /\ wpc' = Wake(S)
           /\ k > 0 /\ Waiting # {} => S # {}
<1>1. PICK S \in SUBSET Waiting :
        /\ Cardinality(S) = Least(k, Cardinality(Waiting))
        /\ wpc' = Wake(S)
  BY DEF Notify
<1>2. IsFiniteSet(Workers)
  BY FirstWorker, FS_Interval DEF Workers
<1>3. IsFiniteSet(Waiting)
  BY <1>2, FS_Subset DEF Waiting
<1>4. /\ Cardinality(Waiting) \in Nat
      /\ Cardinality(Waiting) = 0 => Waiting = {}
  BY <1>3, FS_CardinalityType, FS_EmptySet
<1>5. k > 0 /\ Waiting # {} => S # {}
  BY <1>1, <1>4, FS_EmptySet DEF Least
<1> QED BY <1>1, <1>5
(* Waking some of the waiting workers keeps the invariant; the task that   *)
(* was queued for one of them has a worker then.                           *)
LEMMA WakeKeeps ==
  ASSUME IndInv, NEW S \in SUBSET Waiting, wpc' = Wake(S),
         cpc' \in [Clients -> {"idle", "notify"}],
         Waiting # {} => S # {},
         UNCHANGED <<exit_num, mpc, tasks, added, taken, shutdown, rounds,
                     opc, crashed>>
  PROVE  IndInv'
<1> USE FirstWorker DEF IndInv, Types, Waiting, Wake, Serving
<1>1. Types'
  OBVIOUS
<1>2. TakenInOrder'
  BY DEF TakenInOrder
<1>3. NoneExits'
  BY DEF NoneExits
<1>4. LeftInShutdown' /\ Locked' /\ FlagFirst'
  BY DEF LeftInShutdown, Locked, FlagFirst
<1>5. NoLostWakeup'
  <2> SUFFICES ASSUME ~shutdown, rounds = MaxExit
               PROVE  \E w \in Workers :
                        wpc'[w] \in {"top", "awake", "took", "counted"}
    BY DEF NoLostWakeup
  <2>1. CASE wpc[1] = "waiting"
    <3>1. PICK w \in S : TRUE
      BY <2>1
    <3> QED BY <3>1
  <2>2. CASE wpc[1] # "waiting"
    BY <2>2 DEF NoneExits
  <2> QED BY <2>1, <2>2
<1> QED BY <1>1, <1>2, <1>3, <1>4, <1>5

(* Every step of every thread keeps the invariant.                         *)
LEMMA Inductive == IndInv /\ [Next]_vars => IndInv'
<1> SUFFICES ASSUME IndInv, [Next]_vars PROVE IndInv'
  OBVIOUS
<1> USE PoolAssumption, FirstWorker
    DEF IndInv, Types, TakenInOrder, NoneExits, Locked, FlagFirst,
        LeftInShutdown, NoLostWakeup, Unlocked, Serving, counts, ownervars,
        mgrvars
<1>1. ASSUME NEW c \in Clients, AddPush(c) PROVE IndInv'
  <2>1. /\ ~shutdown /\ added' = added + 1 /\ tasks' = Append(tasks, added + 1)
        /\ cpc' = [cpc EXCEPT ![c] = "notify"]
        /\ UNCHANGED <<taken, exit_num, shutdown, wpc, mpc, rounds, opc,
                       crashed>>
        /\ Unlocked
    BY <1>1 DEF AddPush
  <2>2. tasks' \in Seq(Nat) /\ added' \in Nat
    BY <2>1, AppendProperties
  <2>3. TakenInOrder'
    BY <2>1, PushKeepsOrder, Zenon
  <2> HIDE DEF TakenInOrder
  <2> QED BY <2>1, <2>2, <2>3
<1>2. ASSUME NEW c \in Clients, AddNotify(c) PROVE IndInv'
  <2>1. PICK S \in SUBSET Waiting : wpc' = Wake(S) /\ (Waiting # {} => S # {})
    BY <1>2, NotifyWakes DEF AddNotify
  <2>2. /\ cpc' \in [Clients -> {"idle", "notify"}]
        /\ UNCHANGED <<exit_num, mpc, tasks, added, taken, shutdown, rounds,
                     opc, crashed>>
    BY <1>2 DEF AddNotify
  <2> QED BY <2>1, <2>2, WakeKeeps
<1>3. ASSUME NEW w \in Workers, WorkerWait(w) PROVE IndInv'
  BY <1>3 DEF WorkerWait, Goto, Predicate
<1>4. ASSUME NEW w \in Workers, Spurious(w) PROVE IndInv'
  BY <1>4 DEF Spurious, Goto
<1>5. ASSUME NEW w \in Workers, WorkerExit(w) PROVE IndInv'
  BY <1>5 DEF WorkerExit, Goto
<1>6. ASSUME NEW w \in Workers, WorkerLeave(w) PROVE IndInv'
  BY <1>6 DEF WorkerLeave, Goto
<1>7. ASSUME NEW w \in Workers, WorkerTake(w) PROVE IndInv'
  <2>1. /\ tasks # <<>>
        /\ taken' = Append(taken, Head(tasks)) /\ tasks' = Tail(tasks)
        /\ wpc' = [wpc EXCEPT ![w] = "took"]
        /\ UNCHANGED <<added, cpc, exit_num, shutdown, mpc, rounds, opc,
                       crashed>>
        /\ wpc[w] = "awake"
    BY <1>7 DEF WorkerTake, Goto
  <2>2. tasks' \in Seq(Nat) /\ taken' \in Seq(Nat)
    BY <2>1, HeadTailProperties, AppendProperties
  <2>3. TakenInOrder'
    BY <2>1, TakeKeepsOrder, Zenon
  <2> HIDE DEF TakenInOrder
  <2> QED BY <2>1, <2>2, <2>3
<1>8. ASSUME NEW w \in Workers, WorkerRunNum(w) PROVE IndInv'
  BY <1>8 DEF WorkerRunNum, Goto
<1>9. ASSUME NEW w \in Workers, WorkerRun(w) PROVE IndInv'
  BY <1>9 DEF WorkerRun, Goto
<1>10. ASSUME ManagerTest PROVE IndInv'
  BY <1>10 DEF ManagerTest
<1>11. ASSUME NEW w \in Workers, WorkerWake(w) PROVE IndInv'
  BY <1>11 DEF WorkerWake, Goto, Predicate
<1>11a. ASSUME NEW w \in Workers, WorkerFront(w) PROVE IndInv'
  <2>1. rounds # MaxExit
    BY <1>11a DEF WorkerFront
  <2>2. /\ crashed' = TRUE
        /\ UNCHANGED <<tasks, added, taken, shutdown, exit_num, wpc, cpc, opc,
                       mpc, rounds>>
    BY <1>11a DEF WorkerFront
  <2> QED BY <2>1, <2>2
<1>12. ASSUME ManagerGrowTest PROVE IndInv'
  BY <1>12 DEF ManagerGrowTest
<1>13. ASSUME ManagerGrow PROVE IndInv'
  BY <1>13 DEF ManagerGrow
<1>14. ASSUME ManagerShrinkTest PROVE IndInv'
  BY <1>14 DEF ManagerShrinkTest
<1>15. ASSUME ManagerSetExit PROVE IndInv'
  BY <1>15 DEF ManagerSetExit
<1>16. ASSUME ManagerReadExit PROVE IndInv'
  BY <1>16 DEF ManagerReadExit
<1>17. ASSUME ManagerNotify PROVE IndInv'
  <2>1. PICK S \in SUBSET Waiting : wpc' = Wake(S)
    BY <1>17 DEF ManagerNotify, Notify
  <2>2. /\ rounds < MaxExit
        /\ UNCHANGED <<exit_num, cpc, tasks, added, taken, shutdown, rounds,
                       opc, crashed>>
        /\ Unlocked
    BY <1>17 DEF ManagerNotify
  <2> QED BY <2>1, <2>2 DEF Wake
<1>18. ASSUME ShutdownFlag PROVE IndInv'
  BY <1>18 DEF ShutdownFlag
<1>19. ASSUME ShutdownNotify PROVE IndInv'
  BY <1>19 DEF ShutdownNotify, Wake
<1>20. ASSUME ShutdownJoin PROVE IndInv'
  BY <1>20 DEF ShutdownJoin
<1>21. ASSUME ShutdownDone PROVE IndInv'
  BY <1>21 DEF ShutdownDone
<1>22. ASSUME UNCHANGED vars PROVE IndInv'
  BY <1>22 DEF vars
<1> HIDE DEF IndInv
<1> QED BY <1>1, <1>2, <1>3, <1>4, <1>5, <1>6, <1>7, <1>8, <1>9, <1>10,
       <1>11, <1>11a, <1>12, <1>13, <1>14, <1>15, <1>16, <1>17, <1>18, <1>19,
       <1>20, <1>21, <1>22
    DEF Next, Step, t_task, adjust_task, t_shutdown, Terminated

-----------------------------------------------------------------------------
(* The pool that the constructor has started satisfies the invariant.      *)
LEMMA InitInd == Init => IndInv
<1> SUFFICES ASSUME Init PROVE IndInv
  OBVIOUS
<1>1. Types
  <2>1. <<>> \in Seq(Nat)
    BY EmptySeq
  <2>2. wpc \in [Workers -> Serving \cup {"unborn", "exited", "left"}]
    BY DEF Init, Serving
  <2>3. cpc \in [Clients -> {"idle", "notify"}] /\ shutdown \in BOOLEAN
        /\ crashed \in BOOLEAN
    BY DEF Init
  <2>4. rounds \in Int /\ rounds <= MaxExit
    BY PoolAssumption DEF Init
  <2>5. tasks \in Seq(Nat) /\ taken \in Seq(Nat) /\ added \in Nat
    BY <2>1 DEF Init
  <2> QED BY <2>2, <2>3, <2>4, <2>5 DEF Types
<1>2. TakenInOrder
  <2>1. taken = <<>> /\ tasks = <<>> /\ added = 0
    BY DEF Init
  <2> QED BY <2>1 DEF TakenInOrder
<1>3. NoneExits /\ Locked /\ FlagFirst /\ LeftInShutdown /\ NoLostWakeup
  BY PoolAssumption, FirstWorker
     DEF Init, NoneExits, Locked, FlagFirst, LeftInShutdown, NoLostWakeup,
         Serving
<1> QED BY <1>1, <1>2, <1>3 DEF IndInv

(* It holds in every behaviour.                                            *)
LEMMA Invariance == Spec => []IndInv
  BY InitInd, Inductive, PTL DEF Spec

(* Every task is taken once and in the order of the add_task calls, for    *)
(* any number of clients and workers and whatever the manager does         *)
(* (threadpool.tpp add_task, threadpool.cpp t_task).                       *)
THEOREM FirstInFirstOut == Spec => []TakenInOrder
<1>1. IndInv => TakenInOrder
  BY DEF IndInv
<1> QED BY <1>1, Invariance, PTL

(* Once a worker has left in t_shutdown, nothing is queued, then or later: *)
(* add_task refuses after the flag, under the same lock (threadpool.cpp    *)
(* t_task, threadpool.tpp add_task).                                       *)
THEOREM NoTaskLeftBehind == Spec => []LeavesNothing
<1>1. IndInv => LeavesNothing
  BY DEF IndInv, LeftInShutdown, LeavesNothing
<1> QED BY <1>1, Invariance, PTL

(* Until the manager asks workers to exit, a queued task has a worker that *)
(* is awake or a client about to notify: add_task notifies after it has    *)
(* released the lock, and no wakeup is lost in between; and no worker      *)
(* calls front() on an empty queue (threadpool.tpp add_task,               *)
(* threadpool.cpp t_task).                                                 *)
THEOREM WakeupsArrive == Spec => []NoLostWakeup
<1>1. IndInv => NoLostWakeup
  BY DEF IndInv
<1> QED BY <1>1, Invariance, PTL
=============================================================================
