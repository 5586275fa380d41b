------------------------------ MODULE SpscQueue ------------------------------
(***************************************************************************)
(* What a ring buffer promises to one producer and one consumer: a bounded *)
(* FIFO queue.  sent is everything the producer has successfully pushed,   *)
(* recv everything the consumer has been given, so the queue's content is  *)
(* what sent has and recv has not.  A call fails only when it must.        *)
(***************************************************************************)
EXTENDS Integers, Sequences

CONSTANTS
  Values,  \* what may be pushed
  Room     \* how many elements fit

VARIABLES
  sent,    \* the elements pushed so far, in order
  recv,    \* the elements handed to the consumer so far, in order
  pushed,  \* the result of the last push that returned
  popped   \* the result of the last pop that returned

avars == <<sent, recv, pushed, popped>>

Content == Len(sent) - Len(recv)

Init == sent = <<>> /\ recv = <<>> /\ pushed = FALSE /\ popped = FALSE

Push(v) ==
  /\ Content < Room
  /\ sent' = Append(sent, v)
  /\ pushed' = TRUE
  /\ UNCHANGED <<recv, popped>>

PushFull ==
  /\ Content = Room
  /\ pushed' = FALSE
  /\ UNCHANGED <<sent, recv, popped>>

(* The oldest n elements leave the queue together.                         *)
Take(n) ==
  /\ n <= Content
  /\ recv' = SubSeq(sent, 1, Len(recv) + n)
  /\ popped' = TRUE
  /\ UNCHANGED <<sent, pushed>>

TakeEmpty ==
  /\ Content = 0
  /\ popped' = FALSE
  /\ UNCHANGED <<sent, recv, pushed>>

Next ==
  \/ \E v \in Values : Push(v)
  \/ \E n \in 1..Room : Take(n)
  \/ PushFull \/ TakeEmpty

Spec == Init /\ [][Next]_avars
=============================================================================
