------------------------------- MODULE RingBuff -------------------------------
(***************************************************************************)
(* moon::ringbuff, one atomic access or slot access per step.  Producers   *)
(* run push / push_move; the one consumer runs pop / pop_move and the four *)
(* swap_to_list / swap_to_vector functions.  The class is sound for one    *)
(* producer (its acquire and release accesses then order the slot accesses *)
(* as the interleavings here do); Producers may hold more than one thread, *)
(* to show what happens then.                                              *)
(*                                                                         *)
(* sent and out record what the calls were given and what they returned.   *)
(***************************************************************************)
EXTENDS Integers, Sequences

CONSTANTS
  Producers,  \* threads that push
  Values,     \* what is pushed
  Hole,       \* a slot that is default constructed or moved from
  Cap,        \* capacity_, a power of two
  MaxSent     \* bound: successful pushes over the whole run

Slots == 0..(Cap - 1)

ASSUME CapAssumption == Cap \in Nat \ {0}
ASSUME BoundAssumption == MaxSent \in Nat

VARIABLES
  head, tail,  \* head_, tail_
  buf,         \* buffer_
  ppc,         \* where each producer is in push
  phead,       \* local head of each producer
  pitem,       \* the argument of each producer's push
  cpc,         \* where the consumer is
  cidx,        \* the slot the consumer reads next; its tail when it is idle
  cend,        \* where the consumer's call will put tail_
  sent,        \* elements whose push returned true
  out,         \* elements the consumer has read out of the buffer
  pushed,      \* result of the last push that returned
  popped       \* result of the last pop that returned

prodvars == <<ppc, phead, pitem>>
consvars == <<cpc, cidx, cend>>
vars == <<head, tail, buf, prodvars, consvars, sent, out, pushed, popped>>

(* (i + 1) & (capacity_ - 1): capacity_ is a power of two.                 *)
Inc(i) == (i + 1) % Cap

Init ==
  /\ head = 0 /\ tail = 0
  /\ buf = [i \in Slots |-> Hole]
  /\ ppc = [p \in Producers |-> "idle"]
  /\ phead = [p \in Producers |-> 0]
  /\ pitem = [p \in Producers |-> Hole]
  /\ cpc = "idle" /\ cidx = 0 /\ cend = 0
  /\ sent = <<>> /\ out = <<>> /\ pushed = FALSE /\ popped = FALSE

-----------------------------------------------------------------------------
(* push and push_move.                                                     *)

(* head = head_.load(relaxed)                                              *)
PushLoad(p, v) ==
  /\ ppc[p] = "idle" /\ Len(sent) < MaxSent
  /\ phead' = [phead EXCEPT ![p] = head]
  /\ pitem' = [pitem EXCEPT ![p] = v]
  /\ ppc' = [ppc EXCEPT ![p] = "loaded"]
  /\ UNCHANGED <<head, tail, buf, consvars, sent, out, pushed, popped>>

(* Mutant: the fullness test compares head itself with tail_.              *)
PushFull_head(p) ==
  /\ ppc[p] = "loaded" /\ phead[p] = tail
  /\ ppc' = [ppc EXCEPT ![p] = "idle"]
  /\ pushed' = FALSE
  /\ UNCHANGED <<head, tail, buf, phead, pitem, consvars, sent, out, popped>>

(* nhead == tail_.load(acquire): return false.                             *)
PushFull(p) ==
  /\ ppc[p] = "loaded" /\ Inc(phead[p]) = tail
  /\ ppc' = [ppc EXCEPT ![p] = "idle"]
  /\ pushed' = FALSE
  /\ UNCHANGED <<head, tail, buf, phead, pitem, consvars, sent, out, popped>>

PushRoom(p) ==
  /\ ppc[p] = "loaded" /\ Inc(phead[p]) # tail
  /\ ppc' = [ppc EXCEPT ![p] = "write"]
  /\ UNCHANGED <<head, tail, buf, phead, pitem, consvars, sent, out, pushed,
                 popped>>

(* buffer_[head] = item                                                    *)
PushWrite(p) ==
  /\ ppc[p] = "write"
  /\ buf' = [buf EXCEPT ![phead[p]] = pitem[p]]
  /\ ppc' = [ppc EXCEPT ![p] = "store"]
  /\ UNCHANGED <<head, tail, phead, pitem, consvars, sent, out, pushed, popped>>

(* head_.store(nhead, release); return true                                *)
PushStore(p) ==
  /\ ppc[p] = "store"
  /\ head' = Inc(phead[p])
  /\ sent' = Append(sent, pitem[p])
  /\ pushed' = TRUE
  /\ ppc' = [ppc EXCEPT ![p] = "idle"]
  /\ UNCHANGED <<tail, buf, phead, pitem, consvars, out, popped>>

push(p) ==
  \/ \E v \in Values : PushLoad(p, v)
  \/ PushFull(p) \/ PushRoom(p) \/ PushWrite(p) \/ PushStore(p)

-----------------------------------------------------------------------------
(* pop and pop_move.                                                       *)

(* tail = tail_.load(relaxed)                                              *)
PopLoad ==
  /\ cpc = "idle"
  /\ cidx' = tail
  /\ cpc' = "pop"
  /\ UNCHANGED <<head, tail, buf, prodvars, cend, sent, out, pushed, popped>>

(* Mutant: pop also fails when one element is left.                        *)
PopEmpty_one ==
  /\ cpc = "pop" /\ (cidx = head \/ Inc(cidx) = head)
  /\ cpc' = "idle"
  /\ popped' = FALSE
  /\ UNCHANGED <<head, tail, buf, prodvars, cidx, cend, sent, out, pushed>>

(* tail == head_.load(acquire): return false.                              *)
PopEmpty ==
  /\ cpc = "pop" /\ cidx = head
  /\ cpc' = "idle"
  /\ popped' = FALSE
  /\ UNCHANGED <<head, tail, buf, prodvars, cidx, cend, sent, out, pushed>>

PopSome ==
  /\ cpc = "pop" /\ cidx # head
  /\ cend' = Inc(cidx)
  /\ cpc' = "take"
  /\ UNCHANGED <<head, tail, buf, prodvars, cidx, sent, out, pushed, popped>>

(* swap_to_list and swap_to_vector, both overloads: head_ is read first.   *)
SwapLoad ==
  /\ cpc = "idle"
  /\ cend' = head
  /\ cpc' = "swap"
  /\ UNCHANGED <<head, tail, buf, prodvars, cidx, sent, out, pushed, popped>>

SwapEmpty ==
  /\ cpc = "swap" /\ tail = cend
  /\ cpc' = "idle"
  /\ popped' = FALSE
  /\ UNCHANGED <<head, tail, buf, prodvars, cidx, cend, sent, out, pushed>>

(* Mutant: the loops of a swap function take every slot but the first.     *)
SwapSome_next ==
  /\ cpc = "swap" /\ tail # cend /\ Inc(tail) # cend
  /\ cidx' = Inc(tail)
  /\ cpc' = "take"
  /\ UNCHANGED <<head, tail, buf, prodvars, cend, sent, out, pushed, popped>>

SwapSome ==
  /\ cpc = "swap" /\ tail # cend
  /\ cidx' = tail
  /\ cpc' = "take"
  /\ UNCHANGED <<head, tail, buf, prodvars, cend, sent, out, pushed, popped>>

(* One element leaves its slot.  A copy leaves the slot as it is, a move   *)
(* leaves it valid but unspecified.  The two loops of the swap functions,  *)
(* tail to capacity_ and 0 to head, visit the slots in this order.         *)
TakeSlot ==
  /\ cpc = "take"
  /\ out' = Append(out, buf[cidx])
  /\ \E left \in {buf[cidx], Hole} : buf' = [buf EXCEPT ![cidx] = left]
  /\ cidx' = Inc(cidx)
  /\ cpc' = IF cidx' = cend THEN "store" ELSE "take"
  /\ UNCHANGED <<head, tail, prodvars, cend, sent, pushed, popped>>

(* tail_.store(..., release); return                                       *)
TakeStore ==
  /\ cpc = "store"
  /\ tail' = cend
  /\ popped' = TRUE
  /\ cpc' = "idle"
  /\ UNCHANGED <<head, buf, prodvars, cidx, cend, sent, out, pushed>>

consume ==
  \/ PopLoad \/ PopEmpty \/ PopSome
  \/ SwapLoad \/ SwapEmpty \/ SwapSome
  \/ TakeSlot \/ TakeStore

Next == consume \/ \E p \in Producers : push(p)

Spec == Init /\ [][Next]_vars

(* The consumer calls pop or swap_to_* again and again, as lfthread does;  *)
(* nothing is assumed of the producers.                                    *)
FairSpec == Spec /\ WF_vars(consume)

-----------------------------------------------------------------------------
(* How far slot i is ahead of slot j, going round.                         *)
Dist(i, j) == IF i >= j THEN i - j ELSE i - j + Cap

(* size(), head_ and tail_ read together.                                  *)
size == IF head >= tail THEN head - tail ELSE Cap - tail + head

(* Elements read by the call in progress are still in the queue: they      *)
(* leave it when tail_ is stored.                                          *)
Reading == IF cpc \in {"take", "store"} THEN Dist(cidx, tail) ELSE 0

TypeOK ==
  /\ head \in Slots /\ tail \in Slots
  /\ buf \in [Slots -> Values \cup {Hole}]
  /\ ppc \in [Producers -> {"idle", "loaded", "write", "store"}]
  /\ phead \in [Producers -> Slots]
  /\ pitem \in [Producers -> Values \cup {Hole}]
  /\ cpc \in {"idle", "pop", "swap", "take", "store"}
  /\ cidx \in Slots /\ cend \in Slots
  /\ sent \in Seq(Values \cup {Hole}) /\ out \in Seq(Values \cup {Hole})
  /\ pushed \in BOOLEAN /\ popped \in BOOLEAN

(* The consumer reads exactly what was pushed, in the order of the pushes: *)
(* no element is lost, repeated or read before it was written, however the *)
(* steps of push, pop and swap_to_* interleave (ringbuff.tpp 54-143,       *)
(* 266-412).                                                               *)
InOrder ==
  /\ Len(out) <= Len(sent)
  /\ \A k \in 1..Len(out) : out[k] = sent[k]

(* A producer about to write has a slot of its own: the elements not yet   *)
(* read, and those the consumer has read but not yet released by storing   *)
(* tail_, leave at least two slots, the one written and the one kept       *)
(* empty, although tail_ may be old by the time of the write               *)
(* (ringbuff.tpp 59-62).                                                   *)
NoOverwrite ==
  \A p \in Producers :
    ppc[p] \in {"write", "store"} => Len(sent) - Len(out) + Reading <= Cap - 2

(* Between the calls the elements whose push returned true are all either  *)
(* delivered or still in the buffer, as many as size() says (the comments  *)
(* of push and pop call them thread-safe, ringbuff.tpp 44-45).             *)
Accounted ==
  (cpc = "idle" /\ \A p \in Producers : ppc[p] = "idle")
    => Len(sent) - Len(out) = size

(* An empty swap_to_* takes effect when it reads head_: tail_ is the       *)
(* consumer's own.                                                         *)
FoundEmpty == cpc = "swap" /\ cend = tail

Queue == INSTANCE SpscQueue WITH
  Room <- Cap - 1,
  popped <- popped /\ ~FoundEmpty,
  recv <- SubSeq(out, 1, Len(out) - Reading)

(* The ring buffer is a bounded FIFO queue in which a failed push finds    *)
(* the queue full and a failed pop finds it empty at one moment of the     *)
(* call.                                                                   *)
IsQueue == Queue!Spec

(* A consumer that keeps calling pop gets everything that was pushed.      *)
Delivered ==
  \A k \in 1..MaxSent : (Len(sent) >= k) ~> (Len(out) >= k)
=============================================================================
