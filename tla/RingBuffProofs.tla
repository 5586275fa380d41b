---------------------------- MODULE RingBuffProofs ----------------------------
(***************************************************************************)
(* For every capacity and every bound on the pushes: with at most one      *)
(* producer thread the consumer of a ringbuff reads what was pushed, in    *)
(* order.  Then, for every number of workers, what lfthreadpool, which is  *)
(* built on such rings, does with the tasks it is given.                   *)
(***************************************************************************)
EXTENDS RingBuff, LfThreadPool, SequenceTheorems, TLAPS

(* The class is used by one producer.                                      *)
OneProducer == \A p, q \in Producers : p = q

(* Where the consumer is between tail_ and the head_ it has seen.          *)
ConsumerInv ==
  /\ cpc \notin {"take", "store"} => cidx = tail
  /\ cpc \in {"swap", "take", "store"} => Dist(cend, tail) <= Dist(head, tail)
  /\ cpc = "take" => Dist(cidx, tail) < Dist(cend, tail)
  /\ cpc = "store" => cidx = cend /\ cidx # tail

(* head_ is the producer's own, and the room it found stays.               *)
ProducerInv ==
  \A p \in Producers :
    /\ ppc[p] # "idle" => phead[p] = head /\ pitem[p] \in Values
    /\ ppc[p] \in {"write", "store"} => Inc(head) # tail
    /\ ppc[p] = "store" => buf[head] = pitem[p]

(* The slots from the consumer's cursor to head_ hold the elements that    *)
(* were pushed and are not yet read, oldest first.                         *)
ContentInv ==
  /\ Len(sent) - Len(out) = Dist(head, cidx)
  /\ \A i \in Slots :
       Dist(i, cidx) < Dist(head, cidx)
         => buf[i] = sent[Len(out) + 1 + Dist(i, cidx)]

(* What the call in progress has read is part of what was read.            *)
ReadingInv == Reading <= Len(out)

(* All that the steps of the producer and the consumer keep.               *)
IndInv ==
  TypeOK /\ ConsumerInv /\ ProducerInv /\ ContentInv /\ InOrder /\ ReadingInv

-----------------------------------------------------------------------------
(* The mask of push and pop is a step to the next slot, back to 0 at the   *)
(* end.                                                                    *)
LEMMA IncStep ==
  \A i \in Slots : /\ Inc(i) \in Slots
                   /\ Inc(i) = IF i = Cap - 1 THEN 0 ELSE i + 1
<1> TAKE i \in Slots
<1>1. CASE i = Cap - 1
  <2>1. i + 1 = Cap /\ Cap > 0
    BY <1>1, CapAssumption DEF Slots
  <2>2. Cap % Cap = 0
    BY <2>1, CapAssumption
  <2> QED BY <1>1, <2>1, <2>2, CapAssumption DEF Inc, Slots
<1>2. CASE i # Cap - 1
  <2>1. i + 1 \in 0..(Cap - 1)
    BY <1>2, CapAssumption DEF Slots
  <2>2. (i + 1) % Cap = i + 1
    BY <2>1, CapAssumption
  <2> QED BY <1>2, <2>1, <2>2, CapAssumption DEF Inc, Slots
<1> QED BY <1>1, <1>2

(* The distance of two slots is a number of slots.                         *)
LEMMA DistType == \A i, j \in Slots : Dist(i, j) \in Slots
  BY CapAssumption DEF Dist, Slots

(* The invariant holds of an empty ring.                                   *)
LEMMA InitInd == Init => IndInv
<1> SUFFICES ASSUME Init PROVE IndInv
  OBVIOUS
<1>a. /\ 0 \in Slots
      /\ <<>> \in Seq(Values \cup {Hole})
      /\ FALSE \in BOOLEAN
  BY CapAssumption DEF Slots
<1>1. TypeOK
  BY <1>a, Zenon DEF Init, TypeOK
<1>2. ConsumerInv /\ ProducerInv
  BY DEF Init, ConsumerInv, ProducerInv
<1>3. ContentInv /\ InOrder /\ ReadingInv
  BY CapAssumption DEF Init, Slots
<1> QED BY <1>1, <1>2, <1>3 DEF IndInv

-----------------------------------------------------------------------------
(* Each action keeps the invariant.                                        *)

(* push begins: it loads head_.                                            *)
LEMMA PushLoadInd ==
  ASSUME IndInv, OneProducer, NEW p \in Producers, NEW v \in Values,
         PushLoad(p, v)
  PROVE  IndInv'
<1> USE DEF IndInv
<1>1. TypeOK'
  BY DEF PushLoad, TypeOK, consvars
<1>2. ConsumerInv'
  BY DEF PushLoad, ConsumerInv, consvars
<1>3. ProducerInv'
  BY DEF PushLoad, ProducerInv, TypeOK, OneProducer
<1>4. ContentInv' /\ InOrder'
  BY DEF PushLoad, ContentInv, InOrder, consvars
<1>6. ReadingInv'
  BY DEF PushLoad, ReadingInv, Reading, consvars
<1> QED BY <1>1, <1>2, <1>3, <1>4, <1>6

(* push compares the next slot with tail_.                                 *)
LEMMA PushTestInd ==
  ASSUME IndInv, OneProducer, NEW p \in Producers, PushFull(p) \/ PushRoom(p)
  PROVE  IndInv'
<1> USE DEF IndInv
<1>1. TypeOK'
  <2>1. CASE PushFull(p) BY <2>1, Zenon DEF PushFull, TypeOK, consvars
  <2>2. CASE PushRoom(p) BY <2>2 DEF PushRoom, TypeOK, consvars
  <2> QED BY <2>1, <2>2
<1>2. ConsumerInv'
  BY DEF PushFull, PushRoom, ConsumerInv, consvars
<1>3. ProducerInv'
  BY DEF PushFull, PushRoom, ProducerInv, TypeOK, OneProducer
<1>4. ContentInv' /\ InOrder'
  BY DEF PushFull, PushRoom, ContentInv, InOrder, consvars
<1>6. ReadingInv'
  BY DEF PushFull, PushRoom, ReadingInv, Reading, consvars
<1> QED BY <1>1, <1>2, <1>3, <1>4, <1>6

(* push writes its element, where the consumer does not look yet.          *)
LEMMA PushWriteInd ==
  ASSUME IndInv, OneProducer, NEW p \in Producers, PushWrite(p)
  PROVE  IndInv'
<1> USE DEF IndInv
<1>0. phead[p] = head /\ head \in Slots
  BY DEF PushWrite, ProducerInv, TypeOK
<1>1. TypeOK'
  BY DEF PushWrite, TypeOK, consvars
<1>2. ConsumerInv'
  BY DEF PushWrite, ConsumerInv, consvars
<1>3. ProducerInv'
  BY <1>0 DEF PushWrite, ProducerInv, TypeOK, OneProducer
<1>4. ContentInv'
  <2>1. /\ UNCHANGED <<head, cidx, sent, out>>
        /\ \A i \in Slots : i # head => buf'[i] = buf[i]
    BY <1>0 DEF PushWrite, consvars
  <2>2. ASSUME NEW i \in Slots, Dist(i, cidx) < Dist(head, cidx)
        PROVE  i # head
    BY <2>2, <1>0, DistType DEF TypeOK, Slots
  <2> QED BY <2>1, <2>2 DEF ContentInv, Dist
<1>5. InOrder'
  BY DEF PushWrite, InOrder
<1>6. ReadingInv'
  BY DEF PushWrite, ReadingInv, Reading, Dist, consvars
<1> QED BY <1>1, <1>2, <1>3, <1>4, <1>5, <1>6

(* push stores head_: the element belongs to the ring.                     *)
LEMMA PushStoreInd ==
  ASSUME IndInv, OneProducer, NEW p \in Producers, PushStore(p)
  PROVE  IndInv'
<1> USE DEF IndInv
<1>0. /\ phead[p] = head /\ head \in Slots /\ head' = Inc(head)
      /\ Inc(head) # tail /\ buf[head] = pitem[p]
      /\ Inc(head) \in Slots
      /\ Inc(head) = IF head = Cap - 1 THEN 0 ELSE head + 1
      /\ pitem[p] \in Values \cup {Hole}
  BY IncStep DEF PushStore, ProducerInv, TypeOK
<1>s. /\ sent' \in Seq(Values \cup {Hole})
      /\ Len(sent') = Len(sent) + 1
      /\ \A k \in 1..Len(sent) : sent'[k] = sent[k]
      /\ sent'[Len(sent) + 1] = pitem[p]
  BY <1>0 DEF PushStore, TypeOK
<1>d. Dist(head', tail) = Dist(head, tail) + 1
  BY <1>0, CapAssumption DEF Dist, Slots, TypeOK
<1>c. Dist(head', cidx) = Dist(head, cidx) + 1
  BY <1>0, <1>d, CapAssumption DEF Dist, Slots, TypeOK, ConsumerInv
<1>1. TypeOK'
  BY <1>0, <1>s DEF PushStore, TypeOK, consvars
<1>2. ConsumerInv'
  BY <1>d, <1>0, CapAssumption
     DEF PushStore, ConsumerInv, Dist, consvars, TypeOK, Slots
<1>3. ProducerInv'
  BY DEF PushStore, ProducerInv, TypeOK, OneProducer
<1>4. ContentInv'
  <2>0. /\ UNCHANGED <<cidx, buf, out>>
        /\ Len(sent) \in Nat /\ Len(out) \in Nat
        /\ cidx \in Slots /\ Dist(head, cidx) \in Slots
    BY <1>0, DistType DEF PushStore, consvars, TypeOK
  <2>1. Len(sent') - Len(out') = Dist(head', cidx')
    BY <2>0, <1>s, <1>c DEF ContentInv, Slots, Dist
  <2>2. ASSUME NEW i \in Slots, Dist(i, cidx) < Dist(head', cidx)
        PROVE  buf[i] = sent'[Len(out) + 1 + Dist(i, cidx)]
    <3>0. Dist(i, cidx) \in Slots
      BY <2>0, DistType
    <3>1. CASE Dist(i, cidx) < Dist(head, cidx)
      <4>1. Len(out) + 1 + Dist(i, cidx) \in 1..Len(sent)
        BY <3>0, <3>1, <2>0 DEF ContentInv, Slots
      <4> QED BY <4>1, <3>1, <1>s DEF ContentInv
    <3>2. CASE Dist(i, cidx) = Dist(head, cidx)
      <4>1. i = head
        BY <3>2, <1>0, <2>0, CapAssumption DEF Dist, Slots
      <4>2. Len(out) + 1 + Dist(i, cidx) = Len(sent) + 1
        BY <3>2, <2>0, <3>0 DEF ContentInv, Slots
      <4> QED BY <4>1, <4>2, <1>0, <1>s
    <3> QED BY <3>0, <3>1, <3>2, <2>0, <2>2, <1>c DEF Slots
  <2> QED BY <2>0, <2>1, <2>2 DEF ContentInv, Dist
<1>5. InOrder'
  BY <1>s DEF PushStore, InOrder
<1>6. ReadingInv'
  BY DEF PushStore, ReadingInv, Reading, Dist, consvars
<1> QED BY <1>1, <1>2, <1>3, <1>4, <1>5, <1>6

(* The consumer begins a call and finds out what there is to read.         *)
LEMMA LoadInd ==
  ASSUME IndInv,
         PopLoad \/ PopEmpty \/ PopSome \/ SwapLoad \/ SwapEmpty \/ SwapSome
  PROVE  IndInv'
<1> USE DEF IndInv
<1>0. /\ cidx \in Slots /\ tail \in Slots /\ head \in Slots
      /\ Inc(cidx) \in Slots
      /\ Inc(cidx) = IF cidx = Cap - 1 THEN 0 ELSE cidx + 1
  BY IncStep DEF TypeOK
<1>1. TypeOK'
  <2>1. CASE PopLoad \/ PopSome \/ SwapLoad \/ SwapSome
    BY <1>0, <2>1 DEF PopLoad, PopSome, SwapLoad, SwapSome, TypeOK, prodvars
  <2>2. CASE PopEmpty \/ SwapEmpty
    BY <2>2, Zenon DEF PopEmpty, SwapEmpty, TypeOK, prodvars
  <2> QED BY <2>1, <2>2
<1>2. ConsumerInv'
  <2>1. CASE PopLoad \/ PopEmpty \/ SwapEmpty
    BY <2>1 DEF PopLoad, PopEmpty, SwapEmpty, ConsumerInv
  <2>2. CASE PopSome
    <3>1. /\ cidx = tail /\ tail # head /\ cend' = Inc(cidx) /\ cpc' = "take"
          /\ UNCHANGED <<head, tail, cidx>>
      BY <2>2 DEF PopSome, ConsumerInv
    <3>2. /\ Dist(cend', tail) <= Dist(head, tail)
          /\ Dist(cidx, tail) < Dist(cend', tail)
      BY <3>1, <1>0, CapAssumption DEF Dist, Slots
    <3> QED BY <3>1, <3>2 DEF ConsumerInv, Dist
  <2>3. CASE SwapLoad
    <3>1. /\ cend' = head /\ cpc' = "swap" /\ cidx = tail
          /\ UNCHANGED <<head, tail, cidx>>
      BY <2>3 DEF SwapLoad, ConsumerInv
    <3>2. Dist(head, tail) <= Dist(head, tail)
      BY <1>0, DistType DEF Slots
    <3> QED BY <3>1, <3>2 DEF ConsumerInv, Dist
  <2>4. CASE SwapSome
    <3>1. /\ cidx' = tail /\ cpc' = "take" /\ tail # cend
          /\ Dist(cend, tail) <= Dist(head, tail)
          /\ UNCHANGED <<head, tail, cend>> /\ cend \in Slots
      BY <2>4 DEF SwapSome, ConsumerInv, TypeOK
    <3>2. Dist(tail, tail) < Dist(cend, tail)
      BY <3>1, <1>0, CapAssumption DEF Dist, Slots
    <3> QED BY <3>1, <3>2 DEF ConsumerInv, Dist
  <2> QED BY <2>1, <2>2, <2>3, <2>4
<1>3. ProducerInv'
  BY DEF PopLoad, PopEmpty, PopSome, SwapLoad, SwapEmpty, SwapSome,
         ProducerInv, prodvars, Inc
<1>4. ContentInv' /\ InOrder'
  BY DEF PopLoad, PopEmpty, PopSome, SwapLoad, SwapEmpty, SwapSome, ContentInv,
         ConsumerInv, InOrder, Dist
<1>6. ReadingInv'
  <2>1. Len(out) \in Nat /\ out' = out
    BY DEF PopLoad, PopEmpty, PopSome, SwapLoad, SwapEmpty, SwapSome
  <2>2. Reading' = 0
    BY <1>0, CapAssumption
       DEF PopLoad, PopEmpty, PopSome, SwapLoad, SwapEmpty, SwapSome, Reading,
           ConsumerInv, Dist, Slots
  <2> QED BY <2>1, <2>2 DEF ReadingInv
<1> QED BY <1>1, <1>2, <1>3, <1>4, <1>6

(* The consumer reads the next slot.                                       *)
LEMMA TakeSlotInd ==
  ASSUME IndInv, TakeSlot
  PROVE  IndInv'
<1> USE DEF IndInv
<1>0. /\ cidx \in Slots /\ tail \in Slots /\ head \in Slots /\ cend \in Slots
      /\ cidx' = Inc(cidx) /\ cidx' \in Slots
      /\ cidx' = IF cidx = Cap - 1 THEN 0 ELSE cidx + 1
      /\ UNCHANGED <<head, tail, cend, sent, pitem, ppc, phead>>
  BY IncStep DEF TypeOK, TakeSlot, prodvars
<1>b. /\ buf' \in [Slots -> Values \cup {Hole}]
      /\ \A i \in Slots : i # cidx => buf'[i] = buf[i]
  BY <1>0 DEF TakeSlot, TypeOK
<1>t. /\ Dist(cidx, tail) < Dist(cend, tail)
      /\ Dist(cend, tail) <= Dist(head, tail)
  BY DEF TakeSlot, ConsumerInv
<1>d. /\ Dist(cidx', tail) = Dist(cidx, tail) + 1
      /\ Dist(head, cidx) > 0
      /\ Dist(head, cidx') = Dist(head, cidx) - 1
      /\ cidx # head
      /\ Dist(cidx, cidx) = 0
  BY <1>0, <1>t, CapAssumption DEF Dist, Slots
<1>o. /\ out' \in Seq(Values \cup {Hole})
      /\ Len(out') = Len(out) + 1
      /\ \A k \in 1..Len(out) : out'[k] = out[k]
      /\ out'[Len(out) + 1] = buf[cidx]
  BY <1>0 DEF TakeSlot, TypeOK
<1>v. buf[cidx] = sent[Len(out) + 1]
  BY <1>0, <1>d DEF ContentInv
<1>1. TypeOK'
  BY <1>0, <1>b, <1>o DEF TakeSlot, TypeOK
<1>2. ConsumerInv'
  <2>1. cidx' # cend => Dist(cidx', tail) < Dist(cend, tail)
    BY <1>0, <1>t, <1>d, CapAssumption DEF Dist, Slots
  <2>2. cpc' = IF cidx' = cend THEN "store" ELSE "take"
    BY DEF TakeSlot
  <2>3. cidx' # tail
    BY <1>0, <1>t, CapAssumption DEF Dist, Slots
  <2> QED BY <1>0, <1>t, <2>1, <2>2, <2>3 DEF ConsumerInv, Dist
<1>3. ProducerInv'
  BY <1>0, <1>b, <1>d DEF ProducerInv, Inc
<1>4. ContentInv'
  <2>1. Len(sent') - Len(out') = Dist(head', cidx')
    BY <1>0, <1>d, <1>o DEF ContentInv, Dist, Slots
  <2>2. ASSUME NEW i \in Slots, Dist(i, cidx') < Dist(head, cidx')
        PROVE  buf'[i] = sent[Len(out') + 1 + Dist(i, cidx')]
    <3>1. i # cidx /\ Dist(i, cidx) = Dist(i, cidx') + 1
      BY <1>0, <1>d, <2>2, CapAssumption DEF Dist, Slots
    <3>2. buf[i] = sent[Len(out) + 1 + Dist(i, cidx)]
      BY <3>1, <1>0, <1>d, <2>2, CapAssumption DEF ContentInv, Dist, Slots
    <3>3. Len(out) + 1 + Dist(i, cidx) = Len(out') + 1 + Dist(i, cidx')
      <4>1. Len(out) \in Nat /\ Dist(i, cidx') \in Slots
        BY <1>0, DistType
      <4> QED BY <4>1, <3>1, <1>o DEF Slots
    <3> QED BY <3>1, <3>2, <3>3, <1>b
  <2> QED BY <2>1, <2>2, <1>0 DEF ContentInv, Dist
<1>5. InOrder'
  <2>1. Len(out) \in Nat /\ Len(sent) \in Nat /\ Dist(head, cidx) \in Slots
    BY <1>0, DistType
  <2>2. Len(out') <= Len(sent)
    BY <2>1, <1>o, <1>d DEF ContentInv, Slots
  <2>3. ASSUME NEW k \in 1..Len(out')
        PROVE  out'[k] = sent[k]
    <3>1. k \in 1..Len(out) \/ k = Len(out) + 1
      BY <2>1, <1>o
    <3> QED BY <3>1, <1>o, <1>v DEF InOrder
  <2> QED BY <2>2, <2>3, <1>0 DEF InOrder
<1>6. ReadingInv'
  <2>1. Reading = Dist(cidx, tail) /\ Reading' = Dist(cidx', tail)
    BY <1>0 DEF TakeSlot, Reading, Dist
  <2>2. Len(out) \in Nat /\ Dist(cidx, tail) \in Slots
    BY <1>0, DistType
  <2> QED BY <2>1, <2>2, <1>d, <1>o DEF ReadingInv, Slots
<1> QED BY <1>1, <1>2, <1>3, <1>4, <1>5, <1>6

(* The consumer stores tail_: the slots it has read are free.              *)
LEMMA TakeStoreInd ==
  ASSUME IndInv, TakeStore
  PROVE  IndInv'
<1> USE DEF IndInv
<1>0. /\ cidx \in Slots /\ tail \in Slots /\ head \in Slots
      /\ cidx = cend /\ tail' = cidx
      /\ Dist(cidx, tail) <= Dist(head, tail)
  BY DEF TypeOK, TakeStore, ConsumerInv
<1>i. /\ Inc(head) \in Slots
      /\ Inc(head) = IF head = Cap - 1 THEN 0 ELSE head + 1
  BY <1>0, IncStep
<1>r. Inc(head) # tail => Inc(head) # tail'
  BY <1>0, <1>i, CapAssumption DEF Dist, Slots
<1>1. TypeOK'
  <2>1. tail' \in Slots BY <1>0
  <2> QED BY <2>1, Zenon DEF TakeStore, TypeOK, prodvars
<1>2. ConsumerInv'
  BY <1>0 DEF TakeStore, ConsumerInv
<1>3. ProducerInv'
  BY <1>r DEF TakeStore, ProducerInv, prodvars, Inc
<1>4. ContentInv' /\ InOrder'
  BY DEF TakeStore, ContentInv, InOrder, Dist
<1>6. ReadingInv'
  BY DEF TakeStore, ReadingInv, Reading
<1> QED BY <1>1, <1>2, <1>3, <1>4, <1>6

(* Every step is one of these.                                             *)
LEMMA StepInd ==
  ASSUME IndInv, OneProducer, [Next]_vars
  PROVE  IndInv'
<1>1. CASE consume
  BY <1>1, LoadInd, TakeSlotInd, TakeStoreInd DEF consume
<1>2. ASSUME NEW p \in Producers, push(p)
      PROVE  IndInv'
  BY <1>2, PushLoadInd, PushTestInd, PushWriteInd, PushStoreInd DEF push
<1>3. CASE UNCHANGED vars
  BY <1>3
     DEF vars, prodvars, consvars, IndInv, TypeOK, ConsumerInv, ProducerInv,
         ContentInv, InOrder, ReadingInv, Reading
<1> QED BY <1>1, <1>2, <1>3 DEF Next

(* So the invariant holds in every reachable state.                        *)
LEMMA Invariance == ASSUME OneProducer PROVE Spec => []IndInv
<1>1. Init => IndInv
  BY InitInd
<1>2. IndInv /\ [Next]_vars => IndInv'
  BY StepInd
<1> QED BY <1>1, <1>2, PTL DEF Spec

-----------------------------------------------------------------------------
(* The variables of a ringbuff keep their types.                           *)
THEOREM TypeCorrect == ASSUME OneProducer PROVE Spec => []TypeOK
  BY Invariance, PTL DEF IndInv

(* With one producer the consumer reads exactly what push and push_move    *)
(* accepted, in their order, for every capacity and every interleaving.    *)
THEOREM ReadsInOrder == ASSUME OneProducer PROVE Spec => []InOrder
  BY Invariance, PTL DEF IndInv

(* With one producer push never writes a slot the consumer has yet to read *)
(* or to release.                                                          *)
THEOREM NeverOverwrites == ASSUME OneProducer PROVE Spec => []NoOverwrite
<1>1. IndInv => NoOverwrite
  <2> SUFFICES ASSUME IndInv, NEW p \in Producers,
                      ppc[p] \in {"write", "store"}
               PROVE  Len(sent) - Len(out) + Reading <= Cap - 2
    BY DEF NoOverwrite
  <2>1. head \in Slots /\ tail \in Slots /\ cidx \in Slots /\ cend \in Slots
    BY DEF IndInv, TypeOK
  <2>2. Dist(head, tail) <= Cap - 2
    <3>1. Inc(head) # tail
      BY DEF IndInv, ProducerInv
    <3> QED BY <2>1, <3>1, IncStep, CapAssumption DEF Dist, Slots
  <2>3. Len(sent) - Len(out) = Dist(head, cidx)
    BY DEF IndInv, ContentInv
  <2>4. Dist(head, cidx) + Reading = Dist(head, tail)
    BY <2>1, CapAssumption DEF IndInv, ConsumerInv, Reading, Dist, Slots
  <2> QED BY <2>2, <2>3, <2>4
<1> QED BY <1>1, Invariance, PTL

(* With one producer every element whose push returned true is delivered   *)
(* or is one of the size() elements in the buffer, whenever no call is in  *)
(* progress.                                                               *)
THEOREM AllAccounted == ASSUME OneProducer PROVE Spec => []Accounted
<1>1. IndInv => Accounted
  BY CapAssumption
     DEF IndInv, Accounted, ContentInv, ConsumerInv, Dist, size, TypeOK, Slots
<1> QED BY <1>1, Invariance, PTL

-----------------------------------------------------------------------------
(* The ring buffer implements SpscQueue.                                   *)

(* Two sequences that agree on their first n elements have one prefix of   *)
(* that length.                                                            *)
LEMMA SamePrefix ==
  ASSUME NEW S, NEW s \in Seq(S), NEW t \in Seq(S), NEW n \in Nat,
         n <= Len(s), n <= Len(t), \A k \in 1..n : s[k] = t[k]
  PROVE  SubSeq(s, 1, n) = SubSeq(t, 1, n) /\ Len(SubSeq(s, 1, n)) = n
  OBVIOUS

(* What the calls that have returned have read.                            *)
Received == SubSeq(out, 1, Len(out) - Reading)

(* What the content of the abstract queue is in the ring buffer.           *)
LEMMA QueueContent ==
  ASSUME IndInv
  PROVE  /\ Reading \in 0..Len(out) /\ Len(out) \in Nat /\ Len(sent) \in Nat
         /\ Len(Received) = Len(out) - Reading
         /\ Len(sent) - Len(Received) = Dist(head, tail)
<1> USE DEF IndInv
<1>1. /\ Len(out) \in Nat /\ Len(sent) \in Nat
      /\ cidx \in Slots /\ tail \in Slots /\ head \in Slots
  BY DEF TypeOK
<1>2. Reading \in 0..Len(out)
  BY <1>1, DistType DEF ReadingInv, Reading, Slots
<1>3. Len(Received) = Len(out) - Reading
  <2>1. Len(out) - Reading \in Nat /\ Len(out) - Reading <= Len(out)
    BY <1>1, <1>2
  <2> QED BY <2>1, SamePrefix DEF Received
<1>4. Dist(head, cidx) + Reading = Dist(head, tail)
  BY <1>1, CapAssumption DEF Dist, Reading, ConsumerInv, TypeOK, Slots
<1> QED BY <1>1, <1>2, <1>3, <1>4, DistType DEF ContentInv, Slots

(* A step of push is a push of the queue, or nothing happens to it.        *)
LEMMA PushRefines ==
  ASSUME IndInv, NEW p \in Producers, push(p)
  PROVE  [Queue!Next]_Queue!avars
<1>c. /\ UNCHANGED <<tail, cpc, cidx, cend, out, popped>>
      /\ Received' = Received
      /\ (popped /\ ~FoundEmpty)' = (popped /\ ~FoundEmpty)
  <2>1. UNCHANGED <<tail, cpc, cidx, cend, out, popped>>
    BY DEF push, PushLoad, PushFull, PushRoom, PushWrite, PushStore, consvars
  <2> QED BY <2>1 DEF Received, Reading, FoundEmpty
<1>t. head \in Slots /\ tail \in Slots
  BY DEF IndInv, TypeOK
<1>i. Inc(head) = IF head = Cap - 1 THEN 0 ELSE head + 1
  BY <1>t, IncStep
<1>1. ASSUME NEW v \in Values, PushLoad(p, v)
      PROVE  UNCHANGED Queue!avars
  BY <1>1, <1>c DEF PushLoad, Queue!avars, Received
<1>2. CASE PushRoom(p) \/ PushWrite(p)
  BY <1>2, <1>c DEF PushRoom, PushWrite, Queue!avars, Received
<1>3. CASE PushFull(p)
  <2>1. Dist(head, tail) = Cap - 1
    BY <1>3, <1>i, <1>t, CapAssumption
       DEF PushFull, IndInv, ProducerInv, Dist, Slots
  <2>2. Len(sent) - Len(Received) = Cap - 1
    BY <2>1, QueueContent
  <2>3. Queue!PushFull
    BY <1>3, <1>c, <2>2 DEF PushFull, Queue!PushFull, Queue!Content, Received
  <2> QED BY <2>3 DEF Queue!Next
<1>4. CASE PushStore(p)
  <2>1. Inc(head) # tail /\ pitem[p] \in Values
    BY <1>4 DEF PushStore, IndInv, ProducerInv
  <2>2. Dist(head, tail) < Cap - 1
    BY <2>1, <1>i, <1>t, CapAssumption DEF Dist, Slots
  <2>3. Len(sent) - Len(Received) < Cap - 1
    BY <2>2, QueueContent
  <2>4. Queue!Push(pitem[p])
    BY <1>4, <1>c, <2>3 DEF PushStore, Queue!Push, Queue!Content, Received
  <2> QED BY <2>1, <2>4 DEF Queue!Next
<1> QED BY <1>1, <1>2, <1>3, <1>4 DEF push

(* The same of the consumer.                                               *)
LEMMA ConsumeRefines ==
  ASSUME IndInv, IndInv', consume
  PROVE  [Queue!Next]_Queue!avars
<1>t. /\ head \in Slots /\ tail \in Slots /\ cidx \in Slots /\ cend \in Slots
      /\ out \in Seq(Values \cup {Hole}) /\ sent \in Seq(Values \cup {Hole})
      /\ Len(out) \in Nat /\ Len(sent) \in Nat
  BY DEF IndInv, TypeOK
<1>s. UNCHANGED <<head, sent, pushed>>
  BY DEF consume, PopLoad, PopEmpty, PopSome, SwapLoad, SwapEmpty, SwapSome,
         TakeSlot, TakeStore
<1>r. Reading \in 0..Len(out) /\ Len(Received) = Len(out) - Reading
      /\ Len(sent) - Len(Received) = Dist(head, tail)
  BY QueueContent
<1>1. CASE PopLoad \/ PopSome \/ SwapSome
  <2>1. Received' = Received
    BY <1>1, <1>t, CapAssumption
       DEF PopLoad, PopSome, SwapSome, Received, Reading, Dist, IndInv,
           ConsumerInv, Slots
  <2>2. (popped /\ ~FoundEmpty)' = (popped /\ ~FoundEmpty)
    BY <1>1 DEF PopLoad, PopSome, SwapSome, FoundEmpty
  <2> QED BY <1>s, <2>1, <2>2 DEF Queue!avars, Received
<1>2. CASE PopEmpty
  <2>1. Received' = Received
    BY <1>2 DEF PopEmpty, Received, Reading
  <2>2. (popped /\ ~FoundEmpty)' = FALSE
    BY <1>2 DEF PopEmpty
  <2>3. Dist(head, tail) = 0
    BY <1>2, <1>t DEF PopEmpty, IndInv, ConsumerInv, Dist, Slots
  <2>4. Queue!TakeEmpty
    BY <1>s, <1>r, <2>1, <2>2, <2>3
       DEF Queue!TakeEmpty, Queue!Content, Received
  <2> QED BY <2>4 DEF Queue!Next
<1>3. CASE SwapLoad
  <2>1. Received' = Received
    BY <1>3 DEF SwapLoad, Received, Reading
  <2>2. CASE head = tail
    <3>1. (popped /\ ~FoundEmpty)' = FALSE
      BY <1>3, <2>2 DEF SwapLoad, FoundEmpty
    <3>2. Dist(head, tail) = 0
      BY <2>2, <1>t DEF Dist, Slots
    <3>3. Queue!TakeEmpty
      BY <1>s, <1>r, <2>1, <3>1, <3>2
         DEF Queue!TakeEmpty, Queue!Content, Received
    <3> QED BY <3>3 DEF Queue!Next
  <2>3. CASE head # tail
    <3>1. (popped /\ ~FoundEmpty)' = (popped /\ ~FoundEmpty)
      BY <1>3, <2>3 DEF SwapLoad, FoundEmpty
    <3> QED BY <1>s, <2>1, <3>1 DEF Queue!avars, Received
  <2> QED BY <2>2, <2>3
<1>4. CASE SwapEmpty
  <2>1. Received' = Received
    BY <1>4 DEF SwapEmpty, Received, Reading
  <2>2. (popped /\ ~FoundEmpty)' = (popped /\ ~FoundEmpty)
    BY <1>4 DEF SwapEmpty, FoundEmpty
  <2> QED BY <1>s, <2>1, <2>2 DEF Queue!avars, Received
<1>5. CASE TakeSlot
  <2>0. /\ Reading = Dist(cidx, tail) /\ Reading' = Dist(cidx', tail)
        /\ Dist(cidx, tail) < Dist(cend, tail)
        /\ cidx' = IF cidx = Cap - 1 THEN 0 ELSE cidx + 1
    BY <1>5, <1>t, IncStep DEF TakeSlot, Reading, IndInv, ConsumerInv, Dist
  <2>1. Reading' = Reading + 1
    BY <2>0, <1>t, CapAssumption DEF Dist, Slots
  <2>2. /\ out' \in Seq(Values \cup {Hole})
        /\ Len(out') = Len(out) + 1
        /\ \A k \in 1..Len(out) : out'[k] = out[k]
    BY <1>5, <1>t DEF TakeSlot, IndInv, TypeOK
  <2>3. /\ Len(out') - Reading' = Len(out) - Reading
        /\ Len(out) - Reading \in Nat
        /\ Len(out) - Reading <= Len(out) /\ Len(out) - Reading <= Len(out')
        /\ \A k \in 1..(Len(out) - Reading) : out'[k] = out[k]
    BY <2>1, <2>2, <1>r, <1>t
  <2>4. Received' = Received
    BY <2>2, <2>3, <1>t, SamePrefix DEF Received
  <2>5. (popped /\ ~FoundEmpty)' = (popped /\ ~FoundEmpty)
    BY <1>5 DEF TakeSlot, FoundEmpty
  <2> QED BY <1>s, <2>4, <2>5 DEF Queue!avars, Received
<1>6. CASE TakeStore
  <2>0. Reading = Dist(cidx, tail) /\ Reading' = 0 /\ out' = out
    BY <1>6 DEF TakeStore, Reading
  <2>1. Len(Received) + Reading = Len(out)
    BY <1>r, <1>t
  <2>2. Received' = SubSeq(sent, 1, Len(out))
    <3>1. Received' = SubSeq(out, 1, Len(out))
      BY <2>0, <1>t DEF Received
    <3>2. Len(out) <= Len(sent) /\ \A k \in 1..Len(out) : out[k] = sent[k]
      BY DEF IndInv, InOrder
    <3> QED BY <3>1, <3>2, <1>t, SamePrefix
  <2>3. (popped /\ ~FoundEmpty)' = TRUE
    BY <1>6 DEF TakeStore, FoundEmpty
  <2>4. Reading \in 1..(Cap - 1) /\ Reading <= Dist(head, tail)
    <3>1. Dist(cidx, tail) <= Dist(head, tail) /\ cidx # tail
      BY <1>6 DEF TakeStore, IndInv, ConsumerInv
    <3> QED BY <3>1, <2>0, <1>t, CapAssumption DEF Dist, Slots
  <2>5. Queue!Take(Reading)
    BY <1>s, <1>r, <2>1, <2>2, <2>3, <2>4
       DEF Queue!Take, Queue!Content, Received
  <2> QED BY <2>4, <2>5 DEF Queue!Next
<1> QED BY <1>1, <1>2, <1>3, <1>4, <1>5, <1>6 DEF consume

(* With one producer a ringbuff is a bounded FIFO queue of Cap - 1         *)
(* elements, in which every call takes effect at one moment, for every     *)
(* capacity, every set of values and every interleaving.                   *)
THEOREM Refinement == ASSUME OneProducer PROVE Spec => IsQueue
<1>1. Init => Queue!Init
  BY DEF Init, Queue!Init
<1>2. IndInv /\ IndInv' /\ [Next]_vars => [Queue!Next]_Queue!avars
  <2> SUFFICES ASSUME IndInv, IndInv', [Next]_vars
               PROVE  [Queue!Next]_Queue!avars
    OBVIOUS
  <2>1. CASE UNCHANGED vars
    BY <2>1 DEF vars, consvars, Queue!avars, Reading, FoundEmpty
  <2> QED BY <2>1, PushRefines, ConsumeRefines DEF Next
<1> QED BY <1>1, <1>2, Invariance, PTL DEF Spec, IsQueue, Queue!Spec

-----------------------------------------------------------------------------
(* lfthreadpool, whose workers have a ringbuff each.  LfThreadPool takes a *)
(* ring for a queue of Room elements with one producer, which by           *)
(* Refinement it is.                                                       *)

(* The numbers of the tasks.                                               *)
Numbers == Nat \ {Nop}

(* The values that the variables of the pool take.                         *)
PoolTypes ==
  /\ queue \in [Workers -> Seq(Nat)] /\ hand \in [Workers -> Nat]
  /\ assigned \in [Workers -> Seq(Numbers)]
  /\ ran \in [Workers -> Seq(Numbers)]
  /\ wpc \in [Workers -> {"test", "pop", "run", "drain", "ended"}]
  /\ seen \in [Workers -> Nat] /\ given \in Nat /\ next \in Workers

(* Where the client is.                                                    *)
ClientInv ==
  /\ client \in {"scan", "enqueue", "wake", "join"} => idx \in Workers
  /\ client \in {"mentor", "flag"} => idx \in 0..N
  /\ client \in {"scan", "enqueue"} => ~shutdown /\ given \in Numbers
  /\ client \in {"mentor", "flag", "wake", "join", "down"} => shutdown
  /\ client = "mentor" => idx = 0
  /\ client = "scan" => scan \in 1..N

(* getminidx has found the least of the loads it has read, and the ring of *)
(* idx has not grown since.                                                *)
LoadInv ==
  /\ client = "scan" =>
       /\ idx < scan
       /\ Len(queue[idx]) <= seen[idx]
       /\ \A w \in 0..(scan - 1) : seen[idx] <= seen[w]
  /\ LeastLoaded

(* t_shutdown has been to worker w and has pushed the empty task.          *)
Woken(w) ==
  \/ client \in {"flag", "wake"} /\ w < idx
  \/ client = "join" /\ w <= idx
  \/ client = "down"

(* A ring q whose worker has taken p elements out of it: behind them it    *)
(* holds the rest of the tasks it accepted, a, and at most the empty task  *)
(* at its end.                                                             *)
Row(q, p, a, woken) ==
  /\ \/ p + Len(q) = Len(a)
     \/ /\ woken /\ p + Len(q) = Len(a) + 1
        /\ q # <<>> => q[Len(q)] = 0
  /\ \A i \in 1..Len(q) : p + i <= Len(a) => q[i] = a[p + i]

(* The worker has run the tasks r, and has h in hand while it runs it.     *)
Holds(h, r, a) ==
  h = IF Len(r) + 1 <= Len(a) THEN a[Len(r) + 1] ELSE 0

(* The tasks r are the first ones of a.                                    *)
Begins(r, a) ==
  /\ Len(r) <= Len(a)
  /\ \A i \in 1..Len(r) : r[i] = a[i]

(* The worker has not left the loop of t_task.                             *)
Looping(w) == wpc[w] \in {"test", "pop", "run"}

(* How many elements the worker has taken out of its ring and run, or is   *)
(* running.                                                                *)
Taken(w) == Len(ran[w]) + IF wpc[w] = "run" THEN 1 ELSE 0

(* The tasks of one worker: run, in hand and in the ring, in this order.   *)
RowOf(w) ==
  /\ Begins(ran[w], assigned[w])
  /\ Looping(w) => Row(queue[w], Taken(w), assigned[w], Woken(w))
  /\ wpc[w] = "run" => Holds(hand[w], ran[w], assigned[w])

(* The same of all workers.                                                *)
RowInv == \A w \in Workers : RowOf(w)

(* No ring holds more than it has room for.                                *)
RoomInv ==
  \A w \in Workers : Len(queue[w]) <= Room /\ seen[w] <= Room

(* The threads that t_shutdown has joined.                                 *)
JoinInv ==
  /\ client \in {"flag", "wake", "join"} =>
       \A w \in Workers : w < idx => wpc[w] = "ended"
  /\ client = "down" => \A w \in Workers : wpc[w] = "ended"
  /\ client \in {"flag", "wake", "join", "down"} => mpc = "ended"

(* All that the steps of the pool keep.                                    *)
PoolInv ==
  PoolTypes /\ ClientInv /\ LoadInv /\ RowInv /\ RoomInv /\ JoinInv

-----------------------------------------------------------------------------
(* What the bounds of the pool and its workers are.                        *)
LEMMA PoolSizes ==
  /\ N \in Nat \ {0} /\ Room \in Nat \ {0} /\ MaxTasks \in Nat
  /\ 0 \in Workers
  /\ \A w : w \in Workers <=> w \in Nat /\ w < N
  BY PoolAssumption DEF Workers

(* It holds once the constructor has started the threads.                  *)
LEMMA PoolInitInv ==
  ASSUME PoolInit
  PROVE  PoolInv
<1>0. 0 \in Workers /\ <<>> \in Seq(Nat) /\ <<>> \in Seq(Numbers)
  BY PoolSizes
<1>1. PoolTypes
  BY <1>0 DEF PoolInit
<1>2. ClientInv /\ LoadInv
  BY DEF PoolInit, ClientInv, LoadInv, LeastLoaded
<1>3. RowInv
  BY DEF PoolInit, RowInv, RowOf, Begins, Row, Taken
<1>4. RoomInv /\ JoinInv
  BY PoolSizes DEF PoolInit
<1> QED BY <1>1, <1>2, <1>3, <1>4 DEF PoolInv

(* The types, and the place of the client.                                 *)
LEMMA PoolTypesStep ==
  ASSUME PoolTypes, ClientInv, [PoolNext]_poolvars
  PROVE  PoolTypes' /\ ClientInv'
<1> USE DEF PoolTypes, ClientInv, workvars, clientvars
<1>0. /\ N \in Nat \ {0} /\ 0 \in Workers
      /\ \A w : w \in Workers <=> w \in Nat /\ w < N
  BY PoolSizes
<1>1. CASE UNCHANGED poolvars
  BY <1>1 DEF poolvars
<1>2. CASE AddStatic
  <2>1. (next + 1) % N \in Workers
    <3>1. next \in Nat
      BY <1>0
    <3>2. (next + 1) % N \in 0..(N - 1)
      BY ONLY <1>0, <3>1
    <3> QED BY <1>0, <3>2
  <2>2. given + 1 \in Nat /\ given + 1 \in Numbers
    BY DEF Numbers, Nop
  <2>3. PoolTypes'
    BY <1>2, <2>1, <2>2 DEF AddStatic, GiveTask
  <2>4. ClientInv'
    BY <1>2, <2>1, <2>2 DEF AddStatic, GiveTask
  <2> QED BY ONLY <2>3, <2>4
<1>3. CASE AddDynamic
  <2>1. given + 1 \in Nat /\ given + 1 \in Numbers
    BY DEF Numbers, Nop
  <2>2. PoolTypes'
    <3>1. Len(queue[0]) \in Nat
      <4>1. queue[0] \in Seq(Nat)
        BY <1>0
      <4> QED BY ONLY <4>1
    <3>2. /\ seen' = [seen EXCEPT ![0] = Len(queue[0])]
          /\ given' = given + 1
          /\ UNCHANGED <<queue, hand, assigned, ran, wpc, next>>
      BY <1>3, Zenon DEF AddDynamic, GiveTask
    <3>3. seen' \in [Workers -> Nat]
      BY <3>1, <3>2
    <3> QED BY <2>1, <3>2, <3>3, Zenon
  <2>3. ClientInv'
    BY <1>0, <1>3, <2>1 DEF AddDynamic, GiveTask
  <2> QED BY ONLY <2>2, <2>3
<1>4. CASE getminidx
  <2>1. scan \in Workers /\ scan + 1 \in 1..N
    <3>1. scan \in 1..N /\ scan < N
      BY <1>4 DEF getminidx
    <3> QED BY ONLY <1>0, <3>1
  <2>2. Len(queue[scan]) \in Nat
    BY <2>1
  <2>3. seen' \in [Workers -> Nat] /\ idx' \in Workers
    BY <1>4, <2>1, <2>2 DEF getminidx
  <2> QED BY <1>4, <2>1, <2>3 DEF getminidx
<1>5. CASE ScanDone
  BY <1>5 DEF ScanDone
<1>6. CASE enqueue_task
  <2>1. PICK k \in Workers : k = idx
    BY <1>6 DEF enqueue_task
  <2>2. given \in Numbers /\ given \in Nat
    BY <1>6 DEF enqueue_task
  <2>3. queue' = queue \/ queue' = [queue EXCEPT ![k] = Append(@, given)]
    BY <1>6, <2>1 DEF enqueue_task
  <2>4. \/ assigned' = assigned
        \/ assigned' = [assigned EXCEPT ![k] = Append(@, given)]
    BY <1>6, <2>1 DEF enqueue_task
  <2>5. queue' \in [Workers -> Seq(Nat)]
    <3>1. Append(queue[k], given) \in Seq(Nat)
      BY <2>2
    <3> QED BY <2>3, <3>1
  <2>6. assigned' \in [Workers -> Seq(Numbers)]
    <3>1. Append(assigned[k], given) \in Seq(Numbers)
      BY <2>2
    <3> QED BY <2>4, <3>1
  <2> QED BY <1>6, <2>5, <2>6 DEF enqueue_task
<1>7. CASE t_shutdown \/ JoinMentor \/ StopDone
  <2>1. CASE t_shutdown
    <3>1. 0 \in 0..N
      BY ONLY <1>0
    <3>2. /\ shutdown' /\ idx' = 0 /\ client' = "mentor"
          /\ UNCHANGED <<queue, hand, assigned, ran, wpc, seen, given, next>>
      BY <2>1, Zenon DEF t_shutdown
    <3>3. PoolTypes'
      BY <3>2, Zenon
    <3> QED BY <3>1, <3>2, <3>3
  <2>2. CASE JoinMentor
    BY <1>0, <2>2 DEF JoinMentor
  <2>3. CASE StopDone
    BY <2>3 DEF StopDone
  <2> QED BY ONLY <1>7, <2>1, <2>2, <2>3
<1>8. CASE StopFlag
  <2>1. idx \in Workers
    BY <1>0, <1>8 DEF StopFlag
  <2> QED BY <1>8, <2>1 DEF StopFlag
<1>12. CASE StopJoin
  <2>1. idx + 1 \in 0..N
    <3>1. idx \in Workers
      BY <1>12 DEF StopJoin
    <3> QED BY ONLY <1>0, <3>1
  <2> QED BY <1>12, <2>1 DEF StopJoin
<1>9. CASE StopPush
  <2>1. PICK k \in Workers : k = idx
    BY <1>9 DEF StopPush
  <2>2. queue' = queue \/ queue' = [queue EXCEPT ![k] = Append(@, 0)]
    BY <1>9, <2>1 DEF StopPush, Nop
  <2>3. queue' \in [Workers -> Seq(Nat)]
    <3>1. Append(queue[k], 0) \in Seq(Nat)
      OBVIOUS
    <3> QED BY <2>2, <3>1
  <2> QED BY <1>9, <2>3 DEF StopPush
<1>10. ASSUME NEW w \in Workers, t_task(w)
       PROVE  PoolTypes' /\ ClientInv'
  <2>1. CASE WorkerTest(w) \/ WorkerEnd(w)
    <3>1. \E pc \in {"drain", "pop", "ended"} : wpc' = [wpc EXCEPT ![w] = pc]
      BY <2>1, Zenon DEF WorkerTest, WorkerEnd
    <3>2. wpc' \in [Workers -> {"test", "pop", "run", "drain", "ended"}]
      BY <3>1
    <3>3. UNCHANGED <<queue, hand, ran, shutdown, clientvars>>
      BY <2>1, Zenon DEF WorkerTest, WorkerEnd
    <3> QED BY <3>2, <3>3
  <2>2. CASE WorkerPop(w)
    <3>1. CASE queue[w] = <<>>
      BY <2>2, <3>1 DEF WorkerPop
    <3>2. CASE queue[w] # <<>>
      <4>1. Head(queue[w]) \in Nat /\ Tail(queue[w]) \in Seq(Nat)
        <5>1. queue[w] \in Seq(Nat)
          OBVIOUS
        <5> QED BY ONLY <3>2, <5>1
      <4>2. /\ wpc' = [wpc EXCEPT ![w] = "run"]
            /\ hand' = [hand EXCEPT ![w] = Head(queue[w])]
            /\ queue' = [queue EXCEPT ![w] = Tail(queue[w])]
            /\ UNCHANGED <<ran, shutdown, clientvars>>
        BY <2>2, <3>2 DEF WorkerPop
      <4>3. PoolTypes'
        BY <4>1, <4>2
      <4> QED BY <4>2, <4>3
    <3> QED BY ONLY <3>1, <3>2
  <2>3. CASE WorkerRun(w)
    <3>1. hand[w] # Nop => hand[w] \in Numbers
      BY DEF Numbers
    <3>2. hand[w] # Nop => Append(ran[w], hand[w]) \in Seq(Numbers)
      BY <3>1
    <3> QED BY <2>3, <3>2 DEF WorkerRun
  <2>4. CASE WorkerDrain(w)
    <3>1. Tail(queue[w]) \in Seq(Nat)
      BY <2>4 DEF WorkerDrain
    <3> QED BY <2>4, <3>1 DEF WorkerDrain
  <2> QED BY ONLY <1>10, <2>1, <2>2, <2>3, <2>4 DEF t_task
<1>11. CASE adjust_task
  BY <1>11 DEF adjust_task, MentorTest, MentorWake
<1> QED BY <1>1, <1>2, <1>3, <1>4, <1>5, <1>6, <1>7, <1>8, <1>9, <1>10,
           <1>11, <1>12 DEF PoolNext, ClientCall, Terminated

-----------------------------------------------------------------------------
(* While getminidx reads the loads and add_task is about to push, only the *)
(* workers change the rings, and they make them shorter.                   *)
LEMMA LoadStep ==
  ASSUME PoolTypes, ClientInv, LoadInv, [PoolNext]_poolvars
  PROVE  LoadInv'
<1> USE DEF LoadInv, LeastLoaded, workvars, clientvars
<1>0. /\ N \in Nat \ {0} /\ 0 \in Workers
      /\ \A w : w \in Workers <=> w \in Nat /\ w < N
      /\ \A w \in Workers : Len(queue[w]) \in Nat
  BY PoolSizes DEF PoolTypes
<1>t. seen \in [Workers -> Nat]
  BY DEF PoolTypes
<1>1. ASSUME client' \notin {"scan", "enqueue"}
      PROVE  LoadInv'
  BY <1>1
<1>2. CASE AddStatic
  BY <1>2 DEF AddStatic
<1>3. CASE AddDynamic
  BY <1>0, <1>t, <1>3 DEF AddDynamic
<1>4. CASE getminidx
  <2>1. PICK s \in Nat, k \in Workers : s = scan /\ k = idx
    BY <1>4, <1>0 DEF getminidx, ClientInv
  <2>2. /\ client' = "scan" /\ s \in Workers /\ 1 <= s /\ k < s
        /\ scan' = s + 1 /\ queue' = queue
        /\ seen' = [seen EXCEPT ![s] = Len(queue[s])]
        /\ idx' = IF Len(queue[s]) < seen[k] THEN s ELSE k
        /\ Len(queue[k]) <= seen[k]
        /\ \A w \in 0..(s - 1) : seen[k] <= seen[w]
    BY <1>4, <1>0, <2>1 DEF getminidx
  <2>3. /\ seen'[s] = Len(queue[s]) /\ Len(queue[s]) \in Nat
        /\ \A w \in 0..(s - 1) : seen'[w] = seen[w] /\ seen[w] \in Nat
    <3>1. \A w \in 0..(s - 1) : w \in Workers /\ w # s
      BY <2>1, <2>2, <1>0
    <3> QED BY <2>2, <3>1, <1>0, <1>t
  <2>4. idx' < scan'
    BY <2>1, <2>2, <1>0
  <2>5. /\ Len(queue'[idx']) <= seen'[idx']
        /\ \A w \in 0..s : seen'[idx'] <= seen'[w]
    <3>0. k \in 0..(s - 1)
      BY <2>1, <2>2, <1>0
    <3>1. CASE Len(queue[s]) < seen[k]
      BY <2>1, <2>2, <2>3, <3>0, <3>1
    <3>2. CASE ~(Len(queue[s]) < seen[k])
      BY <2>1, <2>2, <2>3, <3>0, <3>2
    <3> QED BY <3>1, <3>2
  <2> QED BY <2>1, <2>2, <2>4, <2>5
<1>5. CASE ScanDone
  <2>1. /\ UNCHANGED <<idx, queue, seen>> /\ idx \in Workers
        /\ Len(queue[idx]) <= seen[idx]
        /\ \A w \in 0..(N - 1) : seen[idx] <= seen[w]
        /\ client' = "enqueue"
    BY <1>5 DEF ScanDone, ClientInv
  <2>2. ASSUME NEW w \in Workers
        PROVE  Len(queue[idx]) <= seen[w]
    BY <1>0, <1>t, <2>1
  <2> QED BY <2>1, <2>2
<1>6. CASE \/ enqueue_task \/ t_shutdown \/ JoinMentor
           \/ StopFlag \/ StopPush \/ StopJoin \/ StopDone
  <2>1. client' \notin {"scan", "enqueue"}
    BY <1>6
       DEF enqueue_task, t_shutdown, JoinMentor, StopFlag, StopPush, StopJoin,
           StopDone
  <2> QED BY <1>1, <2>1
<1>7. ASSUME UNCHANGED <<client, mode, idx, scan, seen>>,
             \A w \in Workers : /\ Len(queue'[w]) \in Nat
                                /\ Len(queue'[w]) <= Len(queue[w])
      PROVE  LoadInv'
  <2>1. CASE client \in {"scan", "enqueue"}
    <3>0. idx \in Workers
      BY <2>1 DEF ClientInv
    <3>1. /\ idx \in Workers /\ Len(queue'[idx]) <= Len(queue[idx])
          /\ Len(queue[idx]) \in Nat /\ Len(queue'[idx]) \in Nat
          /\ seen[idx] \in Nat
      BY <3>0, <1>0, <1>7, <1>t
    <3>2. ASSUME NEW n \in Nat, Len(queue[idx]) <= n
          PROVE  Len(queue'[idx]) <= n
      BY <3>1, <3>2
    <3> QED BY <3>1, <3>2, <1>7, <1>t
  <2>2. CASE client \notin {"scan", "enqueue"}
    BY <2>2, <1>7, <1>1
  <2> QED BY <2>1, <2>2
<1>8. ASSUME NEW w \in Workers, t_task(w)
      PROVE  LoadInv'
  <2>1. UNCHANGED <<client, mode, idx, scan, seen>>
    BY <1>8
       DEF t_task, WorkerTest, WorkerPop, WorkerRun, WorkerDrain, WorkerEnd
  <2>2. queue' = queue \/ (queue[w] # <<>>
                           /\ queue' = [queue EXCEPT ![w] = Tail(@)])
    BY <1>8
       DEF t_task, WorkerTest, WorkerPop, WorkerRun, WorkerDrain, WorkerEnd
  <2>3. ASSUME NEW v \in Workers
        PROVE  Len(queue'[v]) \in Nat /\ Len(queue'[v]) <= Len(queue[v])
    <3>1. queue \in [Workers -> Seq(Nat)]
      BY DEF PoolTypes
    <3>2. \/ queue'[v] = queue[v]
          \/ queue[v] # <<>> /\ queue'[v] = Tail(queue[v])
      BY <2>2, <3>1
    <3> QED BY <3>1, <3>2, <1>0
  <2> QED BY <2>1, <2>3, <1>7
<1>9. CASE adjust_task \/ UNCHANGED poolvars
  <2>1. UNCHANGED <<client, mode, idx, scan, seen, queue>>
    BY <1>9 DEF adjust_task, MentorTest, MentorWake, poolvars
  <2> QED BY <2>1, <1>0, <1>7
<1> QED BY <1>2, <1>3, <1>4, <1>5, <1>6, <1>8, <1>9
           DEF PoolNext, ClientCall, Terminated

-----------------------------------------------------------------------------
(* One ring and its worker.                                                *)

(* enqueue_task adds its task behind the others.                           *)
LEMMA RowAppend ==
  ASSUME NEW q \in Seq(Nat), NEW p \in Nat, NEW a \in Seq(Numbers),
         NEW g \in Numbers, Row(q, p, a, FALSE)
  PROVE  Row(Append(q, g), p, Append(a, g), FALSE)
<1> DEFINE q2 == Append(q, g)
           a2 == Append(a, g)
<1>1. /\ Len(q) \in Nat /\ Len(a) \in Nat /\ p + Len(q) = Len(a)
      /\ \A i \in 1..Len(q) : p + i <= Len(a) => q[i] = a[p + i]
  BY DEF Row
<1>2. /\ Len(q2) = Len(q) + 1 /\ q2[Len(q) + 1] = g
      /\ \A i \in 1..Len(q) : q2[i] = q[i]
  BY DEF Numbers
<1>3. /\ Len(a2) = Len(a) + 1 /\ a2[Len(a) + 1] = g
      /\ \A i \in 1..Len(a) : a2[i] = a[i]
  OBVIOUS
<1> HIDE DEF q2, a2
<1>4. ASSUME NEW i \in 1..Len(q2), p + i <= Len(a2)
      PROVE  q2[i] = a2[p + i]
  <2>1. CASE i = Len(q) + 1
    BY <1>1, <1>2, <1>3, <2>1
  <2>2. CASE i # Len(q) + 1
    <3>1. i \in 1..Len(q) /\ p + i \in 1..Len(a) /\ p + i <= Len(a)
      BY <1>1, <1>2, <2>2
    <3> QED BY <1>1, <1>2, <1>3, <3>1
  <2> QED BY <2>1, <2>2
<1>5. p + Len(q2) = Len(a2)
  BY <1>1, <1>2, <1>3
<1> QED BY <1>4, <1>5 DEF Row, q2, a2

(* t_shutdown adds the empty task behind them.                             *)
LEMMA RowWake ==
  ASSUME NEW q \in Seq(Nat), NEW p \in Nat, NEW a \in Seq(Numbers),
         Row(q, p, a, FALSE)
  PROVE  Row(Append(q, 0), p, a, TRUE)
<1> DEFINE q2 == Append(q, 0)
<1>1. /\ Len(q) \in Nat /\ Len(a) \in Nat /\ p + Len(q) = Len(a)
      /\ \A i \in 1..Len(q) : p + i <= Len(a) => q[i] = a[p + i]
  BY DEF Row
<1>2. /\ Len(q2) = Len(q) + 1 /\ q2[Len(q) + 1] = 0
      /\ \A i \in 1..Len(q) : q2[i] = q[i]
  OBVIOUS
<1> HIDE DEF q2
<1>3. ASSUME NEW i \in 1..Len(q2), p + i <= Len(a)
      PROVE  q2[i] = a[p + i]
  <2>1. i \in 1..Len(q)
    BY <1>1, <1>2, <1>3
  <2> QED BY <1>1, <1>2, <1>3, <2>1
<1>4. p + Len(q2) = Len(a) + 1
  <2>1. /\ Len(q) \in Nat /\ Len(a) \in Nat /\ p \in Nat
        /\ p + Len(q) = Len(a) /\ Len(q2) = Len(q) + 1
    BY <1>1, <1>2
  <2> QED BY ONLY <2>1
<1> QED BY <1>2, <1>3, <1>4 DEF Row

(* pop_move hands the worker the element it has to run next.               *)
LEMMA RowPop ==
  ASSUME NEW q \in Seq(Nat), NEW r \in Seq(Numbers), NEW a \in Seq(Numbers),
         NEW b \in BOOLEAN, Begins(r, a), Row(q, Len(r), a, b), q # <<>>
  PROVE  Holds(Head(q), r, a) /\ Row(Tail(q), Len(r) + 1, a, b)
<1> DEFINE q2 == Tail(q)
           p == Len(r)
<1>1. /\ Len(q) \in Nat /\ Len(a) \in Nat /\ p \in Nat /\ Len(q) > 0
      /\ p <= Len(a)
  BY DEF Begins
<1>2. /\ Len(q2) = Len(q) - 1 /\ Head(q) = q[1]
      /\ \A i \in 1..Len(q2) : q2[i] = q[i + 1]
  OBVIOUS
<1>3. /\ \/ p + Len(q) = Len(a)
         \/ b /\ p + Len(q) = Len(a) + 1 /\ q[Len(q)] = 0
      /\ \A i \in 1..Len(q) : p + i <= Len(a) => q[i] = a[p + i]
  BY DEF Row
<1> HIDE DEF q2, p
<1>n. /\ Len(q) \in Nat /\ Len(a) \in Nat /\ p \in Nat /\ Len(q) > 0
      /\ p <= Len(a) /\ Len(q2) = Len(q) - 1
  BY <1>1, <1>2
<1>4. q[1] = IF p + 1 <= Len(a) THEN a[p + 1] ELSE 0
  <2>1. CASE p + 1 <= Len(a)
    BY <1>1, <1>3, <2>1
  <2>2. CASE ~(p + 1 <= Len(a))
    <3>1. p + Len(q) # Len(a)
      BY ONLY <1>n, <2>2
    <3>2. q[Len(q)] = 0 /\ p + Len(q) = Len(a) + 1
      BY <1>3, <3>1
    <3>3. Len(q) = 1
      BY ONLY <1>n, <2>2, <3>2
    <3> QED BY <2>2, <3>2, <3>3
  <2> QED BY <2>1, <2>2
<1>5. ASSUME NEW i \in 1..Len(q2), (p + 1) + i <= Len(a)
      PROVE  q2[i] = a[(p + 1) + i]
  <2>1. i + 1 \in 1..Len(q) /\ p + (i + 1) = (p + 1) + i
    BY <1>1, <1>2
  <2> QED BY <1>2, <1>3, <1>5, <2>1
<1>6. \/ (p + 1) + Len(q2) = Len(a)
      \/ /\ b /\ (p + 1) + Len(q2) = Len(a) + 1
         /\ q2 # <<>> => q2[Len(q2)] = 0
  <2>1. CASE p + Len(q) = Len(a)
    <3>1. (p + 1) + Len(q2) = Len(a)
      <4>1. \A x, y \in Nat : (x + 1) + (y - 1) = x + y
        OBVIOUS
      <4> QED BY ONLY <1>n, <2>1, <4>1
    <3> QED BY ONLY <3>1
  <2>2. CASE b /\ p + Len(q) = Len(a) + 1 /\ q[Len(q)] = 0
    <3>1. ASSUME q2 # <<>> PROVE q2[Len(q2)] = 0
      <4>1. Len(q2) \in 1..Len(q2) /\ Len(q2) + 1 = Len(q)
        BY <1>1, <1>2, <3>1
      <4> QED BY <1>2, <2>2, <4>1
    <3>2. (p + 1) + Len(q2) = Len(a) + 1
      BY ONLY <1>n, <2>2
    <3> QED BY ONLY <2>2, <3>1, <3>2
  <2> QED BY <1>3, <2>1, <2>2
<1>7. Holds(Head(q), r, a)
  BY <1>2, <1>4 DEF Holds, p
<1>8. Row(q2, p + 1, a, b)
  BY <1>5, <1>6 DEF Row
<1> QED BY <1>7, <1>8 DEF q2, p

(* Running it makes it the next of the tasks that were run; the empty task *)
(* comes after the last one.                                               *)
LEMMA RowRun ==
  ASSUME NEW q \in Seq(Nat), NEW r \in Seq(Numbers), NEW a \in Seq(Numbers),
         NEW b \in BOOLEAN, NEW h \in Nat, Begins(r, a), Holds(h, r, a),
         Row(q, Len(r) + 1, a, b),
         NEW r2, r2 = IF h = 0 THEN r ELSE Append(r, h)
  PROVE  Begins(r2, a) /\ Row(q, Len(r2), a, b)
<1>1. /\ Len(q) \in Nat /\ Len(a) \in Nat /\ Len(r) \in Nat
      /\ Len(r) <= Len(a) /\ \A i \in 1..Len(r) : r[i] = a[i]
      /\ \A i \in 1..Len(a) : a[i] # 0
  BY DEF Begins, Numbers, Nop
<1>2. CASE Len(r) + 1 <= Len(a)
  <2>1. h = a[Len(r) + 1] /\ h # 0 /\ h \in Numbers
    BY <1>1, <1>2 DEF Holds, Numbers
  <2>2. /\ Len(r2) = Len(r) + 1 /\ r2[Len(r) + 1] = h
        /\ \A i \in 1..Len(r) : r2[i] = r[i]
    BY <2>1
  <2>3. ASSUME NEW i \in 1..Len(r2) PROVE r2[i] = a[i]
    BY <1>1, <2>1, <2>2
  <2> QED BY <1>1, <1>2, <2>2, <2>3 DEF Begins
<1>3. CASE ~(Len(r) + 1 <= Len(a))
  <2>1. h = 0 /\ r2 = r
    BY <1>3 DEF Holds
  <2>2. Len(q) = 0 /\ Len(r) = Len(a)
    BY <1>1, <1>3 DEF Row
  <2>3. Row(q, Len(r), a, b)
    BY <2>2, <1>1 DEF Row
  <2> QED BY <2>1, <2>3
<1> QED BY <1>2, <1>3

-----------------------------------------------------------------------------
(* A step leaves worker w alone.                                           *)
Same(w) ==
  /\ queue'[w] = queue[w] /\ ran'[w] = ran[w] /\ wpc'[w] = wpc[w]
  /\ hand'[w] = hand[w] /\ assigned'[w] = assigned[w]

(* Then its tasks are in a row as before.                                  *)
LEMMA SameRow ==
  ASSUME NEW w, RowOf(w), Same(w), Woken(w) => Woken(w)'
  PROVE  RowOf(w)'
<1>1. Begins(ran'[w], assigned'[w])
  BY DEF RowOf, Same
<1>2. wpc'[w] = "run" => Holds(hand'[w], ran'[w], assigned'[w])
  BY DEF RowOf, Same
<1>3. Taken(w)' = Taken(w) /\ (Looping(w)' <=> Looping(w))
  BY DEF Same, Taken, Looping
<1>4. Looping(w) => Row(queue'[w], Taken(w)', assigned'[w], Woken(w)')
  BY <1>3 DEF RowOf, Row, Same
<1> QED BY <1>1, <1>2, <1>3, <1>4 DEF RowOf

(* A ring that has the empty task gets nothing more.                       *)
LEMMA WokenStays ==
  ASSUME PoolTypes, ClientInv, [PoolNext]_poolvars,
         NEW w \in Workers, Woken(w)
  PROVE  Woken(w)'
<1> USE DEF Woken, ClientInv, clientvars, workvars
<1>0. N \in Nat /\ w \in Nat /\ w < N /\ \A v \in Workers : v \in Nat
  BY PoolSizes
<1>1. CASE \/ AddStatic \/ AddDynamic \/ getminidx
           \/ ScanDone \/ enqueue_task \/ t_shutdown
           \/ JoinMentor \/ StopFlag
  BY <1>1
     DEF AddStatic, AddDynamic, GiveTask, getminidx, ScanDone, enqueue_task,
         t_shutdown, JoinMentor, StopFlag
<1>2. CASE StopPush
  <2>1. idx \in Nat /\ w < idx /\ idx' = idx /\ client' = "join"
    BY <1>0, <1>2 DEF StopPush
  <2> QED BY <1>0, <2>1
<1>3. CASE StopJoin
  <2>1. idx \in Nat /\ w <= idx /\ idx' = idx + 1 /\ client' = "flag"
    BY <1>0, <1>3 DEF StopJoin
  <2> QED BY <1>0, <2>1
<1>4. CASE StopDone
  BY <1>4 DEF StopDone
<1>5. ASSUME NEW v \in Workers, t_task(v)
      PROVE  Woken(w)'
  BY <1>5 DEF t_task, WorkerTest, WorkerPop, WorkerRun, WorkerDrain, WorkerEnd
<1>6. CASE adjust_task \/ UNCHANGED poolvars
  BY <1>6 DEF adjust_task, MentorTest, MentorWake, poolvars
<1> QED BY <1>1, <1>2, <1>3, <1>4, <1>5, <1>6
           DEF PoolNext, ClientCall, Terminated

(* Every step keeps the tasks of a worker in a row.                        *)
LEMMA RowStep ==
  ASSUME PoolTypes, ClientInv, [PoolNext]_poolvars,
         NEW w \in Workers, RowOf(w)
  PROVE  RowOf(w)'
<1> USE DEF clientvars, workvars
<1>0. /\ queue[w] \in Seq(Nat) /\ hand[w] \in Nat
      /\ assigned[w] \in Seq(Numbers) /\ ran[w] \in Seq(Numbers)
      /\ Len(ran[w]) \in Nat /\ Taken(w) \in Nat
  BY DEF PoolTypes, Taken
<1>f. /\ queue \in [Workers -> Seq(Nat)]
      /\ assigned \in [Workers -> Seq(Numbers)]
      /\ ran \in [Workers -> Seq(Numbers)]
      /\ hand \in [Workers -> Nat]
      /\ wpc \in [Workers -> {"test", "pop", "run", "drain", "ended"}]
  BY DEF PoolTypes
<1>g. Woken(w) => Woken(w)'
  BY WokenStays
<1>1. ASSUME Same(w)
      PROVE  RowOf(w)'
  BY ONLY <1>1, <1>g, RowOf(w), SameRow
<1>2. CASE \/ AddStatic \/ AddDynamic \/ getminidx
           \/ ScanDone \/ t_shutdown \/ JoinMentor
           \/ StopFlag \/ StopJoin \/ StopDone
           \/ adjust_task \/ UNCHANGED poolvars
  <2>1. UNCHANGED <<queue, ran, wpc, hand, assigned>>
    BY <1>2
       DEF AddStatic, AddDynamic, getminidx, ScanDone, t_shutdown, JoinMentor,
           StopFlag, StopJoin, StopDone, adjust_task, MentorTest, MentorWake,
           poolvars
  <2>2. Same(w)
    BY <2>1 DEF Same
  <2> QED BY <1>1, <2>2
<1>3. CASE enqueue_task
  <2>1. /\ idx \in Workers /\ given \in Numbers /\ ~Woken(w)
        /\ UNCHANGED <<ran, wpc, hand>>
        /\ \/ UNCHANGED <<queue, assigned>>
           \/ /\ queue' = [queue EXCEPT ![idx] = Append(@, given)]
              /\ assigned' = [assigned EXCEPT ![idx] = Append(@, given)]
    BY <1>3 DEF enqueue_task, ClientInv, Woken
  <2>2. CASE w # idx \/ UNCHANGED <<queue, assigned>>
    <3>1. Same(w)
      BY <2>1, <2>2, <1>f DEF Same
    <3> QED BY <1>1, <3>1
  <2>3. CASE w = idx /\ ~UNCHANGED <<queue, assigned>>
    <3>1. /\ queue'[w] = Append(queue[w], given)
          /\ assigned'[w] = Append(assigned[w], given)
          /\ ran'[w] = ran[w] /\ wpc'[w] = wpc[w] /\ hand'[w] = hand[w]
      BY <2>1, <2>3, <1>f
    <3>2. Taken(w)' = Taken(w) /\ (Looping(w)' <=> Looping(w))
      BY <3>1 DEF Taken, Looping
    <3>3. ASSUME Looping(w)
          PROVE  Row(queue'[w], Taken(w)', assigned'[w], Woken(w)')
      <4>1. Row(queue[w], Taken(w), assigned[w], FALSE)
        BY <3>3, <2>1 DEF RowOf, Row
      <4>2. Row(queue'[w], Taken(w)', assigned'[w], FALSE)
        <5>1. Row(Append(queue[w], given), Taken(w),
                  Append(assigned[w], given), FALSE)
          BY ONLY <4>1, <2>1, <1>0, RowAppend
        <5> QED BY ONLY <5>1, <3>1, <3>2
      <4> QED BY <4>2 DEF Row
    <3>4. /\ Begins(ran'[w], assigned'[w])
          /\ wpc[w] = "run" => Holds(hand[w], ran[w], assigned'[w])
      <4> DEFINE a == assigned[w]
                 b == Append(a, given)
                 r == ran[w]
      <4>1. /\ Len(a) \in Nat /\ Len(b) = Len(a) + 1 /\ Len(r) \in Nat
            /\ \A i \in 1..Len(a) : b[i] = a[i]
        BY <1>0, <2>1
      <4>2. Len(r) <= Len(a) /\ \A i \in 1..Len(r) : r[i] = a[i]
        BY DEF RowOf, Begins
      <4>3. Begins(r, b)
        BY <4>1, <4>2 DEF Begins
      <4>4. ASSUME wpc[w] = "run" PROVE Holds(hand[w], r, b)
        <5>1. Holds(hand[w], r, a) /\ Row(queue[w], Len(r) + 1, a, FALSE)
          BY <4>4, <2>1 DEF RowOf, Looping, Taken, Row
        <5>2. Len(r) + 1 <= Len(a)
          <6>1. Len(queue[w]) \in Nat /\ Len(a) \in Nat /\ Len(r) \in Nat
            BY <1>0
          <6>2. (Len(r) + 1) + Len(queue[w]) = Len(a)
            BY ONLY <5>1 DEF Row
          <6>3. \A x, y, z \in Nat : (x + 1) + z = y => x + 1 <= y
            OBVIOUS
          <6> QED BY ONLY <6>1, <6>2, <6>3
        <5>3. Len(r) + 1 \in 1..Len(a) /\ Len(r) + 1 <= Len(b)
          BY ONLY <4>1, <5>2
        <5> QED BY <5>1, <5>2, <5>3, <4>1 DEF Holds
      <4> QED BY <4>3, <4>4, <3>1
    <3> QED BY <3>1, <3>2, <3>3, <3>4 DEF RowOf
  <2> QED BY <2>2, <2>3
<1>4. CASE StopPush
  <2>1. /\ idx \in Workers /\ UNCHANGED <<ran, wpc, hand, assigned, idx>>
        /\ client = "wake" /\ client' = "join"
        /\ \/ UNCHANGED queue
           \/ queue' = [queue EXCEPT ![idx] = Append(@, 0)]
    <3>1. idx \in Workers
      BY <1>4 DEF StopPush, ClientInv
    <3>2. queue = [queue EXCEPT ![idx] = queue[idx]]
      BY <3>1, <1>f
    <3>3. CASE Full(idx)
      BY <1>4, <3>1, <3>2, <3>3 DEF StopPush
    <3>4. CASE ~Full(idx)
      BY <1>4, <3>1, <3>4 DEF StopPush, Nop
    <3> QED BY <3>3, <3>4
  <2>2. CASE w # idx \/ UNCHANGED queue
    <3>1. Same(w)
      BY <2>1, <2>2, <1>f DEF Same
    <3> QED BY <1>1, <3>1
  <2>3. CASE w = idx /\ ~UNCHANGED queue
    <3>0. ~Woken(w) /\ Woken(w)'
      BY <2>1, <2>3, PoolSizes DEF Woken
    <3>1. /\ queue'[w] = Append(queue[w], 0)
          /\ assigned'[w] = assigned[w]
          /\ ran'[w] = ran[w] /\ wpc'[w] = wpc[w] /\ hand'[w] = hand[w]
      BY <2>1, <2>3, <1>f
    <3>2. Taken(w)' = Taken(w) /\ (Looping(w)' <=> Looping(w))
      BY <3>1 DEF Taken, Looping
    <3>3. ASSUME Looping(w)
          PROVE  Row(queue'[w], Taken(w)', assigned'[w], Woken(w)')
      <4>1. Row(queue[w], Taken(w), assigned[w], FALSE)
        BY <3>3, <3>0 DEF RowOf, Row
      <4>2. Row(queue'[w], Taken(w)', assigned'[w], TRUE)
        BY <4>1, <3>1, <3>2, <1>0, RowWake
      <4> QED BY <4>2, <3>0 DEF Row
    <3> QED BY <3>1, <3>2, <3>3 DEF RowOf
  <2> QED BY <2>2, <2>3
<1>5. ASSUME NEW v \in Workers, t_task(v)
      PROVE  RowOf(w)'
  <2>0. assigned' = assigned /\ (Woken(w)' <=> Woken(w))
    BY <1>5
       DEF t_task, WorkerTest, WorkerPop, WorkerRun, WorkerDrain, WorkerEnd,
           Woken
  <2>1. CASE v # w
    <3>1. Same(w)
      BY <1>5, <2>0, <2>1, <1>f
         DEF Same, t_task, WorkerTest, WorkerPop, WorkerRun, WorkerDrain,
             WorkerEnd
    <3> QED BY <1>1, <3>1
  <2>2. CASE v = w
    <3> DEFINE q == queue[w]
               r == ran[w]
               a == assigned[w]
    <3>0. /\ Begins(r, a) /\ assigned'[w] = a
          /\ Looping(w) => Row(q, Taken(w), a, Woken(w))
          /\ wpc[w] = "run" => Holds(hand[w], r, a)
      BY <2>0 DEF RowOf
    <3>1. CASE WorkerTest(w) \/ (WorkerPop(w) /\ q = <<>>)
      <4>1. /\ queue'[w] = q /\ ran'[w] = r /\ wpc[w] \in {"test", "pop"}
            /\ wpc'[w] \in {"test", "pop", "drain"}
        BY <3>1, <1>f DEF WorkerTest, WorkerPop
      <4>2. Taken(w)' = Taken(w) /\ Looping(w)
        BY <4>1, <1>0 DEF Taken, Looping
      <4>3. Row(queue'[w], Taken(w)', assigned'[w], Woken(w)')
        BY <2>0, <3>0, <4>1, <4>2 DEF Row
      <4> QED BY <3>0, <4>1, <4>3 DEF RowOf
    <3>2. CASE WorkerPop(w) /\ q # <<>>
      <4>1. /\ wpc[w] = "pop" /\ wpc'[w] = "run" /\ ran'[w] = r
            /\ hand'[w] = Head(q) /\ queue'[w] = Tail(q)
        BY <3>2, <1>f DEF WorkerPop
      <4>2. Taken(w) = Len(r) /\ Taken(w)' = Len(r) + 1 /\ Looping(w)
        BY <4>1, <1>0 DEF Taken, Looping
      <4>3. Row(q, Len(r), a, Woken(w)) /\ Woken(w) \in BOOLEAN
        BY <4>2, <3>0 DEF Woken
      <4>4. Holds(Head(q), r, a) /\ Row(Tail(q), Len(r) + 1, a, Woken(w))
        BY <4>3, <3>0, <3>2, <1>0, RowPop
      <4>5. Row(queue'[w], Taken(w)', assigned'[w], Woken(w)')
        BY <2>0, <3>0, <4>1, <4>2, <4>4 DEF Row
      <4> QED BY <3>0, <4>1, <4>4, <4>5 DEF RowOf
    <3>3. CASE WorkerRun(w)
      <4>1. /\ wpc[w] = "run" /\ wpc'[w] = "test" /\ queue'[w] = q
            /\ ran'[w] = IF hand[w] = 0 THEN r ELSE Append(r, hand[w])
        BY <3>3, <1>f DEF WorkerRun, Nop
      <4>2. Taken(w) = Len(r) + 1 /\ Taken(w)' = Len(ran'[w]) + 0
            /\ Looping(w)
        BY <4>1, <1>0 DEF Taken, Looping
      <4>3. Row(q, Len(r) + 1, a, Woken(w)) /\ Woken(w) \in BOOLEAN
        BY <4>2, <3>0 DEF Woken
      <4>4. Begins(ran'[w], a) /\ Row(q, Len(ran'[w]), a, Woken(w))
        BY <4>1, <4>3, <3>0, <1>0, RowRun
      <4>5. Len(ran'[w]) + 0 = Len(ran'[w])
        BY <4>1, <1>0
      <4>6. Row(queue'[w], Taken(w)', assigned'[w], Woken(w)')
        BY <2>0, <3>0, <4>1, <4>2, <4>4, <4>5 DEF Row
      <4> QED BY <3>0, <4>1, <4>4, <4>6 DEF RowOf
    <3>4. CASE WorkerDrain(w) \/ WorkerEnd(w)
      <4>1. ran'[w] = r /\ wpc'[w] \in {"drain", "ended"}
        BY <3>4, <1>f DEF WorkerDrain, WorkerEnd
      <4> QED BY <3>0, <4>1 DEF RowOf, Looping
    <3> QED BY <1>5, <2>2, <3>1, <3>2, <3>3, <3>4 DEF t_task
  <2> QED BY <2>1, <2>2
<1> QED BY <1>2, <1>3, <1>4, <1>5 DEF PoolNext, ClientCall, Terminated

-----------------------------------------------------------------------------
(* Every push finds out first whether the ring is full.                    *)
LEMMA RoomStep ==
  ASSUME PoolTypes, ClientInv, RoomInv, [PoolNext]_poolvars
  PROVE  RoomInv'
<1> USE DEF RoomInv, workvars, clientvars
<1>0. /\ N \in Nat /\ Room \in Nat /\ 0 \in Workers
      /\ \A w : w \in Workers <=> w \in Nat /\ w < N
      /\ \A w \in Workers : Len(queue[w]) \in Nat
  BY PoolSizes DEF PoolTypes
<1>f. /\ queue \in [Workers -> Seq(Nat)]
      /\ seen \in [Workers -> Nat]
  BY DEF PoolTypes
<1>1. CASE \/ AddStatic \/ ScanDone \/ t_shutdown
           \/ JoinMentor \/ StopFlag \/ StopJoin
           \/ StopDone \/ adjust_task \/ UNCHANGED poolvars
  <2>1. UNCHANGED <<queue, seen>>
    BY <1>1
       DEF AddStatic, ScanDone, t_shutdown, JoinMentor, StopFlag, StopJoin,
           StopDone, adjust_task, MentorTest, MentorWake, poolvars
  <2> QED BY <2>1
<1>2. CASE AddDynamic
  BY <1>0, <1>f, <1>2 DEF AddDynamic
<1>3. CASE getminidx
  <2>1. scan \in Workers
    BY <1>0, <1>3 DEF getminidx, ClientInv
  <2>2. queue' = queue /\ seen' = [seen EXCEPT ![scan] = Len(queue[scan])]
    BY <1>3 DEF getminidx
  <2> QED BY <2>1, <2>2, <1>f
<1>4. ASSUME NEW k \in Workers, NEW x \in Nat, seen' = seen,
             \/ queue' = queue
             \/ /\ Len(queue[k]) # Room
                /\ queue' = [queue EXCEPT ![k] = Append(queue[k], x)]
      PROVE  RoomInv'
  <2>1. CASE queue' = queue
    BY <1>4, <2>1
  <2>2. CASE /\ Len(queue[k]) # Room
             /\ queue' = [queue EXCEPT ![k] = Append(queue[k], x)]
    <3>1. Len(Append(queue[k], x)) = Len(queue[k]) + 1
      BY <1>f
    <3>2. Len(Append(queue[k], x)) <= Room
      <4>1. Len(queue[k]) \in Nat /\ Len(queue[k]) <= Room
        BY <1>0
      <4> QED BY ONLY <1>0, <2>2, <3>1, <4>1
    <3>3. \A w \in Workers :
            queue'[w] = queue[w] \/ queue'[w] = Append(queue[k], x)
      BY <1>f, <2>2
    <3> QED BY <1>4, <3>2, <3>3
  <2> QED BY <1>4, <2>1, <2>2
<1>5. CASE enqueue_task
  <2>1. PICK k \in Workers : k = idx
    BY <1>5 DEF enqueue_task, ClientInv
  <2>2. given \in Nat
    BY DEF PoolTypes
  <2> QED BY <1>4, <1>5, <2>1, <2>2 DEF enqueue_task, Full
<1>6. CASE StopPush
  <2>1. PICK k \in Workers : k = idx
    BY <1>6 DEF StopPush, ClientInv
  <2>2. queue = [queue EXCEPT ![k] = queue[k]]
    BY <1>f
  <2>3. CASE Full(k)
    BY <1>4, <1>6, <2>1, <2>2, <2>3 DEF StopPush
  <2>4. CASE ~Full(k)
    BY <1>4, <1>6, <2>1, <2>4 DEF StopPush, Full, Nop
  <2> QED BY <2>3, <2>4
<1>7. ASSUME NEW w \in Workers, t_task(w)
      PROVE  RoomInv'
  <2>1. /\ seen' = seen
        /\ \/ queue' = queue
           \/ /\ queue[w] # <<>>
              /\ queue' = [queue EXCEPT ![w] = Tail(queue[w])]
    BY <1>7
       DEF t_task, WorkerTest, WorkerPop, WorkerRun, WorkerDrain, WorkerEnd
  <2>2. CASE queue' = queue
    BY <2>1, <2>2
  <2>3. CASE queue[w] # <<>> /\ queue' = [queue EXCEPT ![w] = Tail(queue[w])]
    <3>1. Len(Tail(queue[w])) <= Room
      <4>1. Len(Tail(queue[w])) = Len(queue[w]) - 1
        BY <2>3, <1>f
      <4> QED BY <4>1, <1>0
    <3>2. \A v \in Workers :
            queue'[v] = queue[v] \/ queue'[v] = Tail(queue[w])
      BY <1>f, <2>3
    <3> QED BY <2>1, <3>1, <3>2
  <2> QED BY <2>1, <2>2, <2>3
<1> QED BY <1>1, <1>2, <1>3, <1>5, <1>6, <1>7
           DEF PoolNext, ClientCall, Terminated

(* t_shutdown joins one thread after the other, and none starts again.     *)
LEMMA JoinStep ==
  ASSUME PoolTypes, ClientInv, JoinInv, [PoolNext]_poolvars
  PROVE  JoinInv'
<1> USE DEF JoinInv, workvars, clientvars
<1>0. N \in Nat /\ \A w : w \in Workers <=> w \in Nat /\ w < N
  BY PoolSizes
<1>1. CASE \/ AddStatic \/ AddDynamic \/ getminidx
           \/ ScanDone \/ enqueue_task \/ t_shutdown
  BY <1>1
     DEF AddStatic, AddDynamic, getminidx, ScanDone, enqueue_task, t_shutdown
<1>2. CASE JoinMentor
  BY <1>0, <1>2 DEF JoinMentor, ClientInv
<1>3. CASE StopFlag \/ StopPush
  BY <1>3 DEF StopFlag, StopPush
<1>4. CASE StopJoin
  <2>1. /\ idx \in Nat /\ idx' = idx + 1 /\ client' = "flag"
        /\ UNCHANGED <<wpc, mpc>> /\ wpc[idx] = "ended" /\ mpc = "ended"
        /\ \A w \in Workers : w < idx => wpc[w] = "ended"
    BY <1>0, <1>4 DEF StopJoin, ClientInv
  <2>2. ASSUME NEW w \in Workers, w < idx + 1
        PROVE  wpc[w] = "ended"
    <3>1. w < idx \/ w = idx
      BY <1>0, <2>1, <2>2
    <3> QED BY <2>1, <3>1
  <2> QED BY <2>1, <2>2
<1>5. CASE StopDone
  BY <1>0, <1>5 DEF StopDone
<1>6. ASSUME NEW v \in Workers, t_task(v)
      PROVE  JoinInv'
  <2>1. UNCHANGED <<client, idx, mpc>>
    BY <1>6
       DEF t_task, WorkerTest, WorkerPop, WorkerRun, WorkerDrain, WorkerEnd
  <2>2. \A w \in Workers : wpc[w] = "ended" => wpc'[w] = "ended"
    BY <1>6
       DEF t_task, WorkerTest, WorkerPop, WorkerRun, WorkerDrain, WorkerEnd,
           PoolTypes
  <2> QED BY <2>1, <2>2
<1>7. CASE adjust_task
  BY <1>7 DEF adjust_task, MentorTest, MentorWake
<1>8. CASE UNCHANGED poolvars
  BY <1>8 DEF poolvars
<1> QED BY <1>1, <1>2, <1>3, <1>4, <1>5, <1>6, <1>7, <1>8
           DEF PoolNext, ClientCall, Terminated

(* So the invariant holds of every reachable state of the pool.            *)
LEMMA PoolInvariance == PoolSpec => []PoolInv
<1>1. PoolInit => PoolInv
  BY PoolInitInv
<1>2. PoolInv /\ [PoolNext]_poolvars => PoolInv'
  BY PoolTypesStep, LoadStep, RowStep, RoomStep, JoinStep DEF PoolInv, RowInv
<1> QED BY <1>1, <1>2, PTL DEF PoolSpec

(* In dynamic mode add_task pushes to a worker whose ring is, at the       *)
(* moment of the push, no longer than any ring was when getminidx read it, *)
(* for any number of workers that keep popping meanwhile.                  *)
THEOREM PoolLeastLoaded == PoolSpec => []LeastLoaded
<1>1. PoolInv => LeastLoaded
  BY DEF PoolInv, LoadInv
<1> QED BY <1>1, PoolInvariance, PTL

(* The element in hand is in front of those in the ring.                   *)
LEMMA RowFront ==
  ASSUME NEW q \in Seq(Nat), NEW h \in Nat, NEW r \in Seq(Numbers),
         NEW a \in Seq(Numbers), NEW b \in BOOLEAN,
         Begins(r, a), Row(q, Len(r) + 1, a, b), Holds(h, r, a)
  PROVE  <<h>> \o q \in Seq(Nat) /\ Row(<<h>> \o q, Len(r), a, b)
<1> DEFINE s == <<h>> \o q
           p == Len(r)
           n == Len(q)
           m == Len(a)
<1>1. /\ s \in Seq(Nat) /\ Len(s) = n + 1 /\ s[1] = h
      /\ \A i \in 2..Len(s) : s[i] = q[i - 1]
  OBVIOUS
<1>2. n \in Nat /\ m \in Nat /\ p \in Nat /\ p <= m
  BY DEF Begins
<1>3. /\ \A i \in 1..n : (p + 1) + i <= m => q[i] = a[(p + 1) + i]
      /\ h = IF p + 1 <= m THEN a[p + 1] ELSE 0
  BY DEF Row, Holds
<1>4. \/ (p + 1) + n = m
      \/ /\ b /\ (p + 1) + n = m + 1
         /\ q # <<>> => q[n] = 0
  BY DEF Row
<1>q. q = <<>> <=> n = 0
  OBVIOUS
<1> HIDE DEF s, p, n, m
<1>5. ASSUME NEW i \in 1..Len(s), p + i <= m
      PROVE  s[i] = a[p + i]
  <2>1. CASE i = 1
    BY <1>1, <1>3, <1>5, <2>1
  <2>2. CASE i # 1
    <3>1. /\ i \in 2..Len(s) /\ i - 1 \in 1..n /\ (p + 1) + (i - 1) = p + i
      BY <1>1, <1>2, <2>2
    <3> QED BY <1>1, <1>3, <1>5, <3>1
  <2> QED BY <2>1, <2>2
<1>6. \/ p + Len(s) = m
      \/ /\ b /\ p + Len(s) = m + 1
         /\ s # <<>> => s[Len(s)] = 0
  <2>1. CASE (p + 1) + n = m
    BY <1>1, <1>2, <2>1
  <2>2. CASE b /\ (p + 1) + n = m + 1 /\ n = 0
    <3>1. p = m /\ h = 0 /\ Len(s) = 1
      BY <1>1, <1>2, <1>3, <2>2
    <3> QED BY <1>1, <1>2, <2>2, <3>1
  <2>3. CASE b /\ (p + 1) + n = m + 1 /\ q[n] = 0 /\ n # 0
    <3>1. Len(s) \in 2..Len(s) /\ Len(s) - 1 = n /\ p + Len(s) = m + 1
      BY <1>1, <1>2, <2>3
    <3> QED BY <1>1, <2>3, <3>1
  <2> QED BY <1>4, <1>q, <2>1, <2>2, <2>3
<1>7. Row(s, p, a, b)
  BY <1>5, <1>6 DEF Row, m
<1> QED BY <1>1, <1>7 DEF s, p

(* Without the empty task at its end a row is the rest of the tasks.       *)
LEMMA RealRow ==
  ASSUME NEW s \in Seq(Nat), NEW p \in Nat, NEW a \in Seq(Numbers),
         NEW b \in BOOLEAN, Row(s, p, a, b), p <= Len(a)
  PROVE  /\ Real(s) \in Seq(Nat) /\ p + Len(Real(s)) = Len(a)
         /\ \A i \in 1..Len(Real(s)) : Real(s)[i] = a[p + i]
<1> DEFINE n == Len(s)
           m == Len(a)
<1>1. n \in Nat /\ m \in Nat /\ \A i \in 1..m : a[i] # 0
  BY DEF Numbers, Nop
<1>2. \A i \in 1..n : p + i <= m => s[i] = a[p + i]
  BY DEF Row
<1>3. CASE p + n = m
  <2>1. \A i \in 1..n : p + i <= m /\ p + i \in 1..m
    BY ONLY <1>1, <1>3, p \in Nat
  <2>2. s # <<>> => n \in 1..n
    OBVIOUS
  <2>3. Real(s) = s
    BY <1>1, <1>2, <2>1, <2>2 DEF Real, Nop
  <2> QED BY <1>2, <1>3, <2>1, <2>3
<1>4. CASE p + n # m
  <2>1. /\ p + n = m + 1
        /\ s # <<>> => s[n] = 0
    BY <1>4 DEF Row
  <2>2. n \in 1..n
    BY ONLY <1>1, <2>1, p \in Nat, p <= m
  <2>3. Real(s) = SubSeq(s, 1, n - 1)
    BY <2>1, <2>2 DEF Real, Nop
  <2>4. /\ SubSeq(s, 1, n - 1) \in Seq(Nat) /\ Len(SubSeq(s, 1, n - 1)) = n - 1
        /\ \A i \in 1..(n - 1) : SubSeq(s, 1, n - 1)[i] = s[i]
    <3> DEFINE k == n - 1
    <3>1. k \in Nat /\ k <= Len(s)
      BY <1>1, <2>2
    <3> HIDE DEF k
    <3>2. /\ SubSeq(s, 1, k) \in Seq(Nat) /\ Len(SubSeq(s, 1, k)) = k
          /\ \A i \in 1..k : SubSeq(s, 1, k)[i] = s[i]
      BY <3>1
    <3> QED BY <3>2 DEF k
  <2>5. \A i \in 1..(n - 1) : i \in 1..n /\ p + i <= m
    BY ONLY <1>1, <2>1, p \in Nat
  <2>6. p + (n - 1) = m
    BY ONLY <1>1, <2>1, p \in Nat
  <2> QED BY <1>2, <2>3, <2>4, <2>5, <2>6
<1> QED BY <1>3, <1>4

(* The tasks that were run and the rest are all tasks.                     *)
LEMMA Joined ==
  ASSUME NEW r \in Seq(Numbers), NEW s \in Seq(Nat), NEW a \in Seq(Numbers),
         Begins(r, a), Len(r) + Len(s) = Len(a),
         \A i \in 1..Len(s) : s[i] = a[Len(r) + i]
  PROVE  r \o s = a
<1> DEFINE c == r \o s
<1>1. /\ c \in Seq(Nat) /\ Len(c) = Len(a)
      /\ \A i \in 1..Len(c) :
           c[i] = IF i <= Len(r) THEN r[i] ELSE s[i - Len(r)]
  BY DEF Numbers
<1>2. /\ Len(r) \in Nat /\ Len(s) \in Nat /\ Len(a) \in Nat
      /\ Len(r) + Len(s) = Len(a)
  OBVIOUS
<1> HIDE DEF c
<1>3. ASSUME NEW i \in 1..Len(a)
      PROVE  c[i] = a[i]
  <2>1. CASE i <= Len(r)
    BY <1>1, <1>2, <2>1 DEF Begins
  <2>2. CASE ~(i <= Len(r))
    <3>1. i - Len(r) \in 1..Len(s) /\ Len(r) + (i - Len(r)) = i
      BY ONLY <1>2, <2>2, i \in 1..Len(a)
    <3> QED BY <1>1, <2>2, <3>1
  <2> QED BY <2>1, <2>2
<1>4. a \in Seq(Nat)
  BY DEF Numbers
<1>5. c = a
  BY <1>1, <1>3, <1>4, SeqEqual
<1> QED BY <1>5 DEF c

(* For any number of workers, any room in the rings and any number of      *)
(* tasks: a worker runs the tasks its ring has accepted, each once and in  *)
(* the order of add_task, and until it leaves its loop none is missing.    *)
THEOREM PoolRunsOnceInOrder == PoolSpec => []RunOnceInOrder
<1>1. PoolInv => RunOnceInOrder
  <2> SUFFICES ASSUME PoolInv, NEW w \in Workers
               PROVE  /\ wpc[w] \notin {"drain", "ended"} =>
                           ran[w] \o Real(InHand(w) \o queue[w])
                             = assigned[w]
                      /\ Len(ran[w]) <= Len(assigned[w])
                      /\ ran[w] = SubSeq(assigned[w], 1, Len(ran[w]))
    BY DEF RunOnceInOrder
  <2> DEFINE q == queue[w]
             r == ran[w]
             a == assigned[w]
             h == hand[w]
             s == InHand(w) \o q
  <2>1. /\ q \in Seq(Nat) /\ r \in Seq(Numbers) /\ a \in Seq(Numbers)
        /\ h \in Nat /\ wpc[w] \in {"test", "pop", "run", "drain", "ended"}
    BY DEF PoolInv, PoolTypes
  <2>2. /\ Begins(r, a)
        /\ Looping(w) => Row(q, Taken(w), a, Woken(w))
        /\ wpc[w] = "run" => Holds(h, r, a)
    BY DEF PoolInv, RowInv, RowOf
  <2>3. Woken(w) \in BOOLEAN
    BY DEF Woken
  <2>4. ASSUME Looping(w)
        PROVE  s \in Seq(Nat) /\ Row(s, Len(r), a, Woken(w))
    <3>1. CASE wpc[w] = "run"
      <4>1. Taken(w) = Len(r) + 1 /\ s = <<h>> \o q
        BY <3>1 DEF Taken, InHand
      <4>2. Row(q, Len(r) + 1, a, Woken(w)) /\ Holds(h, r, a)
        BY <2>2, <2>4, <3>1, <4>1
      <4>3. <<h>> \o q \in Seq(Nat) /\ Row(<<h>> \o q, Len(r), a, Woken(w))
        BY ONLY <2>1, <2>2, <2>3, <4>2, RowFront
      <4> QED BY ONLY <4>1, <4>3
    <3>2. CASE wpc[w] # "run"
      <4>1. Taken(w) = Len(r) + 0 /\ s = <<>> \o q
        BY <3>2 DEF Taken, InHand
      <4>2. Len(r) + 0 = Len(r) /\ <<>> \o q = q
        BY <2>1
      <4> QED BY <2>1, <2>2, <2>4, <4>1, <4>2
    <3> QED BY <3>1, <3>2
  <2>5. ASSUME Looping(w)
        PROVE  r \o Real(s) = a
    <3>1. Len(r) \in Nat /\ Len(r) <= Len(a)
      BY <2>1, <2>2 DEF Begins
    <3>2. s \in Seq(Nat) /\ Row(s, Len(r), a, Woken(w))
      BY <2>4, <2>5
    <3> HIDE DEF s, r, a
    <3>3. /\ Real(s) \in Seq(Nat) /\ Len(r) + Len(Real(s)) = Len(a)
          /\ \A i \in 1..Len(Real(s)) : Real(s)[i] = a[Len(r) + i]
      BY ONLY <2>1, <2>3, <3>1, <3>2, RealRow
    <3> QED BY ONLY <2>1, <2>2, <3>3, Joined
  <2>6. Len(r) <= Len(a) /\ r = SubSeq(a, 1, Len(r))
    <3>1. Len(r) <= Len(a) /\ \A i \in 1..Len(r) : r[i] = a[i]
      BY <2>2 DEF Begins
    <3> HIDE DEF r, a
    <3> QED BY <2>1, <3>1
  <2>7. wpc[w] \notin {"drain", "ended"} => Looping(w)
    BY <2>1 DEF Looping
  <2> QED BY ONLY <2>5, <2>6, <2>7
<1> QED BY <1>1, PoolInvariance, PTL

(* In dynamic mode a task that enqueue_task refuses found every ring full  *)
(* when getminidx looked at it.                                            *)
RefusedWhenFull ==
  client = "enqueue" /\ mode = "Dynamic" /\ Full(idx)
    => \A w \in Workers : seen[w] = Room

(* add_task returns false in dynamic mode only if every ring was full when *)
(* its load was read.                                                      *)
THEOREM PoolRefusesWhenFull == PoolSpec => []RefusedWhenFull
<1>1. PoolInv => RefusedWhenFull
  <2> SUFFICES ASSUME PoolInv, client = "enqueue", mode = "Dynamic",
                      Full(idx), NEW w \in Workers
               PROVE  seen[w] = Room
    BY DEF RefusedWhenFull
  <2>1. Room <= seen[w] /\ seen[w] <= Room
    BY DEF PoolInv, LoadInv, LeastLoaded, Full, RoomInv
  <2>2. Room \in Nat /\ seen[w] \in Nat
    BY PoolSizes DEF PoolInv, PoolTypes
  <2> QED BY ONLY <2>1, <2>2
<1> QED BY <1>1, PoolInvariance, PTL

(* When t_shutdown returns, every thread of the pool has ended.            *)
AllJoined ==
  client = "down" => mpc = "ended" /\ \A w \in Workers : wpc[w] = "ended"

(* lfthreadpool::t_shutdown returns only when the mentor and every worker  *)
(* have ended, so ~lfthreadpool deletes no thread that still runs.         *)
THEOREM PoolJoinsAll == PoolSpec => []AllJoined
<1>1. PoolInv => AllJoined
  BY DEF PoolInv, JoinInv, AllJoined
<1> QED BY <1>1, PoolInvariance, PTL
=============================================================================
