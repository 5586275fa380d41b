---------------------------- MODULE BfEventProofs ----------------------------
(***************************************************************************)
(* The safety of a connection for every size of the socket's buffer and of *)
(* the messages: nothing that arrives is lost or reordered, and neither    *)
(* arrived nor queued bytes are forgotten by an edge triggered loop.       *)
(***************************************************************************)
EXTENDS BfEvent, SequenceTheorems, TLAPS

(* What handle_cb was doing when the user's code, and sendout, took over.  *)
Frame == IF pc \in {"writev", "queue"} THEN back ELSE pc

(* The types of what the argument is about.                                *)
Types ==
  /\ pc \in UserRuns \cup {"writev", "queue", "read", "write", "closed"}
  /\ back \in UserRuns /\ data \in Seq(Nat) /\ n \in Int
  /\ wpart \in BOOLEAN /\ nospace \in BOOLEAN /\ epollout \in BOOLEAN
  /\ epollin \in BOOLEAN /\ edge \in BOOLEAN /\ broken \in BOOLEAN
  /\ outbuff \in Seq(Nat) /\ given \in Nat
  /\ sockout \in Seq(Nat) /\ Len(sockout) <= SndBuf
  /\ inbuff \in Seq(Nat) /\ received \in Seq(Nat) /\ sockin \in Seq(Nat)
  /\ arrived \in Nat

(* Outside handle_read, bytes of a connection that is to be read are       *)
(* known to epoll.                                                         *)
ReadDue ==
  Frame \in {"idle", "write", "writecb"} /\ ~edge /\ epollin => sockin = <<>>

(* Bytes are queued, or are about to be without a call of update_ep.       *)
Queued == outbuff # <<>> \/ (pc = "queue" /\ epollout)

(* EPOLLOUT is on while bytes are queued.                                  *)
Armed == outbuff # <<>> => epollout

(* Queued bytes and a full socket: somebody found it full, so the kernel   *)
(* tells epoll when that changes.                                          *)
ToldOfSpace == (outbuff # <<>> \/ pc = "queue") /\ Space = 0 => nospace

(* Outside handle_write, space for queued bytes is known to epoll or       *)
(* handle_write is still due.                                              *)
WriteDue ==
  Queued /\ ~broken =>
    /\ Frame = "idle" => edge \/ Space = 0
    /\ Frame \in {"read", "readcb"} => edge \/ Space = 0 \/ wpart

(* The inductive invariant, beside InboundInOrder.                         *)
Told == Types /\ ReadDue /\ Armed /\ ToldOfSpace /\ WriteDue

-----------------------------------------------------------------------------
(* A sequence cut behind its m-th element.                                 *)
LEMMA Cut ==
  ASSUME NEW S, NEW s \in Seq(S), NEW m \in 0..Len(s)
  PROVE  /\ SubSeq(s, 1, m) \in Seq(S) /\ Len(SubSeq(s, 1, m)) = m
         /\ From(s, m + 1) \in Seq(S)
         /\ SubSeq(s, 1, m) \o From(s, m + 1) = s
         /\ m = Len(s) => From(s, m + 1) = <<>>
<1> DEFINE l == Len(s)
<1>1. /\ l \in Nat /\ m \in Nat
      /\ 1 \in 1..(l + 1) /\ m \in (1 - 1)..l /\ l \in m..l
  BY LenProperties
<1>2. \A j \in 1..l : s[j] \in S
  BY ElementOfSeq
<1> HIDE DEF l
<1>3. SubSeq(s, 1, m) \in Seq(S) /\ Len(SubSeq(s, 1, m)) = m
  BY <1>1, <1>2, SubSeqProperties
<1>4. SubSeq(s, m + 1, l) \in Seq(S)
  BY <1>1, <1>2, SubSeqProperties
<1>5. SubSeq(s, 1, m) \o SubSeq(s, m + 1, l) = SubSeq(s, 1, l)
  BY <1>1, ConcatAdjacentSubSeq, Zenon DEF l
<1>6. SubSeq(s, 1, l) = s
  BY SubSeqFull DEF l
<1>7. m = l => SubSeq(s, m + 1, l) = <<>>
  BY <1>1, SubSeqEmpty
<1> QED BY <1>3, <1>4, <1>5, <1>6, <1>7 DEF l, From

(* Three sequences over S, and that concatenation is associative.          *)
Triple(S, a, b, c) == a \in Seq(S) /\ b \in Seq(S) /\ c \in Seq(S)

(* Concatenations may be bracketed in another way.                         *)
LEMMA Assoc ==
  ASSUME NEW S, NEW a, NEW b, NEW c, Triple(S, a, b, c)
  PROVE  (a \o b) \o c = a \o (b \o c)
  BY ConcatAssociative DEF Triple

(* Three sequences in a row.                                               *)
Whole(a, b, c) == (a \o b) \o c

(* Moving the front of the third of three sequences to the second, or of   *)
(* the second to the first, leaves the whole as it is.                     *)
LEMMA MoveFront ==
  ASSUME NEW S, NEW a, NEW b, NEW c, Triple(S, a, b, c), NEW m \in 0..Len(c)
  PROVE  Whole(a, b \o SubSeq(c, 1, m), From(c, m + 1)) = Whole(a, b, c)
<1>0. a \in Seq(S) /\ b \in Seq(S) /\ c \in Seq(S)
  BY DEF Triple
<1> DEFINE h == SubSeq(c, 1, m)
           r == From(c, m + 1)
           d == a \o b
<1>1. h \in Seq(S) /\ r \in Seq(S) /\ d \in Seq(S)
  BY <1>0, Cut, ConcatProperties
<1>2. h \o r = c
  BY <1>0, Cut
<1> HIDE DEF h, r
<1>3. d \o h = a \o (b \o h)
  <2>1. Triple(S, a, b, h)
    BY <1>0, <1>1 DEF Triple
  <2> QED BY <2>1, Assoc
<1> HIDE DEF d
<1>4. (d \o h) \o r = d \o (h \o r)
  <2>1. Triple(S, d, h, r)
    BY <1>0, <1>1 DEF Triple
  <2> QED BY <2>1, Assoc
<1>5. (a \o (b \o h)) \o r = d \o c
  BY <1>2, <1>3, <1>4, Zenon
<1> QED BY <1>5, Zenon DEF h, r, d, Whole

(* The first m bytes of the middle part may be counted with the first.     *)
LEMMA MoveFirst ==
  ASSUME NEW S, NEW a, NEW b, NEW c, Triple(S, a, b, c), NEW m \in 0..Len(b)
  PROVE  Whole(a \o SubSeq(b, 1, m), From(b, m + 1), c) = Whole(a, b, c)
<1>0. a \in Seq(S) /\ b \in Seq(S) /\ c \in Seq(S)
  BY DEF Triple
<1> DEFINE h == SubSeq(b, 1, m)
           r == From(b, m + 1)
<1>1. h \in Seq(S) /\ r \in Seq(S)
  BY <1>0, Cut
<1>2. h \o r = b
  BY <1>0, Cut
<1> HIDE DEF h, r
<1>3. (a \o h) \o r = a \o (h \o r)
  <2>1. Triple(S, a, h, r)
    BY <1>0, <1>1 DEF Triple
  <2> QED BY <2>1, Assoc
<1>4. ((a \o h) \o r) \o c = (a \o b) \o c
  BY <1>2, <1>3, Zenon
<1> QED BY <1>4, Zenon DEF h, r, Whole

(* A byte more at the end of the third.                                    *)
LEMMA OneMore ==
  ASSUME NEW a \in Seq(Nat), NEW b \in Seq(Nat), NEW c \in Seq(Nat),
         NEW k \in Nat
  PROVE  (a \o b) \o c = Counting(k) =>
           (a \o b) \o Append(c, k + 1) = Counting(k + 1)
<1> DEFINE d == a \o b
           e == <<k + 1>>
           f == Counting(k)
<1>1. d \in Seq(Nat) /\ k + 1 \in Nat /\ e \in Seq(Nat)
  BY ConcatProperties
<1>2. Append(c, k + 1) = c \o e
  BY <1>1, AppendIsConcat
<1>3. f \in Seq(Nat) /\ Append(f, k + 1) = Counting(k + 1)
  BY DEF Counting
<1> HIDE DEF d, f
<1>4. f \o e = Append(f, k + 1)
  BY <1>1, <1>3, AppendIsConcat
<1> HIDE DEF e
<1>5. (d \o c) \o e = d \o (c \o e)
  <2>1. Triple(Nat, d, c, e)
    BY <1>1 DEF Triple
  <2> QED BY ONLY <2>1, Assoc
<1>6. d \o c = f => d \o Append(c, k + 1) = Counting(k + 1)
  BY <1>2, <1>3, <1>4, <1>5, Zenon
<1> QED BY <1>6, Zenon DEF d, f

-----------------------------------------------------------------------------
(* The send buffer holds what fits.                                        *)
LEMMA SpaceType ==
  ASSUME Types
  PROVE  Space \in Nat /\ Len(sockout) \in Nat
  BY BfEventAssumption, LenProperties DEF Types, Space

(* write and writev: m bytes less of space, and a short count is noted.    *)
LEMMA WrittenFits ==
  ASSUME Types, NEW s \in Seq(Nat), NEW m \in 0..Len(s), m <= Space,
         Written(s, m)
  PROVE  /\ sockout' \in Seq(Nat) /\ Len(sockout') <= SndBuf
         /\ Space' = Space - m
         /\ nospace' \in BOOLEAN /\ nospace' = (nospace \/ m < Len(s))
<1> DEFINE h == SubSeq(s, 1, m)
<1>1. h \in Seq(Nat) /\ Len(h) = m
  BY Cut
<1> HIDE DEF h
<1>2. sockout' = sockout \o h /\ nospace' = (nospace \/ m < Len(s))
  BY DEF Written, h
<1>3. sockout' \in Seq(Nat) /\ Len(sockout') = Len(sockout) + m
  BY <1>1, <1>2, ConcatProperties DEF Types
<1> QED BY <1>2, <1>3, SpaceType, BfEventAssumption DEF Types, Space

(* A message has the length that sendout was given.                        *)
LEMMA MessageSeq ==
  ASSUME Types, NEW k \in Nat
  PROVE  Message(k) \in Seq(Nat) /\ Len(Message(k)) = k
  BY DEF Types, Message

(* So have the bytes that sendout reads from data at an offset.            *)
LEMMA BytesAtSeq ==
  ASSUME Types, NEW offset \in Int, NEW less \in 0..Len(data)
  PROVE  /\ BytesAt(offset, less) \in Seq(Nat)
         /\ Len(BytesAt(offset, less)) = Len(data) - less
<1>1. Len(data) \in Nat /\ \A j \in 1..Len(data) : data[j] \in Nat
  BY LenProperties, ElementOfSeq DEF Types
<1> QED BY <1>1 DEF BytesAt, Junk

-----------------------------------------------------------------------------
(* The bytes on their way to the user stay in order.                       *)
LEMMA InboundStep ==
  ASSUME Types, InboundInOrder, [Next]_vars
  PROVE  InboundInOrder'
<1> USE DEF outvars, invars, callvars, setvars
<1>1. received \in Seq(Nat) /\ inbuff \in Seq(Nat) /\ sockin \in Seq(Nat)
  BY DEF Types
<1>t. Triple(Nat, received, inbuff, sockin)
  BY <1>1 DEF Triple
<1>2. CASE PeerSends
  <2>1. /\ arrived' = arrived + 1 /\ sockin' = Append(sockin, arrived + 1)
        /\ UNCHANGED <<received, inbuff>> /\ arrived \in Nat
    BY <1>2 DEF PeerSends, Types
  <2> QED BY <2>1, <1>1, OneMore, Zenon DEF InboundInOrder
<1>3. CASE ReadSome
  <2>1. PICK m \in 1..Len(sockin) :
          /\ inbuff' = inbuff \o SubSeq(sockin, 1, m)
          /\ sockin' = From(sockin, m + 1)
    BY <1>3 DEF ReadSome
  <2>2. UNCHANGED <<received, arrived>>
    BY <1>3 DEF ReadSome
  <2>3. m \in 0..Len(sockin)
    BY <1>1, LenProperties
  <2>4. Whole(received, inbuff \o SubSeq(sockin, 1, m), From(sockin, m + 1))
          = Whole(received, inbuff, sockin)
    BY ONLY <1>t, <2>3, MoveFront
  <2> QED BY <2>1, <2>2, <2>4, Zenon DEF InboundInOrder, Whole
<1>4. ASSUME NEW len \in 1..MaxIn, receive(len)
      PROVE  InboundInOrder'
  <2>1. /\ received' = received \o SubSeq(inbuff, 1, len)
        /\ inbuff' = From(inbuff, len + 1) /\ UNCHANGED <<sockin, arrived>>
        /\ len \in 0..Len(inbuff)
    BY <1>4, BfEventAssumption DEF receive
  <2>2. Whole(received \o SubSeq(inbuff, 1, len), From(inbuff, len + 1),
              sockin)
          = Whole(received, inbuff, sockin)
    BY ONLY <1>t, <2>1, MoveFirst
  <2> QED BY <2>1, <2>2, Zenon DEF InboundInOrder, Whole
<1>5. CASE UNCHANGED <<received, inbuff, sockin, arrived>>
  BY <1>5, Zenon DEF InboundInOrder
<1>6. \/ PeerSends \/ ReadSome \/ \E len \in 1..MaxIn : receive(len)
      \/ UNCHANGED <<received, inbuff, sockin, arrived>>
  BY DEF Next, vars, PeerReads, PeerBreaks, sendout, SendDirect, SendBlocked,
         SendFails, SendVec, SendVecFails, SendQueue, enable_read,
         disable_read, setcb, handle_cb, Dispatch, ReadReturn, ReadEnd,
         WriteSome, WriteReturn, WriteBlocked, WriteEnd, Fail, Closed
<1> QED BY <1>2, <1>3, <1>4, <1>5, <1>6

(* No step of the loop, the user, the kernel or the peer makes epoll miss  *)
(* bytes or space.                                                         *)
LEMMA ToldStep ==
  ASSUME Told, [Next]_vars
  PROVE  Told'
<1>a. Types /\ Space \in Nat /\ Len(sockout) \in Nat /\ SndBuf \in Nat
  BY SpaceType, BfEventAssumption DEF Told
<1>b. /\ data \in Seq(Nat) /\ outbuff \in Seq(Nat) /\ sockout \in Seq(Nat)
      /\ inbuff \in Seq(Nat) /\ received \in Seq(Nat) /\ sockin \in Seq(Nat)
      /\ given \in Nat /\ arrived \in Nat /\ n \in Int
      /\ Len(sockout) <= SndBuf
  BY DEF Told, Types
<1>c. Len(outbuff) \in Nat /\ Len(data) \in Nat
  BY <1>b, LenProperties
<1> USE BfEventAssumption
    DEF Told, Types, Frame, ReadDue, Queued, Armed, ToldOfSpace, WriteDue,
        UserRuns, Ready, outvars, invars, callvars, setvars
<1>1. ASSUME PeerReads PROVE Told'
  <2>1. /\ sockout' = Tail(sockout) /\ sockout # <<>> /\ nospace' = FALSE
        /\ edge' = (edge \/ (nospace /\ epollout))
        /\ UNCHANGED <<pc, callvars, wpart, outbuff, given, epollout, invars,
                       broken>>
    BY <1>1 DEF PeerReads
  <2>2. sockout' \in Seq(Nat) /\ Len(sockout') = Len(sockout) - 1
    BY ONLY <1>b, <2>1, HeadTailProperties
  <2>3. Space' > 0 /\ Len(sockout') <= SndBuf
    BY ONLY <1>a, <1>b, <2>2 DEF Space
  <2>4. Types'
    BY <1>b, <2>1, <2>2, <2>3
  <2>5. ReadDue' /\ Armed' /\ ToldOfSpace'
    BY <2>1, <2>3
  <2>6. WriteDue'
    <3>1. Queued /\ Space = 0 => edge'
      BY <2>1
    <3> QED BY <3>1, <2>1
  <2> QED BY <2>4, <2>5, <2>6
<1>2. ASSUME PeerSends PROVE Told'
  <2>0. sockin' = Append(sockin, arrived + 1) /\ arrived' = arrived + 1
    BY <1>2 DEF PeerSends
  <2>1. sockin' \in Seq(Nat) /\ arrived' \in Nat
    BY ONLY <2>0, <1>b, AppendProperties
  <2> QED BY <2>1, <1>2 DEF PeerSends, Space
<1>3. ASSUME PeerBreaks PROVE Told'
  BY <1>3 DEF PeerBreaks, Space
<1>4. ASSUME NEW k \in 1..MaxMsg, SendDirect(k) PROVE Told'
  <2>1. /\ pc \in UserRuns /\ outbuff = <<>> /\ given' = given + k
        /\ Written(Message(k), Least(k, Space))
        /\ UNCHANGED <<pc, callvars, wpart, outbuff, wire, epollout, invars,
                       edge, broken>>
    BY <1>4 DEF SendDirect
  <2>2. /\ Message(k) \in Seq(Nat) /\ Least(k, Space) \in 0..Len(Message(k))
        /\ Least(k, Space) <= Space
    <3>0. k \in Nat
      OBVIOUS
    <3>1. Message(k) \in Seq(Nat) /\ Len(Message(k)) = k
      BY ONLY <3>0, <1>a, MessageSeq
    <3> QED BY ONLY <3>0, <3>1, <1>a DEF Least
  <2>3. /\ sockout' \in Seq(Nat) /\ Len(sockout') <= SndBuf
        /\ nospace' \in BOOLEAN
    BY ONLY <1>a, <2>1, <2>2, WrittenFits
  <2> QED BY <1>b, <2>1, <2>3
<1>5. ASSUME NEW k \in 1..MaxMsg, SendBlocked(k) PROVE Told'
  <2>1. Message(k) \in Seq(Nat)
    BY <1>a, MessageSeq
  <2> QED BY <2>1, <1>5 DEF SendBlocked, Space
<1>6. ASSUME NEW k \in 1..MaxMsg, SendFails(k) PROVE Told'
  BY <1>6 DEF SendFails, Space
<1>7. ASSUME SendVec PROVE Told'
  <2> DEFINE wbytes == Len(outbuff)
             all == outbuff \o BytesAt(n, 0)
             wvn == Least(Len(all), Space)
             rest == BytesAt(n + wvn - wbytes, wvn - wbytes)
  <2>1. /\ pc = "writev" /\ Written(all, wvn)
        /\ IF wvn = Len(all)
           THEN outbuff' = <<>> /\ pc' = back /\ data' = <<>>
           ELSE IF wvn < wbytes
           THEN /\ outbuff' = From(outbuff, wvn + 1) /\ pc' = "queue"
                /\ UNCHANGED data
           ELSE outbuff' = <<>> /\ pc' = "queue" /\ data' = rest
        /\ UNCHANGED <<back, n, wpart, given, wire, epollout, invars, edge,
                       broken>>
    BY <1>7, Zenon DEF SendVec
  <2>2. all \in Seq(Nat) /\ Len(all) = wbytes + Len(data) /\ wbytes \in Nat
        /\ Len(data) \in Nat
    <3>1. 0 \in 0..Len(data) /\ Len(data) - 0 = Len(data)
      BY ONLY <1>c
    <3>2. BytesAt(n, 0) \in Seq(Nat) /\ Len(BytesAt(n, 0)) = Len(data)
      BY ONLY <3>1, <1>a, <1>b, BytesAtSeq
    <3> DEFINE tail == BytesAt(n, 0)
    <3> HIDE DEF tail
    <3>3. tail \in Seq(Nat) /\ Len(tail) = Len(data)
      BY ONLY <3>2 DEF tail
    <3>4. outbuff \o tail \in Seq(Nat)
          /\ Len(outbuff \o tail) = Len(outbuff) + Len(tail)
      BY ONLY <3>3, <1>b, ConcatProperties
    <3> QED BY ONLY <3>3, <3>4, <1>c DEF tail
  <2> HIDE DEF all
  <2>3. wvn \in 0..Len(all) /\ wvn <= Space /\ (wvn < Len(all) => wvn = Space)
    BY ONLY <1>a, <2>2 DEF Least
  <2> HIDE DEF wvn
  <2>4. /\ sockout' \in Seq(Nat) /\ Len(sockout') <= SndBuf
        /\ Space' = Space - wvn
        /\ nospace' \in BOOLEAN /\ nospace' = (nospace \/ wvn < Len(all))
    BY ONLY <1>a, <2>1, <2>2, <2>3, WrittenFits
  <2>5. wvn < wbytes => outbuff # <<>> /\ From(outbuff, wvn + 1) \in Seq(Nat)
    <3>1. wbytes = 0 <=> outbuff = <<>>
      BY ONLY <1>b, EmptySeq
    <3> QED BY ONLY <3>1, <2>2, <2>3, <1>b, Cut
  <2>6. wvn < Len(all) /\ ~(wvn < wbytes) => rest \in Seq(Nat)
    BY ONLY <2>2, <2>3, <1>a, <1>b, BytesAtSeq
  <2> HIDE DEF wbytes, rest
  <2>7. <<>> \in Seq(Nat)
    BY EmptySeq
  <2>8. CASE wvn = Len(all)
    BY <2>1, <2>4, <2>7, <2>8
  <2>9. CASE wvn < Len(all)
    <3>0. Space' = 0 /\ pc' = "queue"
      BY ONLY <1>a, <2>1, <2>2, <2>3, <2>4, <2>9
    <3>1. nospace'
      BY ONLY <2>4, <2>9
    <3>2. outbuff' \in Seq(Nat) /\ data' \in Seq(Nat)
          /\ (outbuff' # <<>> => outbuff # <<>>)
      BY ONLY <1>b, <2>1, <2>2, <2>3, <2>5, <2>6, <2>7, <2>9
    <3> QED BY <3>0, <3>1, <3>2, <2>1, <2>4
  <2> QED BY ONLY <2>2, <2>3, <2>8, <2>9
<1>8. ASSUME SendVecFails PROVE Told'
  BY <1>8 DEF SendVecFails, Space
<1>9. ASSUME SendQueue PROVE Told'
  <2>1. outbuff' \in Seq(Nat) /\ <<>> \in Seq(Nat)
    <3>1. outbuff' = outbuff \o data
      BY <1>9 DEF SendQueue
    <3> QED BY ONLY <3>1, <1>b, ConcatProperties, EmptySeq
  <2>2. /\ pc = "queue" /\ pc' = back /\ data' = <<>> /\ epollout'
        /\ UNCHANGED <<back, n, wpart, given, sockout, wire, nospace, invars,
                       broken>>
        /\ edge' \in BOOLEAN /\ (edge => edge')
        /\ ~epollout /\ Space > 0 => edge'
        /\ epollout' \in BOOLEAN
    BY <1>9 DEF SendQueue, update_ep
  <2>3. Space' = Space
    BY <2>2 DEF Space
  <2>4. Types'
    BY <1>b, <2>1, <2>2
  <2>5. ReadDue' /\ Armed' /\ ToldOfSpace'
    BY <2>2, <2>3
  <2>6. WriteDue'
    BY <1>a, <2>2, <2>3
  <2> QED BY <2>4, <2>5, <2>6
<1>10. ASSUME NEW len \in 1..MaxIn, receive(len) PROVE Told'
  <2>1. received' \in Seq(Nat) /\ inbuff' \in Seq(Nat)
    <3>1. /\ received' = received \o SubSeq(inbuff, 1, len)
          /\ inbuff' = From(inbuff, len + 1) /\ len \in 0..Len(inbuff)
      BY <1>10 DEF receive
    <3> QED BY ONLY <3>1, <1>b, Cut, ConcatProperties
  <2> QED BY <2>1, <1>10 DEF receive, Space
<1>11. ASSUME enable_read PROVE Told'
  BY <1>11 DEF enable_read, Space
<1>12. ASSUME disable_read PROVE Told'
  BY <1>12 DEF disable_read, Space
<1>13. ASSUME setcb PROVE Told'
  BY <1>13 DEF setcb, Space
<1>14. ASSUME Dispatch PROVE Told'
  <2>1. /\ pc = "idle" /\ edge' = FALSE
        /\ wpart' = (epollout /\ (Space > 0 \/ broken))
        /\ pc' \in IF Ready(epollin, FALSE) THEN {"read"}
                   ELSE IF wpart' THEN {"write"}
                   ELSE IF broken THEN {"idle", "closed"} ELSE {"idle"}
        /\ UNCHANGED <<callvars, outvars, invars, broken>>
    BY <1>14 DEF Dispatch
  <2>2. Space' = Space
    BY <2>1 DEF Space
  <2>3. wpart' \in BOOLEAN
    BY <2>1
  <2>4. Types'
    BY <1>b, <2>1, <2>3
  <2>5. ReadDue' /\ Armed' /\ ToldOfSpace'
    BY <2>1, <2>2
  <2>6. WriteDue'
    <3>1. outbuff # <<>> /\ ~broken /\ ~wpart' => Space = 0
      BY <1>a, <2>1
    <3> QED BY <3>1, <2>1, <2>2
  <2> QED BY <2>4, <2>5, <2>6
<1>15. ASSUME ReadSome PROVE Told'
  <2>1. inbuff' \in Seq(Nat) /\ sockin' \in Seq(Nat)
    <3>1. PICK m \in 1..Len(sockin) :
            /\ inbuff' = inbuff \o SubSeq(sockin, 1, m)
            /\ sockin' = From(sockin, m + 1)
      BY <1>15 DEF ReadSome
    <3>2. m \in 0..Len(sockin)
      BY <1>b, LenProperties
    <3> QED BY ONLY <3>1, <3>2, <1>b, Cut, ConcatProperties
  <2> QED BY <2>1, <1>15 DEF ReadSome, Space
<1>16. ASSUME ReadReturn PROVE Told'
  BY <1>16 DEF ReadReturn, Space
<1>17. ASSUME ReadEnd PROVE Told'
  BY <1>17 DEF ReadEnd, Space
<1>18. ASSUME Fail PROVE Told'
  BY <1>18 DEF Fail, Space
<1>19. ASSUME WriteSome PROVE Told'
  <2> DEFINE m == Least(Len(outbuff), Space)
  <2>1. /\ pc = "write" /\ outbuff # <<>> /\ Written(outbuff, m)
        /\ outbuff' = From(outbuff, m + 1) /\ pc' = "writecb"
        /\ UNCHANGED <<callvars, wpart, given, wire, epollout, invars, edge,
                       broken>>
    BY <1>19 DEF WriteSome
  <2>2. /\ Len(outbuff) \in Nat /\ m \in 0..Len(outbuff) /\ m <= Space
        /\ m # Len(outbuff) => m = Space /\ m < Len(outbuff)
    BY ONLY <1>a, <1>c DEF Least
  <2> HIDE DEF m
  <2>3. /\ sockout' \in Seq(Nat) /\ Len(sockout') <= SndBuf
        /\ Space' = Space - m
        /\ nospace' \in BOOLEAN /\ nospace' = (nospace \/ m < Len(outbuff))
    BY ONLY <1>a, <1>b, <2>1, <2>2, WrittenFits
  <2>4. outbuff' \in Seq(Nat) /\ (m = Len(outbuff) => outbuff' = <<>>)
    BY ONLY <1>b, <2>1, <2>2, Cut
  <2>5. outbuff' # <<>> => nospace'
    BY ONLY <2>2, <2>3, <2>4
  <2> QED BY <2>1, <2>3, <2>4, <2>5
<1>20. ASSUME WriteReturn PROVE Told'
  BY <1>20 DEF WriteReturn, Space
<1>21. ASSUME WriteBlocked PROVE Told'
  BY <1>21 DEF WriteBlocked, Space
<1>22. ASSUME WriteEnd PROVE Told'
  BY <1>22 DEF WriteEnd, update_ep, Space
<1>23. ASSUME UNCHANGED vars PROVE Told'
  BY <1>23 DEF vars, Space
<1> HIDE DEF Told
<1> QED BY <1>1, <1>2, <1>3, <1>4, <1>5, <1>6, <1>7, <1>8, <1>9, <1>10,
       <1>11, <1>12, <1>13, <1>14, <1>15, <1>16, <1>17, <1>18, <1>19,
       <1>20, <1>21, <1>22, <1>23
    DEF Next, sendout, handle_cb, Closed

-----------------------------------------------------------------------------
(* A connection that was just accepted satisfies the invariant.            *)
LEMMA InitInd == Init => Told /\ InboundInOrder
<1> SUFFICES ASSUME Init PROVE Told /\ InboundInOrder
  OBVIOUS
<1>1. <<>> \in Seq(Nat) /\ Len(<<>>) = 0
  BY EmptySeq
<1>2. Types
  <2>1. /\ data \in Seq(Nat) /\ outbuff \in Seq(Nat) /\ sockout \in Seq(Nat)
        /\ inbuff \in Seq(Nat) /\ received \in Seq(Nat) /\ sockin \in Seq(Nat)
        /\ Len(sockout) <= SndBuf
    BY <1>1, BfEventAssumption DEF Init
  <2>2. /\ pc = "idle" /\ back = "idle" /\ n \in Int /\ given \in Nat
        /\ arrived \in Nat
    BY DEF Init
  <2>3. /\ wpart \in BOOLEAN /\ nospace \in BOOLEAN /\ epollout \in BOOLEAN
        /\ epollin \in BOOLEAN /\ edge \in BOOLEAN /\ broken \in BOOLEAN
    BY DEF Init
  <2> QED BY <2>1, <2>2, <2>3 DEF Types, UserRuns
<1>3. ReadDue /\ Armed /\ ToldOfSpace /\ WriteDue
  BY DEF Init, ReadDue, Queued, Armed, ToldOfSpace, WriteDue
<1>4. InboundInOrder
  <2>1. received = <<>> /\ inbuff = <<>> /\ sockin = <<>> /\ arrived = 0
    BY DEF Init
  <2> QED BY <2>1 DEF InboundInOrder, Counting
<1> QED BY <1>2, <1>3, <1>4 DEF Told

(* It holds in every behaviour.                                            *)
LEMMA Invariance == Spec => [](Told /\ InboundInOrder)
<1>1. Told /\ InboundInOrder /\ [Next]_vars => (Told /\ InboundInOrder)'
  BY ToldStep, InboundStep DEF Told
<1> QED BY <1>1, InitInd, PTL DEF Spec

(* What the peer sends reaches the user complete and in order, whatever    *)
(* parts readiov and receive move at a time (bfevent.h handle_read,        *)
(* bfevent.cpp receive).                                                   *)
THEOREM InboundStream == Spec => []InboundInOrder
  BY Invariance, PTL

(* The edge triggered loop leaves no arrived byte behind: when nothing     *)
(* runs and epoll has nothing to report, a connection that is to be read   *)
(* has an empty receive buffer (bfevent.h 96-115, enable_read).            *)
THEOREM ReadsEverything == Spec => []NothingUnread
<1>1. Told => NothingUnread
  BY DEF Told, Frame, ReadDue, NothingUnread
<1> QED BY <1>1, Invariance, PTL

(* Queued bytes are never forgotten: EPOLLOUT is on, and epoll has the     *)
(* connection on its list or will be told of space, for every size of the  *)
(* send buffer (bfevent.cpp sendout, handle_write).                        *)
THEOREM NeverStalls == Spec => []NoStall
<1>1. Told => NoStall
  BY DEF Told, Frame, Queued, Armed, ToldOfSpace, WriteDue, NoStall
<1> QED BY <1>1, Invariance, PTL
=============================================================================
