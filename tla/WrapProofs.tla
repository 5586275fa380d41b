------------------------------ MODULE WrapProofs ------------------------------
(***************************************************************************)
(* What Read, Readn, Write, Writen and Readline hand over, for every way   *)
(* the kernel may split or interrupt the transfers, and for every size of  *)
(* the static buffer.                                                      *)
(***************************************************************************)
EXTENDS Wrap, SequenceTheorems, TLAPS

(* The types of what the argument is about.                                *)
Types ==
  /\ sent \in [Fds -> Nat] /\ taken \in [Fds -> Nat]
  /\ cache \in Seq(Byte) /\ wrote \in [Fds -> Seq(Byte)]
  /\ calls \in Nat
  /\ call # Idle => call \in CallRec
  /\ last # Idle => last \in [call : CallRec, ret : Int]

(* Read and Readn have stored the bytes that followed at the call.         *)
StreamBytes(c) ==
  c.op \in Streaming =>
    \A j \in 1..Len(c.buf) : c.buf[j] = <<c.fd, c.from + j>>

(* Readline has left room for the '\0' and stored no newline before the    *)
(* end.                                                                    *)
LineSoFar(c) ==
  c.op = "Readline" =>
    /\ Len(c.buf) < c.n
    /\ \A j \in 1..(Len(c.buf) - 1) : ~IsNewline(c.buf[j])

(* What a Read or Readn in progress has stored is what its stream gave.    *)
Reading ==
  InCall(Streaming) =>
    /\ Stored <= call.n /\ taken[call.fd] = call.from + Stored
    /\ call.op = "Read" => Stored = 0

(* A Write or Writen in progress is the last call that began, and the last *)
(* byte on its stream is the last one that it has put there.               *)
WritingOn ==
  InCall(Writing) =>
    /\ Stored <= call.n /\ call.id = calls
    /\ call.op = "Write" => Stored = 0
    /\ Stored = 0 => \A f \in Fds : \A i \in 1..Len(wrote[f]) :
                       wrote[f][i][1] # call.id
    /\ Stored > 0 => /\ Len(wrote[call.fd]) > 0
                     /\ wrote[call.fd][Len(wrote[call.fd])]
                          = <<call.id, Stored>>

(* A Readline in progress has met no newline yet, and what it has stored   *)
(* and the static buffer make up all that it was supplied with.            *)
InLine ==
  InCall({"Readline"}) =>
    /\ \A j \in 1..Stored : ~IsNewline(call.buf[j])
    /\ call.from <= taken[call.fd]
    /\ call.buf \o cache = Supply(call)

(* What the last Readline left is what the next one finds.                 *)
Chained ==
  line # Idle =>
    line.buf \o (IF InCall({"Readline"}) THEN call.stale ELSE cache)
      = line.supply

(* What the call in progress has stored so far.                            *)
InProgress == call # Idle => StreamBytes(call) /\ LineSoFar(call)

(* What holds of a call c that has returned r, if it did not fail.         *)
Answer(c, r) ==
  LET m == Len(c.buf)
      whole == m > 0 /\ IsNewline(c.buf[m])
  IN
  /\ c.op \in Streaming /\ r >= 0 =>
       /\ m = r
       /\ r < c.n => c.fd \in ended \/ (c.op = "Read" /\ r > 0)
  /\ c.op = "Readline" /\ r >= 0 =>
       IF r = m THEN whole \/ c.fd \in ended
       ELSE r = c.n /\ m = c.n - 1 /\ ~whole
  /\ c.op = "Writen" /\ r >= 0 /\ c.n > 0 =>
       \E i \in 1..Len(wrote[c.fd]) : wrote[c.fd][i] = <<c.id, c.n>>

(* What the last call that returned has stored and answered.               *)
Done ==
  last # Idle =>
    /\ StreamBytes(last.call) /\ LineSoFar(last.call)
    /\ Answer(last.call, last.ret)

(* What was written belongs to calls that have begun.                      *)
Numbered ==
  \A f \in Fds : \A i \in 1..Len(wrote[f]) :
    wrote[f][i] \in Nat \X Nat /\ wrote[f][i][1] <= calls

(* The bytes of a call lie side by side.                                   *)
SideBySide(s) ==
  \A i \in 1..Len(s) :
    IF s[i][2] = 1
    THEN \A j \in 1..(i - 1) : s[j][1] # s[i][1]
    ELSE i > 1 /\ s[i - 1] = <<s[i][1], s[i][2] - 1>>

(* They do so on every descriptor.                                         *)
InOrder == \A f \in Fds : SideBySide(wrote[f])

(* The call in progress, whatever function it is of.                       *)
Current == Reading /\ WritingOn /\ InLine /\ InProgress

(* The inductive invariant.                                                *)
IndInv == Types /\ Current /\ Done /\ Chained /\ Numbered /\ InOrder

-----------------------------------------------------------------------------
(* A call whose buffer is replaced.                                        *)
LEMMA NewBuf ==
  ASSUME NEW c \in CallRec, NEW b \in Seq(Byte),
         NEW d, d = [c EXCEPT !.buf = b]
  PROVE  /\ d \in CallRec /\ d.buf = b /\ d.op = c.op /\ d.fd = c.fd
         /\ d.n = c.n /\ d.id = c.id /\ d.from = c.from /\ d.stale = c.stale
  BY DEF CallRec

(* The fields of a call.                                                   *)
LEMMA CallFields ==
  ASSUME NEW c \in CallRec
  PROVE  /\ c.op \in Ops /\ c.fd \in Fds /\ c.n \in Nat /\ c.buf \in Seq(Byte)
         /\ c.id \in Nat /\ c.from \in Nat /\ c.stale \in Seq(Byte)
         /\ Len(c.buf) \in Nat
  BY LenProperties DEF CallRec

(* A call that returns leaves the rest of the invariant to its answer.     *)
LEMMA ReturnKeeps ==
  ASSUME IndInv, NEW c \in CallRec, NEW r \in Int, Return(c, r),
         StreamBytes(c), LineSoFar(c), Answer(c, r)', InCall({c.op}),
         IF c.op = "Readline" THEN c.buf \o cache' = Supply(c)
                              ELSE cache' = cache,
         sent' = sent, calls' = calls, Numbered', InOrder',
         taken' \in [Fds -> Nat], cache' \in Seq(Byte),
         wrote' \in [Fds -> Seq(Byte)]
  PROVE  IndInv'
<1>1. call' = Idle /\ last' = [call |-> c, ret |-> r]
  BY DEF Return
<1>2. last' \in [call : CallRec, ret : Int] /\ last'.call = c /\ last'.ret = r
  BY <1>1
<1>3. Types'
  BY <1>1, <1>2 DEF IndInv, Types
<1>4. Current'
  BY <1>1 DEF Current, Reading, WritingOn, InLine, InProgress, InCall
<1>5. Done'
  BY <1>2 DEF Done, StreamBytes, LineSoFar
<1>6. Chained'
  <2>1. CASE c.op = "Readline"
    <3>1. line' = [buf |-> c.buf, supply |-> Supply(c)]
      BY <2>1 DEF Return
    <3>2. line'.buf = c.buf /\ line'.supply = Supply(c)
      BY <3>1
    <3> QED BY <1>1, <2>1, <3>2 DEF Chained, InCall
  <2>2. CASE c.op # "Readline"
    <3>1. line' = line /\ cache' = cache /\ ~InCall({"Readline"})
      BY <2>2 DEF Return, InCall
    <3> QED BY <1>1, <3>1 DEF IndInv, Chained, InCall
  <2> QED BY <2>1, <2>2
<1> QED BY <1>3, <1>4, <1>5, <1>6 DEF IndInv

(* The bytes of a stream, and appending them to a buffer.                  *)
LEMMA StreamSeq ==
  ASSUME NEW f \in Fds \cup Nat, NEW from \in Nat, NEW k \in Nat
  PROVE  /\ Stream(f, from, k) \in Seq(Byte) /\ Len(Stream(f, from, k)) = k
         /\ \A j \in 1..k : Stream(f, from, k)[j] = <<f, from + j>>
  BY DEF Stream, Byte

(* t is s with the k bytes that follow number from.                        *)
Adds(t, s, f, from, k) ==
  /\ s \in Seq(Byte) /\ f \in Fds \cup Nat /\ from \in Nat /\ k \in Nat
  /\ t = s \o Stream(f, from, k)

(* The same, byte by byte.                                                 *)
Added(t, s, f, from, k) ==
  /\ t \in Seq(Byte) /\ Len(t) = Len(s) + k
  /\ \A j \in 1..Len(s) : t[j] = s[j]
  /\ \A j \in 1..k : t[Len(s) + j] = <<f, from + j>>

(* Appending part of a stream, byte by byte.                               *)
LEMMA AddStream ==
  ASSUME NEW t, NEW s, NEW f, NEW from, NEW k, Adds(t, s, f, from, k)
  PROVE  Added(t, s, f, from, k)
<1> DEFINE d == Stream(f, from, k)
<1>0. /\ s \in Seq(Byte) /\ f \in Fds \cup Nat /\ from \in Nat /\ k \in Nat
      /\ t = s \o d
  BY DEF Adds
<1>1. /\ d \in Seq(Byte) /\ Len(d) = k
      /\ \A j \in 1..k : d[j] = <<f, from + j>>
  BY <1>0, StreamSeq
<1> HIDE DEF d
<1>2. /\ t \in Seq(Byte) /\ Len(t) = Len(s) + Len(d)
      /\ \A j \in 1..(Len(s) + Len(d)) :
           t[j] = IF j <= Len(s) THEN s[j] ELSE d[j - Len(s)]
  <2> DEFINE u == s \o d
  <2>1. /\ u \in Seq(Byte) /\ Len(u) = Len(s) + Len(d)
        /\ \A j \in 1..(Len(s) + Len(d)) :
             u[j] = IF j <= Len(s) THEN s[j] ELSE d[j - Len(s)]
    BY <1>0, <1>1, ConcatProperties, Zenon
  <2>2. t = u
    BY <1>0
  <2> HIDE DEF u
  <2> QED BY <2>1, <2>2
<1>3. Len(s) \in Nat
  BY <1>0, LenProperties
<1>4. ASSUME NEW j \in 1..k
      PROVE  t[Len(s) + j] = <<f, from + j>>
  <2>1. /\ Len(s) + j \in 1..(Len(s) + Len(d))
        /\ ~(Len(s) + j <= Len(s)) /\ (Len(s) + j) - Len(s) = j
    BY <1>0, <1>1, <1>3
  <2>2. t[Len(s) + j] = d[j]
    BY <2>1, <1>2
  <2> QED BY <2>2, <1>1
<1>5. ASSUME NEW j \in 1..Len(s)
      PROVE  t[j] = s[j]
  <2>1. j \in 1..(Len(s) + Len(d)) /\ j <= Len(s)
    BY <1>1, <1>3
  <2> QED BY <2>1, <1>2
<1> QED BY <1>1, <1>2, <1>4, <1>5 DEF Added

(* A sequence of bytes is told by its elements.                            *)
LEMMA SameBytes ==
  ASSUME NEW s \in Seq(Byte), NEW f \in Fds, NEW from \in Nat, NEW k \in Nat,
         Len(s) = k, \A j \in 1..k : s[j] = <<f, from + j>>
  PROVE  s = Stream(f, from, k)
<1> DEFINE t == Stream(f, from, k)
<1>1. /\ t \in Seq(Byte) /\ Len(t) = k
      /\ \A j \in 1..k : t[j] = <<f, from + j>>
  <2>1. f \in Fds \cup Nat
    OBVIOUS
  <2> QED BY <2>1, StreamSeq
<1> HIDE DEF t
<1>2. s = t
  BY <1>1, SeqEqual
<1> QED BY <1>2 DEF t

(* Two successive parts of a stream.                                       *)
LEMMA StreamJoin ==
  ASSUME NEW f \in Fds, NEW from \in Nat, NEW a \in Nat, NEW k \in Nat,
         from <= a
  PROVE  Stream(f, from, a - from) \o Stream(f, a, k)
           = Stream(f, from, (a + k) - from)
<1> DEFINE p == a - from
           s == Stream(f, from, p)
           t == s \o Stream(f, a, k)
<1>1. p \in Nat /\ f \in Fds \cup Nat /\ (a + k) - from = p + k
      /\ p + k \in Nat /\ from + p = a
  OBVIOUS
<1> HIDE DEF p
<1>2. s \in Seq(Byte) /\ Len(s) = p /\ \A j \in 1..p : s[j] = <<f, from + j>>
  BY <1>1, StreamSeq
<1>3. Adds(t, s, f, a, k)
  BY <1>1, <1>2 DEF Adds
<1> HIDE DEF s, t
<1>4. /\ t \in Seq(Byte) /\ Len(t) = p + k
      /\ \A j \in 1..p : t[j] = s[j]
      /\ \A j \in 1..k : t[p + j] = <<f, a + j>>
  <2>1. Added(t, s, f, a, k)
    BY ONLY <1>3, AddStream
  <2> QED BY <2>1, <1>2 DEF Added
<1>5. ASSUME NEW j \in 1..(p + k)
      PROVE  t[j] = <<f, from + j>>
  <2>1. CASE j <= p
    <3>1. j \in 1..p
      BY <1>1, <2>1
    <3> QED BY <3>1, <1>2, <1>4
  <2>2. CASE j > p
    <3>1. j - p \in 1..k /\ p + (j - p) = j /\ a + (j - p) = from + j
      BY <1>1, <2>2
    <3> QED BY <3>1, <1>4
  <2> QED BY <1>1, <2>1, <2>2
<1> DEFINE q == p + k
<1>6. /\ t \in Seq(Byte) /\ q \in Nat /\ Len(t) = q
      /\ \A j \in 1..q : t[j] = <<f, from + j>>
  BY <1>1, <1>4, <1>5
<1> HIDE DEF q
<1>7. t = Stream(f, from, q)
  BY ONLY <1>6, SameBytes
<1> QED BY <1>1, <1>7 DEF t, s, p, q

(* The first of the waiting bytes becomes the last of the stored ones.     *)
LEMMA MoveByte ==
  ASSUME NEW s \in Seq(Byte), NEW t \in Seq(Byte), t # <<>>
  PROVE  Append(s, Head(t)) \o Tail(t) = s \o t
<1> DEFINE h == Head(t)
           u == Tail(t)
<1>1. h \in Byte /\ u \in Seq(Byte) /\ t = <<h>> \o u
  OBVIOUS
<1> HIDE DEF h, u
<1>2. <<h>> \in Seq(Byte) /\ Append(s, h) = s \o <<h>>
  BY <1>1, AppendIsConcat
<1>3. (s \o <<h>>) \o u = s \o (<<h>> \o u)
  BY <1>1, <1>2, ConcatAssociative
<1> QED BY <1>1, <1>2, <1>3 DEF u

-----------------------------------------------------------------------------
(* read(2) returned some bytes to Read or Readn.                           *)
LEMMA ReadSomeStep ==
  ASSUME IndInv, NEW k \in 1..Left, ReadSome(k)
  PROVE  IndInv'
<1> DEFINE f == call.fd
           m == Len(call.buf)
           b == call.buf \o Stream(f, taken[f], k)
<1>0. PICK c : c = [call EXCEPT !.buf = b]
  OBVIOUS
<1>1. /\ call # Idle /\ call.op \in Streaming
      /\ taken' = [taken EXCEPT ![f] = @ + k]
      /\ IF call.op = "Read" THEN Return(c, k)
                             ELSE call' = c /\ UNCHANGED <<last, line>>
      /\ UNCHANGED <<cache, wrote, peervars, calls, intr>>
  BY <1>0 DEF ReadSome, InCall
<1>2. call \in CallRec /\ taken \in [Fds -> Nat]
  BY <1>1 DEF IndInv, Types
<1>3. /\ call.op \in Ops /\ f \in Fds /\ call.n \in Nat
      /\ call.buf \in Seq(Byte)
      /\ call.from \in Nat /\ m \in Nat
  BY <1>2, CallFields
<1>4. /\ m <= call.n /\ taken[f] = call.from + m
      /\ call.op = "Read" => m = 0
      /\ \A j \in 1..m : call.buf[j] = <<f, call.from + j>>
  BY <1>1 DEF IndInv, Current, Reading, InProgress, StreamBytes, InCall, Stored
<1>5. k \in Nat /\ k > 0 /\ m + k <= call.n
  BY <1>3, <1>4 DEF Left, Stored
<1>6. /\ b \in Seq(Byte) /\ Len(b) = m + k
      /\ \A j \in 1..m : b[j] = call.buf[j]
      /\ \A j \in 1..k : b[m + j] = <<f, taken[f] + j>>
  <2> DEFINE s == call.buf
             a == taken[f]
  <2>1. Adds(b, s, f, a, k)
    BY <1>2, <1>3, <1>5 DEF Adds
  <2> HIDE DEF b, f, s, a
  <2>2. /\ b \in Seq(Byte) /\ Len(b) = Len(s) + k
        /\ \A j \in 1..Len(s) : b[j] = s[j]
        /\ \A j \in 1..k : b[Len(s) + j] = <<f, a + j>>
    <3>1. Added(b, s, f, a, k)
      BY ONLY <2>1, AddStream
    <3> QED BY <3>1 DEF Added
  <2> QED BY <2>2 DEF s, a
<1> HIDE DEF b
<1>7. /\ c \in CallRec /\ c.buf = b /\ c.op = call.op /\ c.fd = f
      /\ c.n = call.n /\ c.from = call.from
  BY <1>0, <1>2, <1>6, NewBuf
<1> HIDE DEF m, f
<1>8. \A j \in 1..(m + k) : b[j] = <<f, call.from + j>>
  <2> TAKE j \in 1..(m + k)
  <2>1. CASE j <= m
    <3>1. j \in 1..m
      BY <2>1, <1>3
    <3> QED BY <3>1, <1>4, <1>6
  <2>2. CASE j > m
    <3>1. j - m \in 1..k /\ m + (j - m) = j
          /\ taken[f] + (j - m) = call.from + j
      BY <2>2, <1>3, <1>4, <1>5
    <3> QED BY <3>1, <1>6
  <2> QED BY <2>1, <2>2, <1>3
<1>9. StreamBytes(c) /\ LineSoFar(c)
  BY <1>1, <1>6, <1>7, <1>8 DEF StreamBytes, LineSoFar, Streaming
<1>10. /\ taken' \in [Fds -> Nat] /\ taken'[f] = call.from + (m + k)
       /\ cache' \in Seq(Byte) /\ wrote' \in [Fds -> Seq(Byte)]
       /\ sent' = sent /\ ended' = ended
  <2>1. taken' \in [Fds -> Nat] /\ taken'[f] = taken[f] + k
    BY ONLY <1>1, <1>2, <1>3, <1>5
  <2>2. taken[f] + k = call.from + (m + k)
    BY ONLY <1>3, <1>4, <1>5
  <2>3. /\ cache' \in Seq(Byte) /\ wrote' \in [Fds -> Seq(Byte)]
        /\ sent' = sent /\ ended' = ended
    BY <1>1 DEF peervars, IndInv, Types
  <2> QED BY ONLY <2>1, <2>2, <2>3
<1>11. Numbered' /\ InOrder'
  BY <1>1 DEF IndInv, Numbered, InOrder
<1>12. CASE call.op = "Read"
  <2>1. Return(c, k) /\ m = 0
    BY <1>12, <1>1, <1>4
  <2>2. Answer(c, k)'
    BY <2>1, <1>3, <1>5, <1>6, <1>7, <1>12 DEF Answer
  <2>3. /\ InCall({c.op}) /\ c.op # "Readline" /\ cache' = cache
        /\ calls' = calls /\ k \in Int
    BY <1>1, <1>5, <1>7, <1>12 DEF InCall
  <2>4. IndInv
    OBVIOUS
  <2> QED BY ONLY <2>1, <2>2, <2>3, <2>4, <1>7, <1>9, <1>10, <1>11,
                  ReturnKeeps
<1>13. CASE call.op # "Read"
  <2>1. call' = c /\ last' = last /\ line' = line
    BY <1>13, <1>1
  <2>2. Types'
    BY <2>1, <1>1, <1>7, <1>10 DEF IndInv, Types
  <2>3. Reading'
    BY <2>1, <1>3, <1>5, <1>6, <1>7, <1>10, <1>13 DEF Reading, Stored
  <2>4. WritingOn' /\ InLine' /\ InProgress'
    BY <2>1, <1>1, <1>7, <1>9
       DEF WritingOn, InLine, InProgress, InCall, Streaming, Writing
  <2>5. Done'
    BY <2>1, <1>1, <1>10 DEF IndInv, Done, Answer
  <2>6. Chained'
    BY <2>1, <1>1, <1>7 DEF IndInv, Chained, InCall, Streaming
  <2> QED BY <2>2, <2>3, <2>4, <2>5, <2>6, <1>11 DEF IndInv, Current
<1> QED BY <1>12, <1>13

-----------------------------------------------------------------------------
(* The next byte of call id on the stream s is its byte number m + 1.      *)
Continues(s, id, m) ==
  /\ id \in Nat /\ m \in Nat
  /\ m = 0 => \A j \in 1..Len(s) : s[j][1] # id
  /\ m > 0 => Len(s) > 0 /\ s[Len(s)] = <<id, m>>

(* More bytes of the call keep the bytes of each call side by side.        *)
LEMMA StaysInOrder ==
  ASSUME NEW t, NEW s, NEW id, NEW m, NEW k, Adds(t, s, id, m, k),
         Continues(s, id, m), SideBySide(s)
  PROVE  SideBySide(t)
<1>0. /\ s \in Seq(Byte) /\ id \in Nat /\ m \in Nat /\ k \in Nat
      /\ Len(s) \in Nat
  BY LenProperties DEF Adds, Continues
<1>1. /\ Len(t) = Len(s) + k
      /\ \A j \in 1..Len(s) : t[j] = s[j]
      /\ \A j \in 1..k : t[Len(s) + j] = <<id, m + j>>
  BY AddStream DEF Added
<1> SUFFICES ASSUME NEW i \in 1..Len(t)
             PROVE  IF t[i][2] = 1
                    THEN \A j \in 1..(i - 1) : t[j][1] # t[i][1]
                    ELSE i > 1 /\ t[i - 1] = <<t[i][1], t[i][2] - 1>>
  BY Zenon DEF SideBySide
<1>2. CASE i <= Len(s)
  <2>1. /\ i \in 1..Len(s) /\ t[i] = s[i]
        /\ \A j \in 1..(i - 1) : j \in 1..Len(s) /\ t[j] = s[j]
        /\ i > 1 => i - 1 \in 1..Len(s) /\ t[i - 1] = s[i - 1]
    BY <1>0, <1>1, <1>2
  <2>2. IF s[i][2] = 1
        THEN \A j \in 1..(i - 1) : s[j][1] # s[i][1]
        ELSE i > 1 /\ s[i - 1] = <<s[i][1], s[i][2] - 1>>
    BY <2>1, Zenon DEF SideBySide
  <2> QED BY <2>1, <2>2
<1>3. CASE i > Len(s)
  <2> DEFINE q == i - Len(s)
  <2>1. q \in 1..k /\ i = Len(s) + q /\ q \in Nat
    BY <1>0, <1>1, <1>3
  <2> HIDE DEF q
  <2>2. t[i] = <<id, m + q>>
    BY <2>1, <1>1
  <2>3. t[i][1] = id /\ t[i][2] = m + q
    BY <2>2
  <2>4. CASE m + q = 1
    <3>1. m = 0 /\ i - 1 = Len(s)
      BY <2>1, <2>4, <1>0
    <3>2. \A j \in 1..Len(s) : s[j][1] # id
      BY <3>1 DEF Continues
    <3> QED BY <3>1, <3>2, <2>3, <2>4, <1>1
  <2>5. CASE m + q # 1 /\ q = 1
    <3>1. m > 0 /\ i - 1 = Len(s) /\ (m + q) - 1 = m
      BY <2>1, <2>5, <1>0
    <3>2. Len(s) > 0 /\ s[Len(s)] = <<id, m>>
      BY <3>1 DEF Continues
    <3>3. i > 1 /\ Len(s) \in 1..Len(s)
      BY <3>1, <3>2, <2>1, <1>0
    <3>4. t[i - 1] = <<id, (m + q) - 1>>
      BY <3>1, <3>2, <3>3, <1>1
    <3> QED BY <3>3, <3>4, <2>3, <2>5
  <2>6. CASE m + q # 1 /\ q # 1
    <3>1. i > 1 /\ q - 1 \in 1..k /\ i - 1 = Len(s) + (q - 1)
          /\ m + (q - 1) = (m + q) - 1
      BY <2>1, <2>6, <1>0
    <3>2. t[i - 1] = <<id, (m + q) - 1>>
      BY <3>1, <1>1
    <3> QED BY <3>1, <3>2, <2>3, <2>6
  <2> QED BY <2>4, <2>5, <2>6
<1> QED BY <1>0, <1>1, <1>2, <1>3

(* write(2) accepted some bytes of Write or Writen.                        *)
LEMMA WriteSomeStep ==
  ASSUME IndInv, NEW k \in 1..Left, WriteSome(k)
  PROVE  IndInv'
<1> DEFINE f == call.fd
           m == Len(call.buf)
           bytes == Stream(call.id, m, k)
           b == call.buf \o bytes
           s == wrote[f]
           t == s \o bytes
<1>0. PICK c : c = [call EXCEPT !.buf = b]
  OBVIOUS
<1>1. /\ call # Idle /\ call.op \in Writing
      /\ wrote' = [wrote EXCEPT ![f] = t]
      /\ IF call.op = "Write" THEN Return(c, k)
                              ELSE call' = c /\ UNCHANGED <<last, line>>
      /\ UNCHANGED <<taken, cache, peervars, calls, intr>>
  BY <1>0 DEF WriteSome, InCall, Stored
<1>2. /\ call \in CallRec /\ wrote \in [Fds -> Seq(Byte)] /\ calls \in Nat
      /\ taken \in [Fds -> Nat] /\ cache \in Seq(Byte)
  BY <1>1 DEF IndInv, Types
<1>3. /\ f \in Fds /\ call.n \in Nat /\ call.buf \in Seq(Byte)
      /\ m \in Nat /\ call.id \in Nat
  BY <1>2, CallFields
<1>4. /\ m <= call.n /\ call.id = calls
      /\ call.op = "Write" => m = 0
      /\ Continues(s, call.id, m)
  BY <1>1, <1>3 DEF IndInv, Current, WritingOn, InCall, Stored, Continues
<1>5. k \in Nat /\ k > 0 /\ m + k <= call.n
  BY <1>3, <1>4 DEF Left, Stored
<1>6. Adds(b, call.buf, call.id, m, k) /\ Adds(t, s, call.id, m, k)
  BY <1>2, <1>3, <1>5 DEF Adds
<1>7. SideBySide(s)
  BY <1>3 DEF IndInv, InOrder
<1> DEFINE id == call.id
           u == call.buf
<1>8. Adds(b, u, id, m, k) /\ Continues(s, id, m)
  BY <1>4, <1>6
<1>8a. Adds(t, s, id, m, k)
  BY <1>6
<1>9. m = Len(u) /\ id \in Nat /\ id = calls
  BY <1>3, <1>4
<1> HIDE DEF b, t, s, id, u, m, bytes
<1>10. b \in Seq(Byte) /\ Len(b) = Len(u) + k
  BY ONLY <1>8, AddStream DEF Added
<1>11. /\ t \in Seq(Byte) /\ Len(t) = Len(s) + k
       /\ \A j \in 1..Len(s) : t[j] = s[j]
       /\ \A j \in 1..k : t[Len(s) + j] = <<id, m + j>>
  <2>1. Added(t, s, id, m, k)
    BY ONLY <1>8a, AddStream
  <2> QED BY <2>1 DEF Added
<1>12. SideBySide(t)
  BY ONLY <1>7, <1>8, <1>8a, StaysInOrder
<1>13. /\ c \in CallRec /\ c.buf = b /\ c.op = call.op /\ c.fd = f
       /\ c.n = call.n /\ c.id = call.id
  BY <1>0, <1>2, <1>10, NewBuf
<1> HIDE DEF f
<1>14. /\ wrote' \in [Fds -> Seq(Byte)] /\ wrote'[f] = t
       /\ \A g \in Fds : g # f => wrote'[g] = wrote[g]
  BY <1>1, <1>2, <1>3, <1>11
<1>15. InOrder'
  BY <1>12, <1>14 DEF IndInv, InOrder
<1>16. Len(s) \in Nat /\ s = wrote[f]
  BY <1>2, <1>3, LenProperties DEF s
<1>17. Numbered'
  <2> SUFFICES ASSUME NEW g \in Fds, NEW i \in 1..Len(wrote'[g])
               PROVE  wrote'[g][i] \in Nat \X Nat /\ wrote'[g][i][1] <= calls
    BY <1>1 DEF Numbered
  <2>1. CASE g # f
    BY <2>1, <1>14 DEF IndInv, Numbered
  <2>2. CASE g = f /\ i <= Len(s)
    <3>1. i \in 1..Len(s) /\ wrote'[g][i] = wrote[f][i]
      BY <2>2, <1>11, <1>14, <1>16
    <3> QED BY <3>1, <1>3, <1>16 DEF IndInv, Numbered
  <2>3. CASE g = f /\ i > Len(s)
    <3>1. i - Len(s) \in 1..k /\ i = Len(s) + (i - Len(s))
          /\ m + (i - Len(s)) \in Nat
      BY <2>3, <1>3, <1>5, <1>11, <1>14, <1>16
    <3>2. wrote'[g][i] = <<id, m + (i - Len(s))>>
      BY <3>1, <2>3, <1>11, <1>14
    <3>3. wrote'[g][i][1] = id
      BY <3>2
    <3>4. id <= calls
      BY <1>2, <1>9
    <3> QED BY <3>1, <3>2, <3>3, <3>4, <1>9
  <2>4. g = f => i \in Nat /\ Len(s) \in Nat
    BY ONLY <1>3, <1>11, <1>14, <1>16, LenProperties
  <2> QED BY ONLY <2>1, <2>2, <2>3, <2>4
<1>18. StreamBytes(c) /\ LineSoFar(c)
  BY <1>1, <1>13 DEF StreamBytes, LineSoFar, Writing, Streaming
<1>19. sent' = sent /\ ended' = ended /\ taken' = taken /\ cache' = cache
  BY <1>1 DEF peervars
<1>20. CASE call.op = "Write"
  <2>1. Return(c, k)
    BY <1>20, <1>1
  <2>2. Answer(c, k)'
    BY <1>13, <1>20 DEF Answer, Streaming
  <2>3. /\ sent' = sent /\ calls' = calls /\ taken' \in [Fds -> Nat]
        /\ cache' \in Seq(Byte) /\ wrote' \in [Fds -> Seq(Byte)]
        /\ c \in CallRec /\ k \in Int /\ cache' = cache
    BY ONLY <1>1, <1>2, <1>5, <1>13, <1>14, <1>19
  <2>4. IndInv /\ InCall({c.op}) /\ c.op # "Readline"
    BY <1>1, <1>13, <1>20 DEF InCall
  <2> QED BY ONLY <2>1, <2>2, <2>3, <2>4, <1>15, <1>17, <1>18, ReturnKeeps
<1>21. CASE call.op # "Write"
  <2>1. call' = c /\ last' = last /\ line' = line
    BY <1>21, <1>1
  <2>2. Types'
    BY <2>1, <1>1, <1>13, <1>14, <1>19 DEF IndInv, Types
  <2>3. WritingOn'
    <3>1. Len(c.buf) = m + k /\ Len(c.buf) > 0 /\ Len(c.buf) <= c.n
      BY <1>3, <1>5, <1>9, <1>10, <1>13
    <3>2. /\ Len(wrote'[f]) > 0
          /\ wrote'[f][Len(wrote'[f])] = <<call.id, Len(c.buf)>>
      <4>1. k \in 1..k /\ Len(t) = Len(s) + k /\ Len(t) > 0
        BY <1>5, <1>11, <1>16
      <4> QED BY <4>1, <3>1, <1>11, <1>14 DEF id
    <3>3. c.id = calls' /\ c.op # "Write"
      BY <1>1, <1>4, <1>13, <1>21
    <3> QED BY <3>1, <3>2, <3>3, <2>1, <1>13 DEF WritingOn, Stored
  <2>4. Reading' /\ InLine' /\ InProgress'
    BY <2>1, <1>1, <1>13, <1>18
       DEF Reading, InLine, InProgress, InCall, Streaming, Writing
  <2>5. Done'
    <3> SUFFICES ASSUME last # Idle
                 PROVE  Answer(last.call, last.ret)'
      BY <2>1 DEF IndInv, Done
    <3>1. Answer(last.call, last.ret) /\ last.call \in CallRec
      BY DEF IndInv, Done, Types
    <3>2. last.call.fd \in Fds
      BY <3>1 DEF CallRec
    <3>3. ASSUME NEW g \in Fds, NEW i \in 1..Len(wrote[g])
          PROVE  i \in 1..Len(wrote'[g]) /\ wrote'[g][i] = wrote[g][i]
      <4>1. CASE g = f
        BY <4>1, <1>5, <1>11, <1>14, <1>16
      <4>2. CASE g # f
        BY <4>2, <1>14
      <4> QED BY <4>1, <4>2
    <3> QED BY <3>1, <3>2, <3>3, <2>1, <1>19 DEF Answer
  <2>6. Chained'
    BY <2>1, <1>1, <1>13, <1>19 DEF IndInv, Chained, InCall, Writing
  <2> QED BY <2>2, <2>3, <2>4, <2>5, <2>6, <1>15, <1>17 DEF IndInv, Current
<1> QED BY <1>20, <1>21

-----------------------------------------------------------------------------
(* A step of a peer, an interruption or a stutter: only sent and ended     *)
(* change, and ended grows.                                                *)
LEMMA FrameStep ==
  ASSUME IndInv, sent' \in [Fds -> Nat], ended \subseteq ended',
         UNCHANGED <<taken, cache, wrote, call, last, line, calls>>
  PROVE  IndInv'
<1>1. /\ taken' = taken /\ cache' = cache /\ wrote' = wrote /\ call' = call
      /\ last' = last /\ line' = line /\ calls' = calls
  OBVIOUS
<1>2. Types'
  BY <1>1 DEF IndInv, Types
<1>3. Current'
  BY <1>1
     DEF IndInv, Current, Reading, WritingOn, InLine, InProgress, InCall,
         Stored, Supply
<1>4. Done'
  <2> SUFFICES ASSUME last # Idle
               PROVE  Answer(last.call, last.ret)'
    BY <1>1 DEF IndInv, Done
  <2>1. Answer(last.call, last.ret)
    BY DEF IndInv, Done
  <2> QED BY <1>1, <2>1 DEF Answer
<1>5. Numbered' /\ InOrder' /\ Chained'
  BY <1>1 DEF IndInv, Numbered, InOrder, Chained, InCall
<1> QED BY <1>2, <1>3, <1>4, <1>5 DEF IndInv

(* A call that returns without moving another byte.                        *)
LEMMA ReturnStep ==
  ASSUME IndInv, call # Idle, NEW r \in Int, Return(call, r),
         UNCHANGED <<iovars, peervars, calls>>, Answer(call, r)
  PROVE  IndInv'
<1>0. PICK c : c = call
  OBVIOUS
<1>1. /\ taken' = taken /\ cache' = cache /\ wrote' = wrote
      /\ sent' = sent /\ ended' = ended /\ calls' = calls
  BY DEF iovars, peervars
<1>2. /\ c \in CallRec /\ StreamBytes(c) /\ LineSoFar(c) /\ Return(c, r)
      /\ taken' \in [Fds -> Nat] /\ cache' \in Seq(Byte)
      /\ wrote' \in [Fds -> Seq(Byte)]
  BY <1>0, <1>1 DEF IndInv, Types, Current, InProgress
<1>3. Answer(c, r)'
  BY <1>0, <1>1 DEF Answer
<1>4. Numbered' /\ InOrder'
  BY <1>1 DEF IndInv, Numbered, InOrder
<1>5. InCall({c.op})
  BY <1>0 DEF InCall
<1>6. IF c.op = "Readline" THEN c.buf \o cache' = Supply(c)
                           ELSE cache' = cache
  BY <1>0, <1>1 DEF IndInv, Current, InLine, InCall
<1> QED BY <1>1, <1>2, <1>3, <1>4, <1>5, <1>6, ReturnKeeps

(* What is known of the call in progress.                                  *)
LEMMA InProgressFacts ==
  ASSUME IndInv, call # Idle
  PROVE  /\ call \in CallRec /\ call.op \in Ops /\ call.fd \in Fds
         /\ call.n \in Nat /\ call.buf \in Seq(Byte) /\ call.id \in Nat
         /\ call.from \in Nat /\ call.stale \in Seq(Byte) /\ Stored \in Nat
         /\ taken[call.fd] \in Nat /\ Len(cache) \in Nat
<1>1. call \in CallRec /\ taken \in [Fds -> Nat] /\ cache \in Seq(Byte)
  BY DEF IndInv, Types
<1> QED BY <1>1, CallFields, LenProperties DEF Stored

(* The ends of the streams, of the transfers and of the line.              *)
LEMMA EndSteps ==
  ASSUME IndInv, Fails \/ ReadEof \/ AllMoved \/ LineEof \/ LineFull
  PROVE  IndInv'
<1>0. /\ call # Idle /\ call.n \in Nat /\ Stored \in Nat /\ call.fd \in Fds
      /\ call.op \in Ops
  BY InProgressFacts
     DEF Fails, InSyscall, ReadEof, AllMoved, LineEof, LineFull, InCall
<1>1. CASE Fails
  <2>1. Return(call, -1) /\ UNCHANGED <<iovars, peervars, calls>>
    BY <1>1 DEF Fails
  <2>2. Answer(call, -1)
    BY DEF Answer
  <2> QED BY <1>0, <2>1, <2>2, ReturnStep
<1>2. CASE ReadEof \/ LineEof
  <2>1. Return(call, Stored) /\ UNCHANGED <<iovars, peervars, calls>>
        /\ call.fd \in ended /\ call.op \in Streaming \cup {"Readline"}
    BY <1>2 DEF ReadEof, LineEof, InCall
  <2>2. Answer(call, Stored)
    BY <2>1 DEF Answer, Stored, Streaming
  <2> QED BY <1>0, <2>1, <2>2, ReturnStep
<1>3. CASE AllMoved
  <2>1. Return(call, call.n) /\ UNCHANGED <<iovars, peervars, calls>>
        /\ Stored = call.n /\ call.op \in Streaming \cup Writing
    BY <1>0, <1>3 DEF AllMoved, InCall, Left
  <2>2. call.op = "Writen" /\ call.n > 0 =>
          \E i \in 1..Len(wrote[call.fd]) :
            wrote[call.fd][i] = <<call.id, call.n>>
    <3> SUFFICES ASSUME call.op = "Writen", call.n > 0
                 PROVE  \E i \in 1..Len(wrote[call.fd]) :
                          wrote[call.fd][i] = <<call.id, call.n>>
      OBVIOUS
    <3>1. /\ Len(wrote[call.fd]) > 0
          /\ wrote[call.fd][Len(wrote[call.fd])] = <<call.id, Stored>>
      BY <1>0, <2>1 DEF IndInv, Current, WritingOn, InCall, Writing
    <3>2. Len(wrote[call.fd]) \in Nat
      BY <1>0, LenProperties
    <3> QED BY <2>1, <3>1, <3>2
  <2>3. Answer(call, call.n)
    BY <2>1, <2>2, <1>0 DEF Answer, Stored, Streaming, Writing
  <2> QED BY <1>0, <2>1, <2>3, ReturnStep
<1>4. CASE LineFull
  <2>1. Return(call, call.n) /\ UNCHANGED <<iovars, peervars, calls>>
        /\ call.op = "Readline" /\ ~(call.n - Stored > 1)
    BY <1>4 DEF LineFull, InCall, MoreRoom, Left
  <2>2. /\ Stored < call.n /\ \A j \in 1..Stored : ~IsNewline(call.buf[j])
    BY <1>0, <2>1
       DEF IndInv, Current, InProgress, InLine, InCall, LineSoFar, Stored
  <2>3. Stored = call.n - 1 /\ Stored # call.n
        /\ (Stored > 0 => ~IsNewline(call.buf[Stored]))
    BY <1>0, <2>1, <2>2
  <2>4. Answer(call, call.n)
    BY <2>1, <2>3, <1>0 DEF Answer, Stored, Streaming
  <2> QED BY <1>0, <2>1, <2>4, ReturnStep
<1> QED BY <1>1, <1>2, <1>3, <1>4

(* A call begins.                                                          *)
LEMMA BeginStep ==
  ASSUME IndInv, NEW op \in Ops, NEW f \in Fds, NEW n \in Sizes,
         Begin(op, f, n)
  PROVE  IndInv'
<1>0. n \in Nat /\ taken \in [Fds -> Nat] /\ calls \in Nat
      /\ cache \in Seq(Byte)
      /\ sent \in [Fds -> Nat] /\ wrote \in [Fds -> Seq(Byte)]
      /\ Len(cache) \in Nat /\ taken[f] \in Nat
  BY WrapAssumption, LenProperties DEF IndInv, Types
<1>1. /\ taken' = taken /\ cache' = cache /\ wrote' = wrote
      /\ sent' = sent /\ ended' = ended /\ last' = last /\ line' = line
      /\ calls' = calls + 1
      /\ op = "Readline" => n > 0
      /\ call' = [op |-> op, fd |-> f, n |-> n, buf |-> <<>>, id |-> calls + 1,
                  from |-> taken[f], stale |-> cache]
  BY DEF Begin, iovars, peervars
<1>2. /\ call'.op = op /\ call'.fd = f /\ call'.n = n /\ call'.buf = <<>>
      /\ call'.id = calls + 1 /\ call'.from = taken[f]
      /\ call'.stale = cache /\ Len(call'.buf) = 0
  BY <1>1
<1>3. call' \in CallRec
  <2>1. <<>> \in Seq(Byte) /\ calls + 1 \in Nat
    BY <1>0
  <2> QED BY <1>0, <1>1, <2>1 DEF CallRec
<1>4. Types'
  BY <1>0, <1>1, <1>3 DEF IndInv, Types
<1>5. Reading'
  BY <1>0, <1>1, <1>2 DEF Reading, Stored
<1>6. WritingOn'
  <2>1. \A g \in Fds : \A i \in 1..Len(wrote[g]) : wrote[g][i][1] # calls + 1
    <3> SUFFICES ASSUME NEW g \in Fds, NEW i \in 1..Len(wrote[g])
                 PROVE  wrote[g][i][1] # calls + 1
      OBVIOUS
    <3>1. wrote[g][i] \in Nat \X Nat /\ wrote[g][i][1] <= calls
      BY DEF IndInv, Numbered
    <3>2. wrote[g][i][1] \in Nat
      BY <3>1
    <3> QED BY <3>1, <3>2, <1>0
  <2> QED BY <2>1, <1>0, <1>1, <1>2 DEF WritingOn, Stored
<1>7. InLine'
  <2>1. Supply(call)' = cache \o Stream(f, taken[f], 0)
    <3>1. taken[f] - taken[f] = 0
      BY <1>0
    <3> QED BY <1>1, <1>2, <3>1 DEF Supply
  <2>2. Stream(f, taken[f], 0) = <<>>
    BY DEF Stream
  <2>3. <<>> \o cache = cache /\ cache \o <<>> = cache
    BY <1>0, ConcatEmptySeq
  <2> QED BY <2>1, <2>2, <2>3, <1>0, <1>1, <1>2 DEF InLine, Stored
<1>8. InProgress'
  BY <1>0, <1>1, <1>2 DEF InProgress, StreamBytes, LineSoFar
<1>9. Done'
  <2> SUFFICES ASSUME last # Idle
               PROVE  Answer(last.call, last.ret)'
    BY <1>1 DEF IndInv, Done
  <2>1. Answer(last.call, last.ret)
    BY DEF IndInv, Done
  <2> QED BY <1>1, <2>1 DEF Answer
<1>10. Numbered'
  <2> SUFFICES ASSUME NEW g \in Fds, NEW i \in 1..Len(wrote[g])
               PROVE  wrote[g][i] \in Nat \X Nat /\ wrote[g][i][1] <= calls + 1
    BY <1>1 DEF Numbered
  <2>1. wrote[g][i] \in Nat \X Nat /\ wrote[g][i][1] <= calls
    BY DEF IndInv, Numbered
  <2>2. wrote[g][i][1] \in Nat
    BY <2>1
  <2> DEFINE x == wrote[g][i][1]
  <2>3. x \in Nat /\ x <= calls /\ calls \in Nat
    BY <2>1, <2>2, <1>0
  <2> HIDE DEF x
  <2>4. x <= calls + 1
    BY ONLY <2>3
  <2> QED BY ONLY <2>1, <2>4 DEF x
<1>11. InOrder'
  BY <1>1 DEF IndInv, InOrder
<1>12. Chained'
  <2>1. call = Idle
    BY DEF Begin
  <2> QED BY <2>1, <1>1, <1>2 DEF IndInv, Chained, InCall
<1> QED BY <1>4, <1>5, <1>6, <1>7, <1>8, <1>9, <1>10, <1>11, <1>12
           DEF IndInv, Current

(* my_read fills the static buffer: what it held is used up.               *)
LEMMA FillStep ==
  ASSUME IndInv, NEW k \in 1..BufSize, Fill(k)
  PROVE  IndInv'
<1> DEFINE f == call.fd
           a == taken[f]
<1>1. /\ call # Idle /\ call.op = "Readline" /\ cache = <<>>
      /\ taken' = [taken EXCEPT ![f] = a + k]
      /\ cache' = Stream(f, a, k) /\ wrote' = wrote /\ call' = call
      /\ sent' = sent /\ ended' = ended /\ last' = last /\ line' = line
      /\ calls' = calls
  BY DEF Fill, InCall, peervars
<1>2. /\ call \in CallRec /\ f \in Fds /\ call.from \in Nat
      /\ call.stale \in Seq(Byte) /\ call.buf \in Seq(Byte)
      /\ Stored \in Nat /\ a \in Nat /\ call.n \in Nat
  BY <1>1, InProgressFacts
<1>3. k \in Nat /\ taken \in [Fds -> Nat] /\ Len(cache) = 0
  BY <1>1, WrapAssumption DEF IndInv, Types
<1>4. /\ call.from <= a /\ \A j \in 1..Stored : ~IsNewline(call.buf[j])
      /\ call.buf = call.stale \o Stream(f, call.from, a - call.from)
  <2>1. call.buf \o <<>> = call.buf
    BY <1>2, ConcatEmptySeq
  <2> QED BY <1>1, <2>1 DEF IndInv, Current, InLine, InCall, Supply
<1>5. /\ cache' \in Seq(Byte) /\ Len(cache') = k
      /\ \A j \in 1..k : cache'[j] = <<f, a + j>>
  <2>1. f \in Fds \cup Nat /\ a \in Nat /\ k \in Nat
    BY <1>2, <1>3
  <2>2. cache' = Stream(f, a, k)
    BY <1>1
  <2> HIDE DEF f, a
  <2>3. /\ Stream(f, a, k) \in Seq(Byte) /\ Len(Stream(f, a, k)) = k
        /\ \A j \in 1..k : Stream(f, a, k)[j] = <<f, a + j>>
    BY ONLY <2>1, StreamSeq
  <2> QED BY <2>2, <2>3
<1>6. taken' \in [Fds -> Nat] /\ taken'[f] = a + k
  BY <1>1, <1>2, <1>3
<1> HIDE DEF f, a
<1>7. Types'
  BY <1>1, <1>5, <1>6 DEF IndInv, Types
<1>8. InLine'
  <2> DEFINE from == call.from
             x == call.stale
             y == Stream(f, from, a - from)
             z == Stream(f, a, k)
  <2>1. f \in Fds /\ from \in Nat /\ a \in Nat /\ k \in Nat /\ from <= a
    BY <1>2, <1>3, <1>4
  <2>2. a - from \in Nat /\ f \in Fds \cup Nat
    BY <2>1
  <2>3. x \in Seq(Byte) /\ y \in Seq(Byte) /\ z \in Seq(Byte)
    BY <1>1, <1>2, <1>5, <2>1, <2>2, StreamSeq DEF f, a
  <2>4. y \o z = Stream(f, from, (a + k) - from)
    <3> HIDE DEF from
    <3> QED BY ONLY <2>1, StreamJoin
  <2>5. call.buf = x \o y /\ cache' = z
    BY <1>1, <1>4 DEF f, a
  <2>6. (Supply(call))' = x \o Stream(f, from, (a + k) - from)
    BY <1>1, <1>6 DEF Supply, f
  <2> HIDE DEF x, y, z
  <2>7. (x \o y) \o z = x \o (y \o z)
    BY <2>3, ConcatAssociative
  <2>8. call'.buf \o cache' = Supply(call)'
    BY <2>4, <2>5, <2>6, <2>7, <1>1
  <2>9. Stored' = Stored /\ call'.fd = f /\ call.from <= a + k
    BY <1>1, <2>1 DEF Stored, f
  <2> QED BY <2>8, <2>9, <1>1, <1>4, <1>6 DEF InLine
<1>9. Reading' /\ WritingOn' /\ InProgress'
  BY <1>1
     DEF IndInv, Current, Reading, WritingOn, InProgress, InCall, Streaming,
         Writing
<1>10. Done' /\ Numbered' /\ InOrder'
  BY <1>1 DEF IndInv, Done, Answer, Numbered, InOrder
<1>11. Chained'
  BY <1>1 DEF IndInv, Chained, InCall
<1> QED BY <1>7, <1>8, <1>9, <1>10, <1>11 DEF IndInv, Current

(* Readline takes a byte of the static buffer.                             *)
LEMMA LineByteStep ==
  ASSUME IndInv, LineByte
  PROVE  IndInv'
<1> DEFINE m == Len(call.buf)
           h == Head(cache)
           b == Append(call.buf, h)
<1>0. PICK c : c = [call EXCEPT !.buf = b]
  OBVIOUS
<1>1. /\ call # Idle /\ call.op = "Readline" /\ cache # <<>>
      /\ call.n - m > 1 /\ cache' = Tail(cache) /\ taken' = taken
      /\ wrote' = wrote /\ sent' = sent /\ ended' = ended /\ calls' = calls
      /\ IF IsNewline(h) THEN Return(c, m + 1)
                         ELSE call' = c /\ last' = last /\ line' = line
  BY <1>0 DEF LineByte, InCall, MoreRoom, Left, Stored, peervars
<1>2. /\ call \in CallRec /\ call.fd \in Fds /\ call.n \in Nat
      /\ call.buf \in Seq(Byte) /\ call.from \in Nat
      /\ call.stale \in Seq(Byte)
      /\ m \in Nat /\ taken[call.fd] \in Nat /\ Len(cache) \in Nat
  BY <1>1, InProgressFacts
<1>3. /\ cache \in Seq(Byte) /\ taken \in [Fds -> Nat]
      /\ wrote \in [Fds -> Seq(Byte)]
  BY DEF IndInv, Types
<1>4. /\ h = cache[1] /\ h \in Byte /\ cache' \in Seq(Byte)
      /\ Len(cache') = Len(cache) - 1 /\ Len(cache) > 0
      /\ \A j \in 1..Len(cache') : cache'[j] = cache[j + 1]
  BY <1>1, <1>2, <1>3, HeadTailProperties
<1> HIDE DEF h
<1>5. /\ b \in Seq(Byte) /\ Len(b) = m + 1 /\ b[m + 1] = h
      /\ \A j \in 1..m : b[j] = call.buf[j]
  BY <1>2, <1>4, AppendProperties
<1> HIDE DEF b, m
<1>6. /\ c \in CallRec /\ c.buf = b /\ c.op = call.op /\ c.fd = call.fd
      /\ c.n = call.n /\ c.from = call.from /\ c.stale = call.stale
  BY <1>0, <1>2, <1>5, NewBuf
<1>7. /\ \A j \in 1..m : ~IsNewline(call.buf[j])
      /\ call.from <= taken[call.fd] /\ call.buf \o cache = Supply(call)
  BY <1>1 DEF IndInv, Current, InLine, InCall, Stored, m
<1>8. c.buf \o cache' = Supply(c) /\ Supply(c) = Supply(call)
  <2>1. Supply(c) = Supply(call)
    BY <1>6 DEF Supply
  <2>2. b \o cache' = call.buf \o cache
    BY <1>1, <1>2, <1>3, MoveByte DEF b, h
  <2> QED BY <2>1, <2>2, <1>6, <1>7
<1>9. StreamBytes(c) /\ LineSoFar(c)
  <2>1. Len(b) < call.n /\ Len(b) - 1 = m
    BY <1>1, <1>2, <1>5 DEF m
  <2>2. \A j \in 1..(Len(b) - 1) : ~IsNewline(b[j])
    BY <2>1, <1>5, <1>7
  <2> QED BY <2>1, <2>2, <1>1, <1>6 DEF StreamBytes, LineSoFar, Streaming
<1>10. Numbered' /\ InOrder'
  BY <1>1 DEF IndInv, Numbered, InOrder
<1>11. CASE IsNewline(h)
  <2>0. PICK r : r = m + 1
    OBVIOUS
  <2>1. Return(c, r) /\ r \in Int
    BY <2>0, <1>1, <1>2, <1>11 DEF m
  <2>2. Answer(c, r)'
    <3>1. Len(c.buf) = r /\ Len(c.buf) > 0 /\ IsNewline(c.buf[Len(c.buf)])
      BY <2>0, <1>2, <1>5, <1>6, <1>11
    <3> QED BY <3>1, <1>1, <1>6 DEF Answer, Streaming
  <2>3. InCall({c.op}) /\ c.op = "Readline"
    BY <1>1, <1>6 DEF InCall
  <2> QED BY <2>1, <2>2, <2>3, <1>1, <1>3, <1>4, <1>6, <1>8, <1>9, <1>10,
             ReturnKeeps
<1>12. CASE ~IsNewline(h)
  <2>1. call' = c /\ last' = last /\ line' = line
    BY <1>1, <1>12
  <2>2. Types'
    BY <2>1, <1>1, <1>3, <1>4, <1>6 DEF IndInv, Types
  <2>3. InLine'
    <3>1. \A j \in 1..(m + 1) : ~IsNewline(b[j])
      <4> TAKE j \in 1..(m + 1)
      <4>1. j \in 1..m \/ j = m + 1
        BY <1>2
      <4> QED BY <4>1, <1>5, <1>7, <1>12
    <3>2. Stored' = m + 1 /\ call'.buf = b
      BY <2>1, <1>5, <1>6 DEF Stored
    <3>3. call'.buf \o cache' = Supply(call)'
      BY <2>1, <1>1, <1>8 DEF Supply
    <3>4. call'.from <= taken'[call'.fd]
      BY <2>1, <1>1, <1>6, <1>7
    <3> QED BY <3>1, <3>2, <3>3, <3>4 DEF InLine
  <2>4. Reading' /\ WritingOn' /\ InProgress'
    BY <2>1, <1>1, <1>6, <1>9
       DEF Reading, WritingOn, InProgress, InCall, Streaming, Writing
  <2>5. Done'
    BY <2>1, <1>1 DEF IndInv, Done, Answer
  <2>6. Chained'
    <3>1. InCall({"Readline"}) /\ InCall({"Readline"})'
      BY <2>1, <1>1, <1>6, IdleAssumption DEF InCall
    <3> QED BY <2>1, <1>6, <3>1 DEF IndInv, Chained
  <2> QED BY <2>2, <2>3, <2>4, <2>5, <2>6, <1>10 DEF IndInv, Current
<1> QED BY <1>11, <1>12

-----------------------------------------------------------------------------
(* Before the first call nothing has been moved.                           *)
LEMMA InitInd == Init => IndInv
<1> SUFFICES ASSUME Init
             PROVE  IndInv
  OBVIOUS
<1>1. /\ sent = [f \in Fds |-> 0] /\ taken = [f \in Fds |-> 0] /\ cache = <<>>
      /\ wrote = [f \in Fds |-> <<>>]
      /\ call = Idle /\ last = Idle /\ line = Idle /\ calls = 0
  BY DEF Init
<1>2. <<>> \in Seq(Byte) /\ \A f \in Fds : Len(wrote[f]) = 0
  BY <1>1
<1>3. sent \in [Fds -> Nat] /\ taken \in [Fds -> Nat] /\ calls \in Nat
  BY <1>1
<1>4. cache \in Seq(Byte) /\ wrote \in [Fds -> Seq(Byte)]
  BY <1>1, <1>2
<1>5. Types
  BY <1>1, <1>3, <1>4 DEF Types
<1>6. Current /\ Done /\ Chained
  BY <1>1
     DEF Current, Reading, WritingOn, InLine, InProgress, InCall, Done, Chained
<1>7. Numbered /\ InOrder
  BY <1>2 DEF Numbered, InOrder, SideBySide
<1> QED BY <1>5, <1>6, <1>7 DEF IndInv

(* Every step keeps the invariant.                                         *)
LEMMA Inductive == IndInv /\ [Next]_vars => IndInv'
<1> SUFFICES ASSUME IndInv, [Next]_vars
             PROVE  IndInv'
  OBVIOUS
<1>0. sent \in [Fds -> Nat]
  BY DEF IndInv, Types
<1>1. CASE UNCHANGED vars \/ Interrupted \/ Terminated
  <2>1. /\ sent' = sent /\ ended' = ended
        /\ UNCHANGED <<taken, cache, wrote, call, last, line, calls>>
    BY <1>1 DEF vars, iovars, peervars, Interrupted, Terminated
  <2> QED BY <2>1, <1>0, FrameStep
<1>2. ASSUME NEW f \in Fds, PeerSends(f) \/ PeerCloses(f)
      PROVE  IndInv'
  <2>1. /\ sent' \in [Fds -> Nat] /\ ended \subseteq ended'
        /\ UNCHANGED <<taken, cache, wrote, call, last, line, calls>>
    BY <1>0, <1>2 DEF PeerSends, PeerCloses, iovars
  <2> QED BY <2>1, FrameStep
<1>3. ASSUME NEW op \in Ops, NEW f \in Fds, NEW n \in Sizes, Begin(op, f, n)
      PROVE  IndInv'
  BY <1>3, BeginStep
<1>4. CASE Readn
  <2>1. CASE ReadEof
    BY <2>1, EndSteps
  <2>2. CASE \E k \in 1..Left : ReadSome(k)
    BY <2>2, ReadSomeStep
  <2> QED BY <1>4, <2>1, <2>2 DEF Readn
<1>5. CASE Writen
  BY <1>5, WriteSomeStep DEF Writen
<1>6. CASE Readline
  <2>1. CASE LineEof \/ LineFull
    BY <2>1, EndSteps
  <2>2. CASE \E k \in 1..BufSize : Fill(k)
    BY <2>2, FillStep
  <2>3. CASE LineByte
    BY <2>3, LineByteStep
  <2> QED BY <1>6, <2>1, <2>2, <2>3 DEF Readline, my_read
<1>7. CASE AllMoved \/ Fails
  BY <1>7, EndSteps
<1> QED BY <1>1, <1>2, <1>3, <1>4, <1>5, <1>6, <1>7 DEF Next, SystemCall

(* The invariant holds in every state.                                     *)
LEMMA Invariant == Spec => []IndInv
  BY InitInd, Inductive, PTL DEF Spec

-----------------------------------------------------------------------------
(* Read and Readn hand over exactly the bytes that follow, however the     *)
(* kernel splits or interrupts the transfer, and Readn comes back short    *)
(* only at the end of the stream.                                          *)
THEOREM ReadsExactly == Spec => []ReadExact
<1>1. IndInv => ReadExact
  <2> SUFFICES ASSUME IndInv, Returned(Streaming)
               PROVE  /\ last.call.buf
                           = Stream(last.call.fd, last.call.from, last.ret)
                      /\ last.ret < last.call.n =>
                           \/ last.call.fd \in ended
                           \/ last.call.op = "Read" /\ last.ret > 0
    BY DEF ReadExact
  <2> DEFINE c == last.call
             r == last.ret
  <2>1. c \in CallRec /\ r \in Int /\ r >= 0 /\ c.op \in Streaming
    BY DEF IndInv, Types, Returned
  <2>2. StreamBytes(c) /\ Answer(c, r)
    BY DEF IndInv, Done, Returned
  <2> HIDE DEF c, r
  <2>3. /\ Len(c.buf) = r
        /\ r < c.n => c.fd \in ended \/ (c.op = "Read" /\ r > 0)
        /\ \A j \in 1..Len(c.buf) : c.buf[j] = <<c.fd, c.from + j>>
    BY <2>1, <2>2 DEF Answer, StreamBytes
  <2>4. c.buf \in Seq(Byte) /\ c.fd \in Fds /\ c.from \in Nat /\ r \in Nat
    BY <2>1, CallFields
  <2>5. c.buf = Stream(c.fd, c.from, r)
    <3> DEFINE s == c.buf
               f == c.fd
               a == c.from
    <3>1. /\ s \in Seq(Byte) /\ f \in Fds /\ a \in Nat /\ r \in Nat
          /\ Len(s) = r
          /\ \A j \in 1..r : s[j] = <<f, a + j>>
      BY <2>3, <2>4
    <3> HIDE DEF s, f, a
    <3>2. s = Stream(f, a, r)
      BY ONLY <3>1, SameBytes
    <3> QED BY <3>2 DEF s, f, a
  <2> QED BY <2>3, <2>5 DEF c, r
<1> QED BY <1>1, Invariant, PTL

(* What Write and Writen are given reaches the stream once, in order and   *)
(* in one piece, and all of it when Writen returns n.                      *)
THEOREM WritesInOrder == Spec => []WrittenInOrder
<1>1. IndInv => WrittenInOrder
  <2> SUFFICES ASSUME IndInv
               PROVE  WrittenInOrder
    OBVIOUS
  <2>1. \A f \in Fds : \A i \in 1..Len(wrote[f]) :
          IF wrote[f][i][2] = 1
          THEN \A j \in 1..(i - 1) : wrote[f][j][1] # wrote[f][i][1]
          ELSE i > 1 /\ wrote[f][i - 1]
                          = <<wrote[f][i][1], wrote[f][i][2] - 1>>
    BY Zenon DEF IndInv, InOrder, SideBySide
  <2>2. Returned({"Writen"}) /\ last.call.n > 0 =>
          \E i \in 1..Len(wrote[last.call.fd]) :
            wrote[last.call.fd][i] = <<last.call.id, last.call.n>>
    BY DEF IndInv, Done, Answer, Returned
  <2> QED BY <2>1, <2>2, Zenon DEF WrittenInOrder
<1> QED BY <1>1, Invariant, PTL

(* Readline never stores the maxlen-th byte nor one after a newline, and   *)
(* its result tells how the line ended.                                    *)
THEOREM LinesWellFormed == Spec => []LineShape
<1>1. IndInv => LineShape
  <2> SUFFICES ASSUME IndInv, Returned({"Readline"})
               PROVE  LineShape
    BY DEF LineShape
  <2>1. LineSoFar(last.call) /\ Answer(last.call, last.ret)
        /\ last.call.op = "Readline" /\ last.ret >= 0
    BY DEF IndInv, Done, Returned
  <2> QED BY <2>1 DEF LineSoFar, Answer, LineShape
<1> QED BY <1>1, Invariant, PTL

(* Whatever the size of the static buffer and however read(2) fills it, a  *)
(* Readline has stored the first of the bytes it was supplied with and the *)
(* static buffer holds the rest; and the next Readline is supplied with    *)
(* that rest first.  Nothing is lost, repeated or reordered between        *)
(* Readlines, on one descriptor or on several.                             *)
THEOREM LinesContinue == Spec => []LineBytes
<1>1. IndInv => LineBytes
  BY DEF IndInv, Current, InLine, Chained, LineBytes
<1> QED BY <1>1, Invariant, PTL
=============================================================================
