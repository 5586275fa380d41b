----------------------------- MODULE BufferProofs -----------------------------
(***************************************************************************)
(* The positions of moon::buffer never leave its vector, and the buffer    *)
(* implements the byte queue, for every buffer size and every input.       *)
(*                                                                         *)
(* The argument is about windows: the readable bytes are the window of the *)
(* vector between the two positions.  able_wirte keeps that window, a copy *)
(* behind the write position appends to it, consuming cuts its front.      *)
(***************************************************************************)
EXTENDS Buffer, SequenceTheorems, TLAPS

(* The bytes of vector s between the positions r and w.                    *)
Window(s, r, w) == SubSeq(s, r + 1, w)

(* What an element of the vector can be.                                   *)
Vec == Bytes \cup {Zero}

(* What memcpy leaves in each place of the vector.                         *)
LEMMA CopyToSeq ==
  ASSUME NEW s \in Seq(Vec), NEW at \in Nat, NEW d \in Seq(Vec)
  PROVE  /\ CopyTo(s, at, d) \in Seq(Vec)
         /\ Len(CopyTo(s, at, d)) = Len(s)
         /\ \A i \in 1..Len(s) :
              CopyTo(s, at, d)[i]
                = IF i - at \in 1..Len(d) THEN d[i - at] ELSE s[i]
  BY DEF CopyTo

(* The same for resize.                                                    *)
LEMMA ResizeSeq ==
  ASSUME NEW s \in Seq(Vec), NEW n \in Nat
  PROVE  /\ Resize(s, n) \in Seq(Vec)
         /\ Len(Resize(s, n)) = n
         /\ \A i \in 1..n :
              Resize(s, n)[i] = IF i <= Len(s) THEN s[i] ELSE Zero
  BY DEF Resize, Vec

(* The same for memmove.                                                   *)
LEMMA MoveSeq ==
  ASSUME NEW s \in Seq(Vec), NEW from \in Nat, NEW n \in Nat,
         from + n <= Len(s)
  PROVE  /\ MoveToFront(s, from, n) \in Seq(Vec)
         /\ Len(MoveToFront(s, from, n)) = Len(s)
         /\ \A i \in 1..Len(s) :
              MoveToFront(s, from, n)[i] = IF i <= n THEN s[from + i] ELSE s[i]
  BY DEF MoveToFront

(* The window between two positions of the vector, place by place.         *)
LEMMA WindowSeq ==
  ASSUME NEW s \in Seq(Vec), NEW r \in Nat, NEW w \in Nat, r <= w, w <= Len(s)
  PROVE  /\ Window(s, r, w) \in Seq(Vec)
         /\ Len(Window(s, r, w)) = w - r
         /\ \A i \in 1..(w - r) : Window(s, r, w)[i] = s[r + i]
<1>1. \A i \in (r + 1)..w : s[i] \in Vec
  BY ElementOfSeq
<1> QED BY <1>1, SubSeqProperties DEF Window

(* Position by position, the window p..q of t is r..w of s followed by d.  *)
Extended(s, r, w, d, t, p, q) ==
  /\ s \in Seq(Vec) /\ t \in Seq(Vec) /\ d \in Seq(Vec)
  /\ r \in Nat /\ w \in Nat /\ r <= w /\ w <= Len(s)
  /\ p \in Nat /\ q \in Nat /\ q = p + (w - r) + Len(d) /\ q <= Len(t)
  /\ \A i \in 1..(w - r) : t[p + i] = s[r + i]
  /\ \A i \in 1..Len(d) : t[p + (w - r) + i] = d[i]

(* Then it is the concatenation.                                           *)
LEMMA WindowExtended ==
  ASSUME NEW s, NEW r, NEW w, NEW d, NEW t, NEW p, NEW q,
         Extended(s, r, w, d, t, p, q)
  PROVE  Window(t, p, q) = Window(s, r, w) \o d
<1> DEFINE a == Window(s, r, w)
           b == Window(t, p, q)
           c == a \o d
<1> DEFINE n == Len(d)
           k == w - r
<1>0. /\ s \in Seq(Vec) /\ t \in Seq(Vec) /\ d \in Seq(Vec)
      /\ r \in Nat /\ w \in Nat /\ p \in Nat /\ q \in Nat
      /\ r <= w /\ w <= Len(s) /\ q <= Len(t)
      /\ n \in Nat /\ k \in Nat /\ q - p = k + n /\ p <= q
  BY LenProperties DEF Extended
<1>0a. /\ \A i \in 1..k : t[p + i] = s[r + i]
       /\ \A i \in 1..n : t[(p + k) + i] = d[i]
  BY DEF Extended
<1>1. /\ a \in Seq(Vec) /\ Len(a) = k
      /\ \A i \in 1..k : a[i] = s[r + i]
  <2>1. /\ s \in Seq(Vec) /\ r \in Nat /\ w \in Nat
        /\ r <= w /\ w <= Len(s)
    BY ONLY <1>0
  <2>2. /\ a \in Seq(Vec) /\ Len(a) = w - r
        /\ \A i \in 1..(w - r) : a[i] = s[r + i]
    BY ONLY <2>1, WindowSeq, Zenon
  <2> HIDE DEF a
  <2> QED BY ONLY <2>2
<1>2. /\ b \in Seq(Vec) /\ Len(b) = k + n
      /\ \A i \in 1..(k + n) : b[i] = t[p + i]
  <2>1. /\ b \in Seq(Vec) /\ Len(b) = q - p
        /\ \A i \in 1..(q - p) : b[i] = t[p + i]
    BY ONLY <1>0, WindowSeq
  <2> QED BY ONLY <2>1, <1>0
<1> HIDE DEF a, b, k
<1>3. /\ c \in Seq(Vec) /\ Len(c) = k + n
      /\ \A i \in 1..(k + n) : c[i] = IF i <= k THEN a[i] ELSE d[i - k]
  <2>1. d \in Seq(Vec) /\ a \in Seq(Vec)
    BY <1>0, <1>1
  <2>2. /\ c \in Seq(Vec) /\ Len(c) = Len(a) + Len(d)
        /\ \A i \in 1..(Len(a) + Len(d)) :
             c[i] = IF i <= Len(a) THEN a[i] ELSE d[i - Len(a)]
    BY ONLY <2>1, ConcatProperties, Zenon
  <2> HIDE DEF c
  <2> QED BY ONLY <2>2, <1>1
<1> HIDE DEF c, n
<1>4. Len(b) = Len(c)
  BY ONLY <1>2, <1>3
<1>5. ASSUME NEW i \in 1..Len(b)
      PROVE  b[i] = c[i]
  <2>0. /\ i \in 1..(k + n) /\ b[i] = t[p + i]
        /\ c[i] = IF i <= k THEN a[i] ELSE d[i - k]
    BY ONLY <1>2, <1>3, <1>5
  <2>1. CASE i <= k
    <3>1. i \in 1..k
      BY ONLY <2>0, <2>1, <1>0
    <3> QED BY ONLY <3>1, <2>0, <2>1, <1>1, <1>0a
  <2>2. CASE i > k
    <3>1. i - k \in 1..n /\ p + i = (p + k) + (i - k) /\ ~(i <= k)
      BY ONLY <2>0, <2>2, <1>0
    <3>2. t[(p + k) + (i - k)] = d[i - k]
      BY ONLY <3>1, <1>0a
    <3> QED BY ONLY <3>1, <3>2, <2>0
  <2> QED BY ONLY <2>0, <2>1, <2>2, <1>0
<1>6. b = c
  BY <1>2, <1>3, <1>4, <1>5, SeqEqual
<1> QED BY <1>6 DEF a, b, c

(* A window of a window.                                                   *)
LEMMA WindowOfWindow ==
  ASSUME NEW s \in Seq(Vec), NEW r \in Nat, NEW w \in Nat, r <= w, w <= Len(s),
         NEW m \in Nat, NEW n \in Nat, m <= n, n <= w - r
  PROVE  Window(Window(s, r, w), m, n) = Window(s, r + m, r + n)
<1> DEFINE a == Window(s, r, w)
<1>1. /\ a \in Seq(Vec) /\ Len(a) = w - r
      /\ \A i \in 1..(w - r) : a[i] = s[r + i]
  BY WindowSeq
<1> HIDE DEF a
<1>2. ASSUME NEW i \in 1..(n - m)
      PROVE  a[m + i] = s[(r + m) + i]
  <2>1. m + i \in 1..(w - r) /\ r + (m + i) = (r + m) + i
    OBVIOUS
  <2> QED BY <2>1, <1>1
<1> DEFINE p == r + m
           q == r + n
<1>3. p \in Nat /\ q \in Nat /\ p <= q /\ q <= Len(s) /\ q - p = n - m
  OBVIOUS
<1>4. \A i \in 1..(n - m) : a[m + i] = s[p + i]
  BY <1>2
<1> HIDE DEF p, q
<1> DEFINE b == Window(a, m, n)
           c == Window(s, p, q)
<1>5. /\ c \in Seq(Vec) /\ Len(c) = n - m
      /\ \A i \in 1..(n - m) : c[i] = s[p + i]
  <2>1. /\ c \in Seq(Vec) /\ Len(c) = q - p
        /\ \A i \in 1..(q - p) : c[i] = s[p + i]
    BY <1>3, WindowSeq
  <2> HIDE DEF c
  <2> QED BY <2>1, <1>3
<1>6. /\ b \in Seq(Vec) /\ Len(b) = n - m
      /\ \A i \in 1..(n - m) : b[i] = a[m + i]
  BY <1>1, WindowSeq
<1> HIDE DEF b, c
<1>7. Len(b) = Len(c) /\ \A i \in 1..Len(b) : b[i] = c[i]
  BY <1>4, <1>5, <1>6
<1>8. b = c
  BY <1>5, <1>6, <1>7, SeqEqual
<1> QED BY <1>8 DEF a, b, c, p, q

(* A sequence is its first k elements followed by the others.              *)
LEMMA SplitSeq ==
  ASSUME NEW d \in Seq(Vec), NEW k \in Nat, k <= Len(d)
  PROVE  /\ SubSeq(d, 1, k) \in Seq(Vec) /\ Len(SubSeq(d, 1, k)) = k
         /\ SubSeq(d, k + 1, Len(d)) \in Seq(Vec)
         /\ SubSeq(d, 1, k) \o SubSeq(d, k + 1, Len(d)) = d
<1> DEFINE n == Len(d)
<1>1. n \in Nat /\ 1 \in 1..(n + 1) /\ k \in (1 - 1)..n /\ n \in k..n
  BY LenProperties
<1>2. \A i \in 1..n : d[i] \in Vec
  BY ElementOfSeq
<1> HIDE DEF n
<1>3. SubSeq(d, 1, k) \in Seq(Vec) /\ Len(SubSeq(d, 1, k)) = k
  BY <1>1, <1>2, SubSeqProperties
<1>4. SubSeq(d, k + 1, n) \in Seq(Vec)
  BY <1>1, <1>2, SubSeqProperties
<1>5. SubSeq(d, 1, k) \o SubSeq(d, k + 1, n) = SubSeq(d, 1, n)
  BY <1>1, ConcatAdjacentSubSeq, Zenon DEF n
<1>6. SubSeq(d, 1, n) = d
  BY SubSeqFull DEF n
<1> QED BY <1>3, <1>4, <1>5, <1>6 DEF n

(* A memcpy of d behind the write position appends d to the window.        *)
LEMMA CopyExtends ==
  ASSUME NEW s \in Seq(Vec), NEW r \in Nat, NEW w \in Nat, NEW d \in Seq(Vec),
         r <= w, w + Len(d) <= Len(s)
  PROVE  /\ CopyTo(s, w, d) \in Seq(Vec)
         /\ Len(CopyTo(s, w, d)) = Len(s)
         /\ Window(CopyTo(s, w, d), r, w + Len(d)) = Window(s, r, w) \o d
<1> DEFINE t == CopyTo(s, w, d)
           q == w + Len(d)
<1>1. Len(d) \in Nat /\ Len(s) \in Nat
  BY LenProperties
<1>2. /\ t \in Seq(Vec) /\ Len(t) = Len(s)
      /\ \A i \in 1..Len(s) :
           t[i] = IF i - w \in 1..Len(d) THEN d[i - w] ELSE s[i]
  BY CopyToSeq
<1> HIDE DEF t
<1>3. ASSUME NEW i \in 1..(w - r)
      PROVE  t[r + i] = s[r + i]
  <2>1. r + i \in 1..Len(s) /\ ~((r + i) - w \in 1..Len(d))
    BY <1>1
  <2> QED BY <2>1, <1>2
<1>4. ASSUME NEW i \in 1..Len(d)
      PROVE  t[r + (w - r) + i] = d[i]
  <2>1. r + (w - r) + i = w + i /\ w + i \in 1..Len(s) /\ (w + i) - w = i
    BY <1>1
  <2> QED BY <2>1, <1>2
<1>5. q \in Nat /\ q = r + (w - r) + Len(d) /\ q <= Len(t) /\ w <= Len(s)
  BY <1>1, <1>2
<1> HIDE DEF q
<1>6. Extended(s, r, w, d, t, r, q)
  BY <1>2, <1>3, <1>4, <1>5 DEF Extended
<1>7. Window(t, r, q) = Window(s, r, w) \o d
  BY <1>6, WindowExtended
<1> QED BY <1>2, <1>7 DEF t, q

(* able_wirte makes room for len bytes and keeps the readable ones.        *)
LEMMA AbleWirteKeeps ==
  ASSUME NEW s \in Seq(Vec), NEW r \in Nat, NEW w \in Nat, NEW len \in Nat,
         r <= w, w <= Len(s),
         NEW b, b = able_wirte(s, r, w, len)
  PROVE  /\ b.store \in Seq(Vec) /\ b.reader \in Nat /\ b.writer \in Nat
         /\ b.reader <= b.writer /\ b.writer + len <= Len(b.store)
         /\ Window(b.store, b.reader, b.writer) = Window(s, r, w)
<1> DEFINE moves == Len(s) - w < len /\ r > 0
           s1 == IF moves THEN MoveToFront(s, r, w - r) ELSE s
           r1 == IF moves THEN 0 ELSE r
           w1 == IF moves THEN w - r ELSE w
           s2 == IF Len(s1) - w1 < len THEN Resize(s1, w1 + len) ELSE s1
<1>1. b.store = s2 /\ b.reader = r1 /\ b.writer = w1
  BY DEF able_wirte
<1>2. Len(s) \in Nat
  BY LenProperties
<1>3. /\ s1 \in Seq(Vec) /\ Len(s1) = Len(s)
      /\ \A i \in 1..(w - r) : s1[r1 + i] = s[r + i]
  <2>1. CASE moves
    <3>1. s1 = MoveToFront(s, r, w - r) /\ r1 = 0 /\ w - r \in Nat
      BY <2>1
    <3>2. /\ s1 \in Seq(Vec) /\ Len(s1) = Len(s)
          /\ \A i \in 1..Len(s) : s1[i] = IF i <= w - r THEN s[r + i] ELSE s[i]
      BY <3>1, MoveSeq
    <3> HIDE DEF s1, r1
    <3>3. ASSUME NEW i \in 1..(w - r)
          PROVE  s1[r1 + i] = s[r + i]
      <4>1. r1 + i = i /\ i \in 1..Len(s) /\ i <= w - r
        BY <3>1, <1>2
      <4> QED BY <4>1, <3>2
    <3> QED BY <3>2, <3>3
  <2>2. CASE ~moves
    BY <2>2
  <2> QED BY <2>1, <2>2
<1>4. r1 \in Nat /\ w1 \in Nat /\ w1 - r1 = w - r /\ r1 <= w1 /\ w1 <= Len(s1)
  BY <1>2, <1>3
<1> HIDE DEF moves, s1, r1, w1
<1>5. /\ s2 \in Seq(Vec) /\ Len(s2) \in Nat /\ w1 + len <= Len(s2)
      /\ \A i \in 1..(w - r) : s2[r1 + i] = s[r + i]
  <2>1. CASE Len(s1) - w1 < len
    <3>1. w1 + len \in Nat /\ s2 = Resize(s1, w1 + len)
      BY <2>1, <1>2, <1>4
    <3>2. /\ s2 \in Seq(Vec) /\ Len(s2) = w1 + len
          /\ \A i \in 1..(w1 + len) :
               s2[i] = IF i <= Len(s1) THEN s1[i] ELSE Zero
      <4> HIDE DEF s2
      <4> QED BY <3>1, <1>3, ResizeSeq
    <3> HIDE DEF s2
    <3>3. ASSUME NEW i \in 1..(w - r)
          PROVE  s2[r1 + i] = s[r + i]
      <4>1. r1 + i \in 1..(w1 + len) /\ r1 + i <= Len(s1)
        BY <1>2, <1>3, <1>4
      <4>2. s2[r1 + i] = s1[r1 + i]
        BY <4>1, <3>2
      <4> QED BY <4>2, <1>3
    <3> QED BY <3>1, <3>2, <3>3
  <2>2. CASE ~(Len(s1) - w1 < len)
    BY <2>2, <1>2, <1>3, <1>4
  <2> QED BY <2>1, <2>2
<1> HIDE DEF s2
<1>6. Window(s2, r1, w1) = Window(s, r, w)
  <2> DEFINE e == <<>>
  <2>1. /\ e \in Seq(Vec) /\ w1 = r1 + (w - r) + Len(e)
        /\ \A i \in 1..Len(e) : s2[r1 + (w - r) + i] = e[i]
    BY <1>4, EmptySeq
  <2> HIDE DEF e
  <2>2. w1 <= Len(s2)
    BY <1>4, <1>5
  <2>3. Extended(s, r, w, e, s2, r1, w1)
    BY <2>1, <2>2, <1>4, <1>5 DEF Extended
  <2>4. Window(s2, r1, w1) = Window(s, r, w) \o e
    BY <2>3, WindowExtended
  <2> QED BY <2>4, WindowSeq, ConcatEmptySeq DEF e
<1> QED BY <1>1, <1>4, <1>5, <1>6

(* append, on any vector and positions: the bytes are added to the window. *)
LEMMA AppendedAdds ==
  ASSUME NEW s \in Seq(Vec), NEW r \in Nat, NEW w \in Nat, NEW d \in Seq(Vec),
         r <= w, w <= Len(s), Appended(s, r, w, d)
  PROVE  /\ store' \in Seq(Vec) /\ reader' \in Nat /\ writer' \in Nat
         /\ InBounds'
         /\ Window(store', reader', writer') = Window(s, r, w) \o d
<1> DEFINE b == able_wirte(s, r, w, Len(d))
<1>1. /\ store' = CopyTo(b.store, b.writer, d)
      /\ reader' = b.reader /\ writer' = b.writer + Len(d)
  BY Zenon DEF Appended
<1>2. Len(d) \in Nat
  BY LenProperties
<1>3. /\ b.store \in Seq(Vec) /\ b.reader \in Nat /\ b.writer \in Nat
      /\ b.reader <= b.writer /\ b.writer + Len(d) <= Len(b.store)
      /\ Window(b.store, b.reader, b.writer) = Window(s, r, w)
  BY <1>2, AbleWirteKeeps
<1> HIDE DEF b
<1>4. /\ store' \in Seq(Vec) /\ Len(store') = Len(b.store)
      /\ Window(store', b.reader, b.writer + Len(d))
           = Window(b.store, b.reader, b.writer) \o d
  <2> DEFINE bs == b.store
             br == b.reader
             bw == b.writer
  <2>1. /\ bs \in Seq(Vec) /\ br \in Nat /\ bw \in Nat
        /\ br <= bw /\ bw + Len(d) <= Len(bs)
    BY <1>3
  <2> HIDE DEF bs, br, bw
  <2>2. /\ CopyTo(bs, bw, d) \in Seq(Vec)
        /\ Len(CopyTo(bs, bw, d)) = Len(bs)
        /\ Window(CopyTo(bs, bw, d), br, bw + Len(d)) = Window(bs, br, bw) \o d
    BY <2>1, CopyExtends
  <2> QED BY <2>2, <1>1 DEF bs, br, bw
<1>5. /\ writer' \in Nat /\ reader' \in Nat
      /\ reader' <= writer' /\ writer' <= Len(store')
  <2> DEFINE br == b.reader
             bw == b.writer
             n == Len(d)
  <2>1. /\ reader' = br /\ writer' = bw + n
        /\ br \in Nat /\ bw \in Nat /\ n \in Nat /\ br <= bw
    BY ONLY <1>1, <1>2, <1>3
  <2>2. writer' <= Len(store')
    BY ONLY <1>1, <1>3, <1>4, Zenon
  <2> HIDE DEF br, bw, n
  <2>3. writer' \in Nat /\ reader' \in Nat /\ reader' <= writer'
    BY ONLY <2>1
  <2> QED BY ONLY <2>2, <2>3
<1>6. Window(store', reader', writer') = Window(s, r, w) \o d
  BY ONLY <1>1, <1>3, <1>4, Zenon
<1> QED BY <1>4, <1>5, <1>6 DEF InBounds

-----------------------------------------------------------------------------
(* The positions are in order and the vector holds bytes or Zero.          *)
IndInv == store \in Seq(Vec) /\ reader \in Nat /\ writer \in Nat /\ InBounds

(* The readable bytes.                                                     *)
Content == Window(store, reader, writer)

(* They are a sequence as long as the distance of the positions.           *)
LEMMA ContentSeq ==
  ASSUME IndInv
  PROVE  Content \in Seq(Vec) /\ Len(Content) = writer - reader
  BY WindowSeq DEF IndInv, InBounds, Content

(* What is put in is made of bytes.                                        *)
LEMMA InputSeq == \A d \in Inputs : d \in Seq(Bytes) /\ d \in Seq(Vec)
  BY BufferAssumption, SeqMonotonic DEF Vec

(* The buffer starts empty.                                                *)
LEMMA InitInd == Init => IndInv /\ Content = <<>>
<1> SUFFICES ASSUME Init PROVE IndInv /\ Content = <<>>
  OBVIOUS
<1>1. store \in Seq(Vec) /\ Len(store) = BufSize
  BY BufferAssumption DEF Init, Vec
<1>2. reader = 0 /\ writer = 0
  BY DEF Init
<1>3. IndInv
  BY <1>1, <1>2, BufferAssumption DEF IndInv, InBounds
<1>4. Content = <<>>
  BY <1>2, SubSeqEmpty DEF Content, Window
<1> QED BY <1>3, <1>4

(* append puts the bytes behind the readable ones.                         *)
LEMMA AppendStep ==
  ASSUME IndInv, NEW d \in Inputs, append(d)
  PROVE  IndInv' /\ Content' = Content \o d
<1>1. d \in Seq(Vec)
  BY InputSeq
<1>2. Appended(store, reader, writer, d)
  BY DEF append
<1>3. /\ store' \in Seq(Vec) /\ reader' \in Nat /\ writer' \in Nat
      /\ InBounds'
      /\ Window(store', reader', writer') = Window(store, reader, writer) \o d
  BY <1>1, <1>2, AppendedAdds DEF IndInv, InBounds
<1> QED BY <1>3 DEF IndInv, Content

(* readiov does the same, whatever part of the bytes went through the      *)
(* stack buffer.                                                           *)
LEMMA ReadiovStep ==
  ASSUME IndInv, NEW d \in Inputs, readiov(d)
  PROVE  IndInv' /\ Content' = Content \o d
<1> DEFINE wbytes == Len(store) - writer
           head == SubSeq(d, 1, IF Len(d) < wbytes THEN Len(d) ELSE wbytes)
           rest == SubSeq(d, wbytes + 1, Len(d))
           s == CopyTo(store, writer, head)
<1>1. d \in Seq(Vec) /\ Len(d) \in Nat
  BY InputSeq, LenProperties
<1>2. /\ store \in Seq(Vec) /\ reader \in Nat /\ writer \in Nat
      /\ reader <= writer /\ writer <= Len(store) /\ Len(store) \in Nat
  BY LenProperties DEF IndInv, InBounds
<1>3. wbytes \in Nat
  BY <1>2
<1>4. IF Len(d) <= wbytes
      THEN store' = s /\ writer' = writer + Len(d) /\ reader' = reader
      ELSE Appended(s, reader, Len(s), rest)
  BY Zenon DEF readiov, writebytes
<1>5. CASE Len(d) <= wbytes
  <2>1. head = SubSeq(d, 1, Len(d))
    BY <1>1, <1>3, <1>5
  <2>2. head = d
    BY <2>1, <1>1, SubSeqFull
  <2>3. writer + Len(d) <= Len(store) /\ writer + Len(d) \in Nat
    BY <1>1, <1>2, <1>5
  <2>4. store' = CopyTo(store, writer, d)
    BY <2>2, <1>4, <1>5
  <2>5. /\ store' \in Seq(Vec) /\ Len(store') = Len(store)
        /\ Window(store', reader, writer + Len(d))
             = Window(store, reader, writer) \o d
    BY <2>3, <2>4, <1>1, <1>2, CopyExtends
  <2>6. writer' = writer + Len(d) /\ reader' = reader
    BY <1>4, <1>5
  <2>7. IndInv'
    BY <2>3, <2>5, <2>6, <1>1, <1>2 DEF IndInv, InBounds
  <2> QED BY <2>5, <2>6, <2>7 DEF Content
<1>6. CASE ~(Len(d) <= wbytes)
  <2>1. head = SubSeq(d, 1, wbytes) /\ wbytes < Len(d)
    BY <1>1, <1>3, <1>6
  <2>2. /\ head \in Seq(Vec) /\ Len(head) = wbytes
        /\ rest \in Seq(Vec) /\ head \o rest = d
    <3> HIDE DEF wbytes
    <3>1. wbytes <= Len(d)
      BY <2>1, <1>1, <1>3
    <3> QED BY <3>1, <2>1, <1>1, <1>3, SplitSeq
  <2> HIDE DEF head, rest
  <2>4. writer + Len(head) = Len(store)
    BY <2>2, <1>2
  <2>5. /\ s \in Seq(Vec) /\ Len(s) = Len(store)
        /\ Window(s, reader, Len(store))
             = Window(store, reader, writer) \o head
    <3>1. writer + Len(head) <= Len(store)
      BY <2>4, <1>2
    <3>2. /\ CopyTo(store, writer, head) \in Seq(Vec)
          /\ Len(CopyTo(store, writer, head)) = Len(store)
          /\ Window(CopyTo(store, writer, head), reader, writer + Len(head))
               = Window(store, reader, writer) \o head
      <4>1. head \in Seq(Vec)
        BY <2>2
      <4>2. /\ store \in Seq(Vec) /\ reader \in Nat /\ writer \in Nat
            /\ reader <= writer
        BY <1>2
      <4> HIDE DEF s, wbytes
      <4> QED BY <3>1, <4>1, <4>2, CopyExtends
    <3>3. s = CopyTo(store, writer, head)
      BY DEF s
    <3> HIDE DEF s
    <3> QED BY <3>2, <3>3, <2>4
  <2> HIDE DEF s
  <2>6. Appended(s, reader, Len(s), rest)
    BY <1>4, <1>6
  <2>6a. reader <= Len(s) /\ Len(s) \in Nat /\ Len(s) <= Len(s)
    BY <2>5, <1>2
  <2>7. /\ store' \in Seq(Vec) /\ reader' \in Nat /\ writer' \in Nat
        /\ InBounds'
        /\ Window(store', reader', writer') = Window(s, reader, Len(s)) \o rest
    <3>1. rest \in Seq(Vec) /\ s \in Seq(Vec) /\ reader \in Nat
      BY <2>2, <2>5, <1>2
    <3> QED BY <3>1, <2>6, <2>6a, AppendedAdds
  <2>8. (Content \o head) \o rest = Content \o (head \o rest)
    <3>1. Content \in Seq(Vec) /\ head \in Seq(Vec) /\ rest \in Seq(Vec)
      BY <2>2, ContentSeq
    <3> QED BY <3>1, ConcatAssociative
  <2>9. Content' = (Content \o head) \o rest
    BY <2>5, <2>7 DEF Content
  <2> QED BY <2>2, <2>7, <2>8, <2>9 DEF IndInv
<1> QED BY <1>5, <1>6

(* The bytes that are consumed are the first ones, and they are all that   *)
(* leaves the queue.                                                       *)
LEMMA ConsumeStep ==
  ASSUME IndInv, NEW n \in Nat, n <= writer - reader, Consume(n)
  PROVE  /\ IndInv'
         /\ SubSeq(store, reader + 1, reader + n) = SubSeq(Content, 1, n)
         /\ Content' = SubSeq(Content, n + 1, Len(Content))
<1>1. /\ store \in Seq(Vec) /\ reader \in Nat /\ writer \in Nat
      /\ reader <= writer /\ writer <= Len(store) /\ Len(store) \in Nat
  BY LenProperties DEF IndInv, InBounds
<1>2. Len(Content) = writer - reader
  BY ContentSeq
<1>3. SubSeq(store, reader + 1, reader + n) = SubSeq(Content, 1, n)
  <2>1. Window(Content, 0, n) = Window(store, reader + 0, reader + n)
    BY <1>1, WindowOfWindow DEF Content
  <2>2. reader + 0 = reader /\ 0 + 1 = 1
    BY <1>1
  <2> QED BY <2>1, <2>2 DEF Window
<1>4. store' = store
  BY DEF Consume
<1>5. CASE reader + n = writer
  <2>1. reader' = 0 /\ writer' = 0
    BY <1>5 DEF Consume
  <2>2. Content' = <<>>
    BY <2>1, SubSeqEmpty DEF Content, Window
  <2>3. SubSeq(Content, n + 1, Len(Content)) = <<>>
    BY <1>1, <1>2, <1>5, SubSeqEmpty
  <2>4. IndInv'
    BY <2>1, <1>1, <1>4 DEF IndInv, InBounds
  <2> QED BY <2>2, <2>3, <2>4, <1>3
<1>6. CASE reader + n # writer
  <2>1. reader' = reader + n /\ writer' = writer
    BY <1>6 DEF Consume
  <2>2. IndInv'
    BY <2>1, <1>1, <1>4 DEF IndInv, InBounds
  <2>3. Window(Content, n, writer - reader)
          = Window(store, reader + n, reader + (writer - reader))
    <3>1. writer - reader \in Nat
      BY <1>1
    <3> QED BY <3>1, <1>1, WindowOfWindow DEF Content
  <2>4. reader + (writer - reader) = writer
    BY <1>1
  <2>5. Content' = SubSeq(Content, n + 1, Len(Content))
    BY <2>1, <2>3, <2>4, <1>2, <1>4 DEF Content, Window
  <2> QED BY <2>2, <2>5, <1>3
<1> QED BY <1>5, <1>6

(* remove, retrieve and receive take the first bytes, or all of them.      *)
LEMMA RemoveStep ==
  ASSUME IndInv, NEW len \in Nat, remove(len)
  PROVE  /\ IndInv' /\ arg' = <<>>
         /\ \E n \in 0..Len(Content) :
              /\ got' = SubSeq(Content, 1, n)
              /\ Content' = SubSeq(Content, n + 1, Len(Content))
<1> DEFINE n == IF len < readbytes THEN len ELSE readbytes
<1>1. reader \in Nat /\ writer \in Nat /\ reader <= writer
  BY DEF IndInv, InBounds
<1>2. n \in Nat /\ n <= writer - reader
  BY <1>1 DEF readbytes
<1>3. /\ got' = SubSeq(store, reader + 1, reader + n)
      /\ Consume(n) /\ arg' = <<>>
  BY Zenon DEF remove
<1> HIDE DEF n
<1>4. /\ IndInv'
      /\ SubSeq(store, reader + 1, reader + n) = SubSeq(Content, 1, n)
      /\ Content' = SubSeq(Content, n + 1, Len(Content))
  BY <1>2, <1>3, ConsumeStep
<1>5. n \in 0..Len(Content)
  BY <1>1, <1>2, ContentSeq
<1> QED BY <1>3, <1>4, <1>5

(* reset takes everything.                                                 *)
LEMMA ResetStep ==
  ASSUME IndInv, reset
  PROVE  /\ IndInv' /\ arg' = <<>>
         /\ \E n \in 0..Len(Content) :
              /\ got' = SubSeq(Content, 1, n)
              /\ Content' = SubSeq(Content, n + 1, Len(Content))
<1> DEFINE n == Len(Content)
<1>1. Content \in Seq(Vec) /\ n \in Nat
  BY ContentSeq, LenProperties
<1>2. reader' = 0 /\ writer' = 0 /\ store' = store /\ arg' = <<>>
  BY DEF reset
<1>3. got' = SubSeq(Content, 1, n)
  <2>1. got' = Content
    BY DEF reset, Content, Window
  <2> QED BY <2>1, <1>1, SubSeqFull
<1>4. Content' = <<>>
  BY <1>2, SubSeqEmpty DEF Content, Window
<1>5. SubSeq(Content, n + 1, n) = <<>>
  BY <1>1, SubSeqEmpty
<1>6. IndInv'
  BY <1>2, LenProperties DEF IndInv, InBounds
<1> QED BY <1>1, <1>2, <1>3, <1>4, <1>5, <1>6

-----------------------------------------------------------------------------
(* Every step keeps the positions in order, and what it does to the        *)
(* readable bytes is a step of the byte queue.                             *)
LEMMA QueueStep ==
  ASSUME IndInv, [Next]_vars
  PROVE  IndInv' /\ [ByteQ!Next]_(ByteQ!bvars)
<1> USE DEF Content, Window
<1>1. ASSUME NEW d \in Inputs, append(d) \/ readiov(d)
      PROVE  IndInv' /\ ByteQ!Put
  <2>1. IndInv' /\ Content' = Content \o d
    BY <1>1, AppendStep, ReadiovStep
  <2>2. arg' = d /\ got' = <<>>
    BY <1>1 DEF append, readiov
  <2>3. d \in Seq(Bytes)
    BY InputSeq
  <2> QED BY <2>1, <2>2, <2>3 DEF ByteQ!Put
<1>2. ASSUME NEW len \in 0..(MaxSize + 1), remove(len)
      PROVE  IndInv' /\ \E n \in 0..Len(Content) : ByteQ!Get(n)
  <2>1. len \in Nat
    BY BufferAssumption
  <2> QED BY <2>1, <1>2, RemoveStep DEF ByteQ!Get
<1>3. ASSUME reset
      PROVE  IndInv' /\ \E n \in 0..Len(Content) : ByteQ!Get(n)
  BY <1>3, ResetStep DEF ByteQ!Get
<1>4. ASSUME UNCHANGED vars
      PROVE  IndInv' /\ UNCHANGED ByteQ!bvars
  BY <1>4 DEF vars, bufvars, IndInv, InBounds, ByteQ!bvars
<1> QED BY <1>1, <1>2, <1>3, <1>4 DEF Next, ByteQ!Next

(* No memcpy, memmove or readv of buffer.cpp leaves the vector, whatever   *)
(* the sizes of the buffer and of the stack buffer: 0 <= reader_ <=        *)
(* writer_ <= buffer_.size() after every sequence of calls.                *)
THEOREM NeverOutOfBounds == Spec => []InBounds
<1>1. Init => IndInv
  BY InitInd
<1>2. IndInv /\ [Next]_vars => IndInv'
  BY QueueStep
<1>3. IndInv => InBounds
  BY DEF IndInv
<1> QED BY <1>1, <1>2, <1>3, PTL DEF Spec

(* append, readiov, remove, retrieve and reset are those of an unbounded   *)
(* queue of bytes: the move to the front and the growth in able_wirte, and *)
(* the detour of readiov through the stack buffer, cannot be seen.         *)
THEOREM Refinement == Spec => IsByteQueue
<1>1. Init => IndInv /\ ByteQ!Init
  BY InitInd DEF Init, ByteQ!Init
<1>2. IndInv /\ [Next]_vars => IndInv' /\ [ByteQ!Next]_(ByteQ!bvars)
  BY QueueStep
<1> QED BY <1>1, <1>2, PTL DEF Spec, IsByteQueue, ByteQ!Spec
=============================================================================
