-------------------------------- MODULE Buffer --------------------------------
(***************************************************************************)
(* moon::buffer: a vector with a read and a write position.  Space before  *)
(* the read position is reclaimed by moving the readable bytes to the      *)
(* front, and the vector grows when that is not enough.                    *)
(***************************************************************************)
EXTENDS Integers, Sequences

CONSTANTS
  Bytes,    \* byte values
  Zero,     \* what the vector holds where nothing was written
  Inputs,   \* byte sequences that are appended or that arrive on a socket
  BufSize,  \* BUFSIZE
  IOBuf,    \* IOBUF, the size of the stack buffer of readiov
  MaxSize   \* bound on the readable bytes

ASSUME BufferAssumption ==
  /\ BufSize \in Nat \ {0}
  /\ IOBuf \in Nat \ {0}
  /\ MaxSize \in Nat
  /\ Inputs \subseteq Seq(Bytes)

VARIABLES
  store,    \* buffer_
  reader,   \* reader_
  writer,   \* writer_
  arg, got  \* bytes put in, and bytes taken out, by the last call

bufvars == <<store, reader, writer>>
vars == <<bufvars, arg, got>>

readbytes == writer - reader
writebytes == Len(store) - writer

Init ==
  /\ store = [i \in 1..BufSize |-> Zero]
  /\ reader = 0 /\ writer = 0
  /\ arg = <<>> /\ got = <<>>

-----------------------------------------------------------------------------
(* memmove of the n bytes at position from to the front of vector s.       *)
MoveToFront(s, from, n) ==
  [i \in 1..Len(s) |-> IF i <= n THEN s[from + i] ELSE s[i]]

(* resize of vector s to n, which is larger.                               *)
Resize(s, n) == [i \in 1..n |-> IF i <= Len(s) THEN s[i] ELSE Zero]

(* memcpy of the bytes d to position at of vector s.                       *)
CopyTo(s, at, d) ==
  [i \in 1..Len(s) |-> IF i - at \in 1..Len(d) THEN d[i - at] ELSE s[i]]

(* Mutant: the move copies one byte too few.                               *)
able_wirte_short(s, r, w, len) ==
  LET moves == Len(s) - w < len /\ r > 0
      s1 == IF moves THEN MoveToFront(s, r, w - r - 1) ELSE s
      w1 == IF moves THEN w - r ELSE w
  IN [store |-> IF Len(s1) - w1 < len THEN Resize(s1, w1 + len) ELSE s1,
      reader |-> IF moves THEN 0 ELSE r,
      writer |-> w1]

(* Mutant: after the move the space is not tested again.                   *)
able_wirte_once(s, r, w, len) ==
  LET moves == Len(s) - w < len /\ r > 0
  IN [store |-> IF moves THEN MoveToFront(s, r, w - r)
                ELSE IF Len(s) - w < len THEN Resize(s, w + len) ELSE s,
      reader |-> IF moves THEN 0 ELSE r,
      writer |-> IF moves THEN w - r ELSE w]

(* The buffer with room for len bytes after its write position.            *)
able_wirte(s, r, w, len) ==
  LET moves == Len(s) - w < len /\ r > 0
      s1 == IF moves THEN MoveToFront(s, r, w - r) ELSE s
      w1 == IF moves THEN w - r ELSE w
  IN [store |-> IF Len(s1) - w1 < len THEN Resize(s1, w1 + len) ELSE s1,
      reader |-> IF moves THEN 0 ELSE r,
      writer |-> w1]

(* append to the vector s with positions r and w.                          *)
Appended(s, r, w, d) ==
  LET b == able_wirte(s, r, w, Len(d))
  IN /\ store' = CopyTo(b.store, b.writer, d)
     /\ reader' = b.reader
     /\ writer' = b.writer + Len(d)

append(d) ==
  /\ readbytes + Len(d) <= MaxSize
  /\ Appended(store, reader, writer, d)
  /\ arg' = d /\ got' = <<>>

(* The end of remove, retrieve and receive: n bytes are consumed, and an   *)
(* empty buffer starts again at 0.                                         *)
Consume(n) ==
  /\ reader' = IF reader + n = writer THEN 0 ELSE reader + n
  /\ writer' = IF reader + n = writer THEN 0 ELSE writer
  /\ UNCHANGED store

(* Both remove functions; retrieve does the same and returns no bytes.     *)
remove(len) ==
  LET n == IF len < readbytes THEN len ELSE readbytes
  IN /\ got' = SubSeq(store, reader + 1, reader + n)
     /\ Consume(n)
     /\ arg' = <<>>

(* The bytes that reset throws away are given as taken out.                *)
reset ==
  /\ reader' = 0 /\ writer' = 0
  /\ got' = SubSeq(store, reader + 1, writer)
  /\ arg' = <<>>
  /\ UNCHANGED store

(* readiov: readv filled the space after the write position and, when that *)
(* is smaller than the stack buffer, the stack buffer with the bytes d.    *)
readiov(d) ==
  LET wbytes == writebytes
      head == SubSeq(d, 1, IF Len(d) < wbytes THEN Len(d) ELSE wbytes)
      rest == SubSeq(d, wbytes + 1, Len(d))
      s == CopyTo(store, writer, head)
  IN /\ readbytes + Len(d) <= MaxSize
     /\ Len(d) <= wbytes + (IF wbytes < IOBuf THEN IOBuf ELSE 0)
     /\ IF Len(d) <= wbytes
        THEN store' = s /\ writer' = writer + Len(d) /\ reader' = reader
        ELSE Appended(s, reader, Len(s), rest)
     /\ arg' = d /\ got' = <<>>

Next ==
  \/ \E d \in Inputs : append(d) \/ readiov(d)
  \/ \E n \in 0..(MaxSize + 1) : remove(n)
  \/ reset

Spec == Init /\ [][Next]_vars

-----------------------------------------------------------------------------
(* Every memcpy, memmove and readv stays inside the vector: the positions  *)
(* are in order and inside it after any sequence of calls (buffer.cpp,     *)
(* able_wirte, append, readiov).                                           *)
InBounds == 0 <= reader /\ reader <= writer /\ writer <= Len(store)

ByteQ == INSTANCE ByteQueue WITH
  content <- SubSeq(store, reader + 1, writer)

(* A buffer is a queue of bytes: nothing is lost, repeated or reordered by *)
(* the moves and the growth, and no byte that was never written is read.   *)
IsByteQueue == ByteQ!Spec
=============================================================================
