------------------------------ MODULE ByteQueue ------------------------------
(***************************************************************************)
(* What moon::buffer promises: an unbounded queue of bytes.  Bytes go in   *)
(* at the end and come out at the front, unchanged.                        *)
(***************************************************************************)
EXTENDS Integers, Sequences

CONSTANT Bytes

VARIABLES
  content,  \* the bytes in the queue, oldest first
  arg,      \* the bytes that the last call put into the queue
  got       \* the bytes that the last call took out

bvars == <<content, arg, got>>

Init == content = <<>> /\ arg = <<>> /\ got = <<>>

Put ==
  /\ arg' \in Seq(Bytes)
  /\ content' = content \o arg'
  /\ got' = <<>>

(* Take the first n bytes, or all if there are fewer.                      *)
Get(n) ==
  /\ got' = SubSeq(content, 1, n)
  /\ content' = SubSeq(content, n + 1, Len(content))
  /\ arg' = <<>>

Next == Put \/ \E n \in 0..Len(content) : Get(n)

Spec == Init /\ [][Next]_bvars
=============================================================================
