--------------------------------- MODULE Wrap ---------------------------------
(***************************************************************************)
(* The reading and writing wrappers of wrap.cpp on blocking descriptors:   *)
(* Read, Write, Readn, Writen and Readline with its helper my_read.  One   *)
(* thread calls them on several descriptors; every system call is a step   *)
(* that moves some of the bytes asked for, is interrupted, fails or meets  *)
(* the end of the stream.                                                  *)
(*                                                                         *)
(* my_read keeps what one read(2) returned in a static buffer, shared by   *)
(* all descriptors.  The byte <<f, i>> is the i-th of descriptor f's       *)
(* stream; <<c, i>> in wrote is the i-th that the c-th call was given.     *)
(***************************************************************************)
EXTENDS Integers, Sequences, FiniteSetsExt

CONSTANTS
  Fds,        \* open descriptors
  Idle,       \* no call is in progress
  StreamLen,  \* bound: bytes that the peer of a descriptor sends
  Newlines,   \* the bytes that are '\n'
  BufSize,    \* sizeof(read_buf)
  Sizes,      \* bound: lengths that the calls are given
  MaxCalls,   \* bound: calls over the whole run
  MaxIntr     \* bound: interrupted system calls over the whole run

ASSUME WrapAssumption == Sizes \subseteq Nat /\ BufSize \in Nat \ {0}

Streaming == {"Read", "Readn"}
Writing == {"Write", "Writen"}
Ops == Streaming \cup Writing \cup {"Readline"}

(* A byte of a stream or of the data of a call.                            *)
Byte == (Fds \cup Nat) \X Nat

(* A call: its arguments, what it has moved, and where it started.         *)
CallRec == [op : Ops, fd : Fds, n : Nat, buf : Seq(Byte), id : Nat,
            from : Nat, stale : Seq(Byte)]

ASSUME IdleAssumption == Idle \notin CallRec

VARIABLES
  sent,    \* bytes that each peer has sent
  ended,   \* descriptors whose peer has closed
  taken,   \* bytes of each stream that read(2) has returned
  cache,   \* my_read: the read_cnt bytes at read_ptr
  call,    \* the call in progress
  last,    \* the last call that returned
  line,    \* the last Readline that returned: what it stored and could have
  wrote,   \* what write(2) has accepted on each descriptor
  calls,   \* calls made so far
  intr     \* interruptions that are left

iovars == <<taken, cache, wrote>>
peervars == <<sent, ended>>
vars == <<iovars, peervars, call, last, line, calls, intr>>

Init ==
  /\ sent = [f \in Fds |-> 0] /\ ended = {}
  /\ taken = [f \in Fds |-> 0] /\ cache = <<>>
  /\ wrote = [f \in Fds |-> <<>>]
  /\ call = Idle /\ last = Idle /\ line = Idle /\ calls = 0 /\ intr = MaxIntr

InCall(ops) == call # Idle /\ call.op \in ops
Stored == Len(call.buf)
Left == call.n - Stored
Waiting(f) == sent[f] - taken[f]
Stream(f, from, k) == [i \in 1..k |-> <<f, from + i>>]

(* The peer.                                                               *)
PeerSends(f) ==
  /\ f \notin ended /\ sent[f] < StreamLen
  /\ sent' = [sent EXCEPT ![f] = @ + 1]
  /\ UNCHANGED <<iovars, ended, call, last, line, calls, intr>>

PeerCloses(f) ==
  /\ f \notin ended
  /\ ended' = ended \cup {f}
  /\ UNCHANGED <<iovars, sent, call, last, line, calls, intr>>

-----------------------------------------------------------------------------
(* from and stale record how far the stream was and what the static buffer *)
(* held at the moment of the call.  A Readline is given room for the '\0'. *)
Begin(op, f, n) ==
  /\ call = Idle /\ calls < MaxCalls
  /\ op = "Readline" => n > 0
  /\ call' = [op |-> op, fd |-> f, n |-> n, buf |-> <<>>, id |-> calls + 1,
              from |-> taken[f], stale |-> cache]
  /\ calls' = calls + 1
  /\ UNCHANGED <<iovars, peervars, last, line, intr>>

(* What the Readline c found in the static buffer, and then what its own   *)
(* read(2) calls have returned so far.                                     *)
Supply(c) == c.stale \o Stream(c.fd, c.from, taken[c.fd] - c.from)

Return(c, r) ==
  /\ call' = Idle
  /\ last' = [call |-> c, ret |-> r]
  /\ line' = IF c.op = "Readline"
             THEN [buf |-> c.buf, supply |-> Supply(c)]
             ELSE line

(* Mutant: Readline stores maxlen bytes.                                   *)
MoreRoom_all == Left > 0

(* n < maxlen in Readline's loop, n being one more than the bytes stored.  *)
MoreRoom == Left > 1

(* The thread is inside read(2) or write(2).                               *)
InSyscall ==
  call # Idle /\ IF call.op = "Readline" THEN cache = <<>> /\ MoreRoom
                                         ELSE Left > 0

(* Mutant: an interrupted call is taken for one that met the end.          *)
Interrupted_ends ==
  /\ InSyscall /\ intr > 0
  /\ intr' = intr - 1
  /\ Return(call, Stored)
  /\ UNCHANGED <<iovars, peervars, calls>>

(* EINTR: every function tries again.                                      *)
Interrupted ==
  /\ InSyscall /\ intr > 0
  /\ intr' = intr - 1
  /\ UNCHANGED <<iovars, peervars, call, last, line, calls>>

(* Any other error: -1, whatever has been moved before.                    *)
Fails ==
  /\ InSyscall
  /\ Return(call, -1)
  /\ UNCHANGED <<iovars, peervars, calls, intr>>

(* read(fd, ptr, nleft) returns k bytes.                                   *)
ReadSome(k) ==
  /\ InCall(Streaming) /\ k \in 1..Min({Left, Waiting(call.fd)})
  /\ taken' = [taken EXCEPT ![call.fd] = @ + k]
  /\ LET c == [call EXCEPT !.buf = @ \o Stream(call.fd, taken[call.fd], k)]
     IN IF call.op = "Read"
        THEN Return(c, k)
        ELSE call' = c /\ UNCHANGED <<last, line>>
  /\ UNCHANGED <<cache, wrote, peervars, calls, intr>>

(* Mutant: Readn goes on after the end of the stream.                      *)
ReadEof_retries ==
  /\ InCall(Streaming) /\ Left > 0
  /\ call.fd \in ended /\ Waiting(call.fd) = 0
  /\ call.op = "Read"
  /\ Return(call, Stored)
  /\ UNCHANGED <<iovars, peervars, calls, intr>>

(* read returns 0.                                                         *)
ReadEof ==
  /\ InCall(Streaming) /\ Left > 0
  /\ call.fd \in ended /\ Waiting(call.fd) = 0
  /\ Return(call, Stored)
  /\ UNCHANGED <<iovars, peervars, calls, intr>>

(* Mutant: Writen writes from the start of the data again.                 *)
WriteSome_again(k) ==
  /\ InCall(Writing) /\ k \in 1..Left
  /\ wrote' = [wrote EXCEPT ![call.fd] = @ \o Stream(call.id, 0, k)]
  /\ LET c == [call EXCEPT !.buf = @ \o Stream(call.id, 0, k)]
     IN IF call.op = "Write"
        THEN Return(c, k)
        ELSE call' = c /\ UNCHANGED <<last, line>>
  /\ UNCHANGED <<taken, cache, peervars, calls, intr>>

(* write(fd, ptr, nleft) accepts k bytes.                                  *)
WriteSome(k) ==
  /\ InCall(Writing) /\ k \in 1..Left
  /\ LET bytes == Stream(call.id, Stored, k)
         c == [call EXCEPT !.buf = @ \o bytes]
     IN /\ wrote' = [wrote EXCEPT ![call.fd] = @ \o bytes]
        /\ IF call.op = "Write"
           THEN Return(c, k)
           ELSE call' = c /\ UNCHANGED <<last, line>>
  /\ UNCHANGED <<taken, cache, peervars, calls, intr>>

(* nleft = 0: the loop of Readn or Writen ends.                            *)
AllMoved ==
  /\ InCall(Streaming \cup Writing) /\ Left = 0
  /\ Return(call, call.n)
  /\ UNCHANGED <<iovars, peervars, calls, intr>>

-----------------------------------------------------------------------------
(* Mutant: my_read fills the buffer again before the last byte is used.    *)
Fill_early(k) ==
  /\ InCall({"Readline"}) /\ MoreRoom /\ Len(cache) <= 1
  /\ k \in 1..Min({BufSize, Waiting(call.fd)})
  /\ taken' = [taken EXCEPT ![call.fd] = @ + k]
  /\ cache' = Stream(call.fd, taken[call.fd], k)
  /\ UNCHANGED <<wrote, peervars, call, last, line, calls, intr>>

(* my_read: the static buffer is empty and read(2) fills it.               *)
Fill(k) ==
  /\ InCall({"Readline"}) /\ MoreRoom /\ cache = <<>>
  /\ k \in 1..Min({BufSize, Waiting(call.fd)})
  /\ taken' = [taken EXCEPT ![call.fd] = @ + k]
  /\ cache' = Stream(call.fd, taken[call.fd], k)
  /\ UNCHANGED <<wrote, peervars, call, last, line, calls, intr>>

LineEof ==
  /\ InCall({"Readline"}) /\ MoreRoom /\ cache = <<>>
  /\ call.fd \in ended /\ Waiting(call.fd) = 0
  /\ Return(call, Stored)
  /\ UNCHANGED <<iovars, peervars, calls, intr>>

IsNewline(b) == b \in Newlines

(* One byte of the static buffer; a newline ends the line.                 *)
LineByte ==
  /\ InCall({"Readline"}) /\ MoreRoom /\ cache # <<>>
  /\ cache' = Tail(cache)
  /\ LET c == [call EXCEPT !.buf = Append(@, Head(cache))]
     IN IF IsNewline(Head(cache))
        THEN Return(c, Stored + 1)
        ELSE call' = c /\ UNCHANGED <<last, line>>
  /\ UNCHANGED <<taken, wrote, peervars, calls, intr>>

(* maxlen is reached: the count returned is one more than the bytes stored.*)
LineFull ==
  /\ InCall({"Readline"}) /\ ~MoreRoom
  /\ Return(call, call.n)
  /\ UNCHANGED <<iovars, peervars, calls, intr>>

Readn == call # Idle /\ (ReadEof \/ \E k \in 1..Left : ReadSome(k))
Writen == call # Idle /\ \E k \in 1..Left : WriteSome(k)
my_read == LineEof \/ \E k \in 1..BufSize : Fill(k)
Readline == my_read \/ LineByte \/ LineFull

SystemCall == Readn \/ Writen \/ Readline \/ AllMoved

(* The caller is done; the descriptors are closed by the program's end.    *)
Terminated == call = Idle /\ calls = MaxCalls /\ UNCHANGED vars

Next ==
  \/ \E f \in Fds : PeerSends(f) \/ PeerCloses(f)
  \/ \E op \in Ops, f \in Fds, n \in Sizes : Begin(op, f, n)
  \/ SystemCall \/ Interrupted \/ Fails
  \/ Terminated

(* A system call that can return does; nothing is assumed of the peers.    *)
Spec == Init /\ [][Next]_vars /\ WF_vars(SystemCall)

-----------------------------------------------------------------------------
Returned(ops) == last # Idle /\ last.call.op \in ops /\ last.ret >= 0

(* Read and Readn hand over the bytes that follow those taken before, with *)
(* none left out or repeated, and Readn returns less than it was asked for *)
(* only when the peer has closed, however the kernel split or interrupted  *)
(* the transfer (wrap.cpp 455-477).                                        *)
ReadExact ==
  Returned(Streaming) =>
    LET c == last.call IN
    /\ c.buf = Stream(c.fd, c.from, last.ret)
    /\ last.ret < c.n =>
         \/ c.fd \in ended
         \/ c.op = "Read" /\ last.ret > 0

(* The bytes of a Write or Writen reach the stream once, in order and      *)
(* without another call's between them, and a Writen that returns n has    *)
(* put all n of them there (wrap.cpp 493-511).                             *)
WrittenInOrder ==
  /\ \A f \in Fds : \A i \in 1..Len(wrote[f]) :
       LET b == wrote[f][i] IN
       IF b[2] = 1
       THEN \A j \in 1..(i - 1) : wrote[f][j][1] # b[1]
       ELSE i > 1 /\ wrote[f][i - 1] = <<b[1], b[2] - 1>>
  /\ Returned({"Writen"}) =>
       LET c == last.call IN
       c.n > 0 => \E i \in 1..Len(wrote[c.fd]) : wrote[c.fd][i] = <<c.id, c.n>>

(* Readline leaves room for the '\0', stores no byte after a newline, and  *)
(* its result tells the cases apart: the bytes stored when the line or the *)
(* stream ended, maxlen (one more than it stored) when neither did         *)
(* (wrap.cpp 560-578).                                                     *)
LineShape ==
  Returned({"Readline"}) =>
    LET c == last.call
        m == Len(c.buf)
        whole == m > 0 /\ IsNewline(c.buf[m])
    IN
    /\ m < c.n
    /\ \A i \in 1..(m - 1) : ~IsNewline(c.buf[i])
    /\ IF last.ret = m
       THEN whole \/ c.fd \in ended
       ELSE last.ret = c.n /\ m = c.n - 1 /\ ~whole

(* Successive Readlines lose, repeat and reorder nothing.  What a Readline *)
(* has stored, followed by what the static buffer of my_read holds, is     *)
(* what it found there at the call and then its own stream from where that *)
(* stood; and it found exactly what the Readline before it had left,       *)
(* whatever calls came between (wrap.cpp 526-543).  What it found may be   *)
(* another descriptor's: my_read hands that over, although its comment     *)
(* (wrap.cpp 516-517) says that it reads from fd.                          *)
LineBytes ==
  /\ InCall({"Readline"}) => call.buf \o cache = Supply(call)
  /\ line # Idle =>
       line.buf \o (IF InCall({"Readline"}) THEN call.stale ELSE cache)
         = line.supply

(* A call on a descriptor whose peer has closed returns: no function goes  *)
(* round for ever at the end of the stream.                                *)
CallsReturn ==
  \A f \in Fds :
    (call # Idle /\ call.fd = f /\ f \in ended) ~> (call = Idle)
=============================================================================
