------------------------------- MODULE BfEvent -------------------------------
(***************************************************************************)
(* One TCP connection: moon::bfevent between the user's code and the       *)
(* socket, on the loop thread.  The socket is registered edge triggered,   *)
(* so the loop is told once of new bytes or new space, and what bfevent    *)
(* does not move then may stay where it is for ever.                       *)
(*                                                                         *)
(* The buffers are byte queues, which Buffer implements.  Bytes are        *)
(* numbered in the order in which the user (or the peer) hands them over,  *)
(* so a stream is correct when it counts 1, 2, 3, ...                      *)
(***************************************************************************)
EXTENDS Integers, Sequences

CONSTANTS
  SndBuf,    \* bytes that fit into the socket's send buffer
  MaxMsg,    \* bound: length of one sendout
  MaxOut,    \* bound: bytes given to sendout over the whole run
  MaxIn      \* bound: bytes the peer sends

ASSUME BfEventAssumption ==
  /\ SndBuf \in Nat \ {0}
  /\ MaxMsg \in Nat /\ MaxOut \in Nat /\ MaxIn \in Nat

VARIABLES
  pc,        \* what the loop thread runs on this connection
  back,      \* where the running sendout returns to
  data, n,   \* data and n of the running sendout
  wpart,     \* handle_write is still due in the running handle_cb
  outbuff,   \* outbuff_
  given,     \* number of bytes given to sendout
  sockout,   \* the socket's send buffer
  wire,      \* bytes the peer has read
  nospace,   \* a write found too little space; tell epoll when there is some
  epollout,  \* EPOLLOUT is in events_
  epollin,   \* EPOLLIN is in events_
  inbuff,    \* inbuff_
  received,  \* bytes receive has returned
  sockin,    \* the socket's receive buffer
  arrived,   \* number of bytes the peer has sent
  edge,      \* the connection is on epoll's ready list
  broken     \* the peer has closed or reset: reads end or fail, writes may fail

outvars == <<outbuff, given, sockout, wire, nospace, epollout>>
invars == <<inbuff, received, sockin, arrived, epollin>>
callvars == <<back, data, n>>
vars == <<pc, callvars, wpart, outvars, invars, edge, broken>>

Init ==
  /\ pc = "idle" /\ back = "idle" /\ data = <<>> /\ n = 0 /\ wpart = FALSE
  /\ outbuff = <<>> /\ given = 0 /\ sockout = <<>> /\ wire = <<>>
  /\ nospace = FALSE /\ epollout = FALSE
  /\ inbuff = <<>> /\ received = <<>> /\ sockin = <<>> /\ arrived = 0
  /\ epollin = TRUE /\ edge = FALSE /\ broken = FALSE

UserRuns == {"idle", "readcb", "writecb"}
Junk == 0

Least(i, j) == IF i < j THEN i ELSE j
From(s, i) == SubSeq(s, i, Len(s))
Space == SndBuf - Len(sockout)

-----------------------------------------------------------------------------
(* The kernel and the peer.                                                *)

(* What epoll reports of the socket, given EPOLLIN and EPOLLOUT.           *)
Ready(in, out) == (in /\ (sockin # <<>> \/ broken)) \/ (out /\ Space > 0)

(* epoll_ctl(EPOLL_CTL_MOD) looks at the socket again.                     *)
update_ep(out) ==
  /\ epollout' = out
  /\ edge' = (edge \/ Ready(epollin, out))

(* write or writev puts the first m of the bytes s into the send buffer.   *)
Written(s, m) ==
  /\ sockout' = sockout \o SubSeq(s, 1, m)
  /\ nospace' = (nospace \/ m < Len(s))

PeerReads ==
  /\ sockout # <<>>
  /\ wire' = Append(wire, Head(sockout))
  /\ sockout' = Tail(sockout)
  /\ nospace' = FALSE
  /\ edge' = (edge \/ (nospace /\ epollout))
  /\ UNCHANGED <<pc, callvars, wpart, outbuff, given, epollout, invars, broken>>

PeerSends ==
  /\ arrived < MaxIn /\ ~broken
  /\ arrived' = arrived + 1
  /\ sockin' = Append(sockin, arrived + 1)
  /\ edge' = (edge \/ epollin)
  /\ UNCHANGED <<pc, callvars, wpart, outvars, inbuff, received, epollin, broken>>

PeerBreaks ==
  /\ ~broken
  /\ broken' = TRUE
  /\ edge' = TRUE
  /\ UNCHANGED <<pc, callvars, wpart, outvars, invars>>

-----------------------------------------------------------------------------
(* bfevent::sendout.                                                       *)

Message(k) == [i \in 1..k |-> given + i]

(* The first write: tried when EPOLLOUT is off and outbuff_ is empty.      *)
(* relen -= len whatever n is, so nothing is left to send after it.        *)
SendDirect(k) ==
  /\ pc \in UserRuns /\ given + k <= MaxOut
  /\ ~epollout /\ outbuff = <<>> /\ Space > 0
  /\ given' = given + k
  /\ Written(Message(k), Least(k, Space))
  /\ UNCHANGED <<pc, callvars, wpart, outbuff, wire, epollout, invars, edge,
                 broken>>

(* The first write fails with EAGAIN (n = -1) or is not tried (n = 0).     *)
SendBlocked(k) ==
  /\ pc \in UserRuns /\ given + k <= MaxOut
  /\ epollout \/ outbuff # <<>> \/ Space = 0
  /\ given' = given + k
  /\ data' = Message(k)
  /\ n' = IF epollout \/ outbuff # <<>> THEN 0 ELSE -1
  /\ nospace' = (nospace \/ n' = -1)
  /\ back' = pc
  /\ pc' = "writev"
  /\ UNCHANGED <<wpart, outbuff, sockout, wire, epollout, invars, edge, broken>>

(* The first write fails for good: the data is dropped.                    *)
SendFails(k) ==
  /\ pc \in UserRuns /\ given + k <= MaxOut
  /\ ~epollout /\ outbuff = <<>> /\ broken
  /\ given' = given + k
  /\ UNCHANGED <<pc, callvars, wpart, outbuff, sockout, wire, nospace, epollout,
                 invars, edge, broken>>

(* The relen bytes at address data + offset, relen = Len(data) - less.     *)
BytesAt(offset, less) ==
  [i \in 1..(Len(data) - less) |->
     IF i + offset \in 1..Len(data) THEN data[i + offset] ELSE Junk]

(* writev of outbuff_ and of the bytes at data + n.  What is left of data  *)
(* is appended by SendQueue.                                               *)
SendVec ==
  LET wbytes == Len(outbuff)
      all == outbuff \o BytesAt(n, 0)
      wvn == Least(Len(all), Space)
  IN /\ pc = "writev" /\ Space > 0
     /\ Written(all, wvn)
     /\ IF wvn = Len(all)
        THEN /\ outbuff' = <<>> /\ pc' = back /\ data' = <<>>
        ELSE IF wvn < wbytes
        THEN /\ outbuff' = From(outbuff, wvn + 1) /\ pc' = "queue"
             /\ UNCHANGED data
        ELSE /\ outbuff' = <<>> /\ pc' = "queue"
             /\ data' = BytesAt(n + wvn - wbytes, wvn - wbytes)
     /\ UNCHANGED <<back, n, wpart, given, wire, epollout, invars, edge, broken>>

(* writev fails, with EAGAIN or for good.                                  *)
SendVecFails ==
  /\ pc = "writev"
  /\ \/ Space = 0 /\ nospace' = TRUE /\ pc' = "queue"
     \/ broken /\ pc' = back /\ UNCHANGED nospace
  /\ UNCHANGED <<callvars, wpart, outbuff, given, sockout, wire, epollout,
                 invars, edge, broken>>

(* Mutant: sendout does not enable EPOLLOUT for the bytes it queues.       *)
SendQueue_unarmed ==
  /\ pc = "queue"
  /\ outbuff' = outbuff \o data
  /\ pc' = back
  /\ data' = <<>>
  /\ UNCHANGED <<back, n, wpart, given, sockout, wire, nospace, epollout,
                 invars, edge, broken>>

SendQueue ==
  /\ pc = "queue"
  /\ outbuff' = outbuff \o data
  /\ IF epollout THEN UNCHANGED <<epollout, edge>> ELSE update_ep(TRUE)
  /\ pc' = back
  /\ data' = <<>>
  /\ UNCHANGED <<back, n, wpart, given, sockout, wire, nospace, invars, broken>>

sendout ==
  \/ \E k \in 1..MaxMsg : SendDirect(k) \/ SendBlocked(k) \/ SendFails(k)
  \/ SendVec \/ SendVecFails \/ SendQueue

(* Mutant: receive forgets to advance the read position.                   *)
receive_again(len) ==
  /\ pc \in UserRuns /\ len <= Len(inbuff) /\ Len(received) < MaxIn
  /\ received' = received \o SubSeq(inbuff, 1, len)
  /\ UNCHANGED <<pc, callvars, wpart, outvars, inbuff, sockin, arrived, epollin,
                 edge, broken>>

receive(len) ==
  /\ pc \in UserRuns /\ len <= Len(inbuff)
  /\ received' = received \o SubSeq(inbuff, 1, len)
  /\ inbuff' = From(inbuff, len + 1)
  /\ UNCHANGED <<pc, callvars, wpart, outvars, sockin, arrived, epollin, edge,
                 broken>>

-----------------------------------------------------------------------------
(* What the user may change while the connection is listening.             *)

setvars == <<pc, callvars, wpart, outvars, inbuff, received, sockin, arrived,
             broken>>

(* Mutant: the new events_ are not passed on to epoll.                     *)
enable_read_silent ==
  /\ pc \in UserRuns
  /\ epollin' = TRUE
  /\ UNCHANGED <<edge, setvars>>

enable_read ==
  /\ pc \in UserRuns
  /\ epollin' = TRUE
  /\ edge' = (edge \/ Ready(TRUE, epollout))
  /\ UNCHANGED setvars

disable_read ==
  /\ pc \in UserRuns
  /\ epollin' = FALSE
  /\ edge' = (edge \/ Ready(FALSE, epollout))
  /\ UNCHANGED setvars

(* setcb, setrcb, setwcb, setecb and server::modev call update_ep.         *)
setcb ==
  /\ pc \in UserRuns
  /\ edge' = (edge \/ Ready(epollin, epollout))
  /\ UNCHANGED <<epollin, setvars>>

-----------------------------------------------------------------------------
(* event::handle_cb on the loop thread.                                    *)

(* epoll_wait reports what is ready now: EPOLLIN first, then EPOLLOUT.     *)
(* Without EPOLLIN a reset still reports EPOLLHUP, for handle_event.       *)
Dispatch ==
  /\ pc = "idle" /\ edge
  /\ edge' = FALSE
  /\ wpart' = (epollout /\ (Space > 0 \/ broken))
  /\ pc' \in IF Ready(epollin, FALSE) THEN {"read"}
             ELSE IF wpart' THEN {"write"}
             ELSE IF broken THEN {"idle", "closed"} ELSE {"idle"}
  /\ UNCHANGED <<callvars, outvars, invars, broken>>

(* readiov returns some of the bytes that are there; readcb_ is called.    *)
ReadSome ==
  /\ pc = "read" /\ sockin # <<>>
  /\ \E m \in 1..Len(sockin) :
       /\ inbuff' = inbuff \o SubSeq(sockin, 1, m)
       /\ sockin' = From(sockin, m + 1)
  /\ pc' = "readcb"
  /\ UNCHANGED <<callvars, wpart, outvars, received, arrived, epollin, edge,
                 broken>>

ReadReturn ==
  /\ pc = "readcb"
  /\ pc' = "read"
  /\ UNCHANGED <<callvars, wpart, outvars, invars, edge, broken>>

(* EAGAIN ends handle_read; handle_write follows if it is due.             *)
ReadEnd ==
  /\ pc = "read" /\ sockin = <<>> /\ ~broken
  /\ pc' = IF wpart THEN "write" ELSE "idle"
  /\ UNCHANGED <<callvars, wpart, outvars, invars, edge, broken>>

(* End of file or an error: eventcb_, which closes the connection.         *)
Fail ==
  /\ broken
  /\ \/ pc = "read" /\ sockin = <<>>
     \/ pc = "write" /\ outbuff # <<>>
  /\ pc' = "closed"
  /\ UNCHANGED <<callvars, wpart, outvars, invars, edge, broken>>

WriteSome ==
  /\ pc = "write" /\ outbuff # <<>> /\ Space > 0
  /\ Written(outbuff, Least(Len(outbuff), Space))
  /\ outbuff' = From(outbuff, Least(Len(outbuff), Space) + 1)
  /\ pc' = "writecb"
  /\ UNCHANGED <<callvars, wpart, given, wire, epollout, invars, edge, broken>>

WriteReturn ==
  /\ pc = "writecb"
  /\ pc' = "write"
  /\ UNCHANGED <<callvars, wpart, outvars, invars, edge, broken>>

WriteBlocked ==
  /\ pc = "write" /\ outbuff # <<>> /\ Space = 0
  /\ nospace' = TRUE
  /\ wpart' = FALSE
  /\ pc' = "idle"
  /\ UNCHANGED <<callvars, outbuff, given, sockout, wire, epollout, invars, edge,
                 broken>>

(* Mutant: EPOLLOUT is disabled although outbuff_ is not empty.            *)
WriteEnd_early ==
  /\ pc = "write" /\ ~broken
  /\ update_ep(FALSE)
  /\ wpart' = FALSE
  /\ pc' = "idle"
  /\ UNCHANGED <<callvars, outbuff, given, sockout, wire, nospace, invars,
                 broken>>

(* Nothing is left to write: EPOLLOUT is disabled.                         *)
WriteEnd ==
  /\ pc = "write" /\ outbuff = <<>>
  /\ update_ep(FALSE)
  /\ wpart' = FALSE
  /\ pc' = "idle"
  /\ UNCHANGED <<callvars, outbuff, given, sockout, wire, nospace, invars,
                 broken>>

handle_cb ==
  \/ Dispatch
  \/ ReadSome \/ ReadReturn \/ ReadEnd
  \/ WriteSome \/ WriteReturn \/ WriteBlocked \/ WriteEnd
  \/ Fail

(* The closed connection is deleted by the loop; see EventLoop.            *)
Closed == pc = "closed" /\ UNCHANGED vars

Next ==
  \/ PeerReads \/ PeerSends \/ PeerBreaks
  \/ sendout \/ (\E len \in 1..MaxIn : receive(len))
  \/ enable_read \/ disable_read \/ setcb
  \/ handle_cb
  \/ Closed

Spec == Init /\ [][Next]_vars

(* The loop thread goes on and the peer keeps reading.                     *)
Library == SendVec \/ SendVecFails \/ SendQueue \/ handle_cb
FairSpec == Spec /\ WF_vars(Library) /\ WF_vars(PeerReads)

-----------------------------------------------------------------------------
Counting(k) == [i \in 1..k |-> i]

(* What the peer sends reaches the user unchanged: the bytes received, the *)
(* ones in inbuff_ and the ones in the socket are the peer's stream        *)
(* (bfevent::handle_read, receive).                                        *)
InboundInOrder == received \o inbuff \o sockin = Counting(arrived)

(* handle_read leaves no bytes in an edge triggered socket: when nothing   *)
(* runs and epoll has nothing to report, the receive buffer of a           *)
(* connection that is to be read is empty, also when the user switched     *)
(* reading off and on while bytes came in (bfevent.h 96-115).              *)
NothingUnread == pc = "idle" /\ ~edge /\ epollin => sockin = <<>>

(* Queued bytes are never forgotten: while outbuff_ is not empty and no    *)
(* call runs, EPOLLOUT is enabled and epoll either has the connection on   *)
(* its ready list or will be told when the send buffer has space           *)
(* (bfevent::sendout 210-214, handle_write).                               *)
NoStall ==
  pc = "idle" /\ outbuff # <<>> /\ ~broken
    => epollout /\ (edge \/ (Space = 0 /\ nospace))

(* The output buffer drains, as long as the peer reads and the connection  *)
(* stays up.                                                               *)
OutbuffDrains == outbuff # <<>> ~> (outbuff = <<>> \/ broken)

(* What the user sends reaches the peer unchanged and completely: the      *)
(* comment of sendout says that it "Handles partial writes", and that what *)
(* is not written is appended to the output buffer.                        *)
OutboundInOrder ==
  pc \in {"idle", "read", "write", "readcb", "writecb"} /\ ~broken
    => wire \o sockout \o outbuff = Counting(given)
=============================================================================
