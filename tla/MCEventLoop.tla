----------------------------- MODULE MCEventLoop -----------------------------
(* A connection and a timer, the smallest loop in which the callback of    *)
(* one event closes or removes another.  EventLoopProofs has the safety    *)
(* properties for any number of them.                                      *)
EXTENDS EventLoop
=============================================================================
