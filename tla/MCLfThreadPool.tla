---------------------------- MODULE MCLfThreadPool ----------------------------
(* Two workers whose rings hold two tasks each, and more tasks than fit.   *)
EXTENDS LfThreadPool
=============================================================================
