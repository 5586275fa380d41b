---------------------------- MODULE MCServerPool ----------------------------
(* Two loops and two connections, which may share a loop or not.           *)
EXTENDS ServerPool
=============================================================================
