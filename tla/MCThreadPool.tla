---------------------------- MODULE MCThreadPool ----------------------------
(* One original worker and room for three more, so that the manager both   *)
(* grows and shrinks the pool, and may ask a second time.                  *)
EXTENDS ThreadPool
=============================================================================
