------------------------------- MODULE MCBuffer -------------------------------
(* Inputs of up to four bytes: enough to overrun the vector and the stack  *)
(* buffer of the instance.                                                 *)
EXTENDS Buffer

ShortInputs == UNION {[1..n -> Bytes] : n \in 0..4}
=============================================================================
