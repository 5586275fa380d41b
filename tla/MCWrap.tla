-------------------------------- MODULE MCWrap --------------------------------
(* Values of Wrap's constants: one stream begins with an empty line, the   *)
(* other ends with a newline.                                              *)
EXTENDS Wrap

CONSTANTS f1, f2

const_Fds == {f1, f2}
const_Newlines == {<<f1, 1>>, <<f2, 2>>}
const_Sizes == {1, 3}
=============================================================================
