----------------------------- MODULE MCServerFront -----------------------------
(* Values of ServerFront's constants.                                      *)
EXTENDS ServerFront

CONSTANTS k1, k2, s1, s2, u1, t1

const_Socks == {k1, k2}
const_OneSock == {k1}
const_Sigs == {s1, s2}
const_Udps == {u1}
const_Tims == {t1}
const_Signos == {2, 15}
const_Timeouts == {0, 1500}

(* _init_ splits milliseconds into a normalised timespec without loss.     *)
ASSUME TimespecExact ==
  \A ms \in {0, 1, 999, 1000, 1001, 1500, 2147483} :
    LET v == timespec(ms) IN
    /\ v.nsec \in 0..999999999
    /\ v.sec * 1000 + v.nsec \div 1000000 = ms
=============================================================================
