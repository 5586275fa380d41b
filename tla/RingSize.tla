------------------------------- MODULE RingSize -------------------------------
(***************************************************************************)
(* How ringbuff chooses its capacity: adj_size, with is_powtwo and         *)
(* next_powtwo.  A size_t has 2^w bits; the code, with w = 5 or 6, shifts  *)
(* by 2^0 to 2^(w-1), that is by 1, 2, 4, 8, 16 and, if sizeof(size_t) is  *)
(* more than 4, 32.                                                        *)
(***************************************************************************)
EXTENDS Integers, SequencesExt, Bitwise

(* A result that does not fit a size_t wraps around.                       *)
size_t(n, w) == n % 2^(2^w)

is_powtwo(n) == n # 0 /\ (n & (n - 1)) = 0

(* --n, then n |= n >> s for each shift s, then n + 1.                     *)
next_powtwo(n, w) ==
  LET Smear(m, s) == m | (m \div 2^s)
      Shifts == [i \in 1..w |-> 2^(i - 1)]
  IN IF n = 0 THEN 1 ELSE size_t(FoldLeft(Smear, n - 1, Shifts) + 1, w)

adj_size(n, w) == IF is_powtwo(n) THEN n ELSE next_powtwo(n, w)

(* What the comment of adj_size promises: the least power of two that is   *)
(* not below n.                                                            *)
LeastPowTwo(n) ==
  LET k == CHOOSE k \in 0..n : 2^k >= n /\ \A j \in 0..(k - 1) : 2^j < n
  IN 2^k

(* adj_size keeps that promise for every size up to the largest power of   *)
(* two a size_t holds, and wraps to 0 above it; 0 and 1 give a ring of one *)
(* slot, which is always full (ringbuff.tpp 177-224).                      *)
SizeAdjusted(w) ==
  LET top == 2^(2^w - 1) IN
  \A n \in 0..(2 * top - 1) :
    adj_size(n, w) = IF n <= top THEN LeastPowTwo(n) ELSE 0
=============================================================================
