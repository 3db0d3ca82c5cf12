----------------------------- MODULE MCThrottle -----------------------------
(* Throttle for TLC: threads are interchangeable, and so are keys.         *)
EXTENDS Throttle, TLC

Symmetry == Permutations(Thread) \cup Permutations(Key)
=============================================================================
