---------------------------- MODULE MCMemeStore ----------------------------
(* Two worker threads; as many ids as requests, so that none runs out. *)
EXTENDS MemeStore, TLC

MCGarbage == {-2, 0, 7}

(* The positive floats of two bits, up to 12, and 0: the integers up to 4, 6,  *)
(* 8 and 12, halves below 2, quarters below 1. A text keeps thirds, so that    *)
(* neither holds all that the other does.                                      *)
MCFloat == {3 * m * 2^e : m \in 0..3, e \in 0..4}
MCEven == {3 * m * 2^e : m \in {0, 2}, e \in 0..4}

Symmetry == Permutations(Thread) \cup Permutations(Body)
=============================================================================
