---------------------------- MODULE MCCrudStore ----------------------------
(* Two worker threads on one directory of entities. *)
EXTENDS CrudStore, TLC

Symmetry == Permutations(Thread) \cup Permutations(Content)
=============================================================================
