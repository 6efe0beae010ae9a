----------------------------- MODULE MCUsername -----------------------------
(* An instance of Username for TLC: names are interchangeable, and so are operations. *)
EXTENDS Username, TLC

NameSymmetry == Permutations(Ops) \cup Permutations(Names)
=============================================================================
