--------------------------- MODULE MCWalletFiles ---------------------------
(* An instance of WalletFiles for TLC: mints other than the first are interchangeable. *)
EXTENDS WalletFiles, TLC

MintSymmetry == {p \in Permutations(Mints) : p[Original] = Original}
=============================================================================
