----------------------------- MODULE MCUserOps -----------------------------
(***************************************************************************)
(* Instances of UserOps for TLC: two wallets, so that requests race for    *)
(* one wallet, and for the bundler account only.                           *)
(***************************************************************************)
EXTENDS UserOps, TLC

Symmetry == Permutations(Requests) \cup Permutations(Wallets)
=============================================================================
