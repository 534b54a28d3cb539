------------------------------ MODULE MCMinting ------------------------------
(***************************************************************************)
(* Instances of Minting for TLC: with two numbers for the search to try,   *)
(* the third attempt may find none that is free.                           *)
(***************************************************************************)
EXTENDS Minting
=============================================================================
