------------------------ MODULE MCAccountIdentities ------------------------
(***************************************************************************)
(* Instances of AccountIdentities for TLC.  Requests, wallets, nonces and  *)
(* registrations are interchangeable, so they are symmetry sets in the     *)
(* runs that check no liveness.                                            *)
(***************************************************************************)
EXTENDS AccountIdentities, TLC

Symmetry ==
    Permutations(Requests) \cup Permutations(Wallets)
        \cup Permutations(Registrations) \cup Permutations(Nonces)
=============================================================================
