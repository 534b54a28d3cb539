---------------------------- MODULE MCAppClients ----------------------------
(***************************************************************************)
(* Instances of AppClients for TLC: two configurations with disjoint       *)
(* origins, so that every update changes what CORS should allow.           *)
(***************************************************************************)
EXTENDS AppClients, TLC

CONSTANTS x1, x2, o1, o2

MCConfigs   == {x1, x2}
MCOrigins   == {o1, o2}
MCOriginsOf == x1 :> {o1} @@ x2 :> {o2}

Symmetry == Permutations(Requests)
=============================================================================
