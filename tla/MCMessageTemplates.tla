------------------------- MODULE MCMessageTemplates -------------------------
(***************************************************************************)
(* Instances of MessageTemplates for TLC: every PUT names one field, the   *)
(* least that lets one update undo another.                                *)
(***************************************************************************)
EXTENDS MessageTemplates, TLC

OneField ==
    {[name |-> x, content |-> None] : x \in Names}
        \cup {[name |-> None, content |-> x] : x \in Contents}

Symmetry == Permutations(Requests)
=============================================================================
