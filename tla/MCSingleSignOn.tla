--------------------------- MODULE MCSingleSignOn ---------------------------
(***************************************************************************)
(* Instances of SingleSignOn for TLC: two applications, one subject with a *)
(* wallet and one with a password.                                         *)
(***************************************************************************)
EXTENDS SingleSignOn
=============================================================================
