------------------------ MODULE MCCompositeKeyErrors ------------------------
(* Model-checking instance of CompositeKeyErrors, with the constants of    *)
(* MCCompositeKey.                                                         *)
EXTENDS MCCompositeKey, CompositeKeyErrors

=============================================================================
