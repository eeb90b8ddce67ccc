--------------------------- MODULE MCCompositeKey ---------------------------
(***************************************************************************)
(* Model-checking instance of CompositeKey, with the Dilithium sizes of    *)
(* MCCompositeParams.                                                      *)
(***************************************************************************)
EXTENDS CompositeKey, MCCompositeParams, TLC

CONSTANTS k1, k2

MCKeySlots == {k1, k2}

(* Of the lower Dilithium level: Ed25519 and P-256, whose classical sizes *)
(* differ, and the P-256/Brainpool-256 pair that share every size; of the  *)
(* higher level P-384, and Ed448, whose curve the tables lack; and a       *)
(* non-composite algorithm.                                                *)
MCAlgInputs ==
  {"DILITHIUM3_ED25519", "DILITHIUM3_P256", "DILITHIUM3_BP256", "DILITHIUM5_P384",
   "DILITHIUM5_ED448", "RSA"}

(* An uninitialized pk_alg_ reads as the distinct NONE tag here; the      *)
(* refinement instance lets it read as real algorithms too.               *)
MCDefaultTags == {NoAlg}

MCSymmetry == Permutations(MCKeySlots)

=============================================================================
