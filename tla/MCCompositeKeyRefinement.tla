---------------------- MODULE MCCompositeKeyRefinement ----------------------
(***************************************************************************)
(* Model-checking instance of CompositeKeyRefinement: the sizes and the   *)
(* algorithm inputs of MCCompositeKey, with one key struct.  Checking the  *)
(* mapping on every step of the two-struct instance of MCCompositeKey      *)
(* takes minutes; the refinement's questions (which pair a decoded key    *)
(* is, under which tag) do not depend on a second struct.                  *)
(***************************************************************************)
EXTENDS CompositeKeyRefinement, MCCompositeKey

(* One key struct: a copy is then an assignment of an object to itself.  *)
MCRefKeySlots == {k1}

(* A default object's pk_alg_ is indeterminate (h 108): it may read as    *)
(* NONE, as a composite algorithm or as a non-composite one.               *)
MCRefDefaultTags == {NoAlg, "DILITHIUM5_P384", "RSA"}

(* The encoded sizes of MCAlgInputs under the stand-in Dilithium sizes    *)
(* are apart as the provider's are (34, 36, 54, 67 and 102 bytes; only    *)
(* the private Ed25519 and P-256 encodings share a size, and their split   *)
(* points agree).                                                          *)
ASSUME MCSizesSeparated == SizesSeparated

=============================================================================
