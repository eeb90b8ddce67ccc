------------------------- MODULE MCCompositeParams -------------------------
(***************************************************************************)
(* The Dilithium sizes the model-checking instances give CompositeParams:  *)
(* small stand-ins for the provider's (L3: 4000/1952/3293, L5:             *)
(* 4864/2592/4595 bytes), distinct per level and per role like the real    *)
(* ones, so that a confusion of level or role changes a length, while      *)
(* buffers stay short.  The curve sizes are the source's own.              *)
(***************************************************************************)
EXTENDS CompositeParams

MCDilithiumPriv == [l \in DilithiumLevels |-> IF l = "L3" THEN 4 ELSE 6]
MCDilithiumPub  == [l \in DilithiumLevels |-> IF l = "L3" THEN 2 ELSE 5]
MCDilithiumSig  == [l \in DilithiumLevels |-> IF l = "L3" THEN 5 ELSE 7]

=============================================================================
