-------------------------- MODULE CompositeParams --------------------------
(***************************************************************************)
(* The parameter tables of the Dilithium + ECDSA/EdDSA composite keys      *)
(* (src/lib/crypto/dilithium_exdsa_composite.cpp): the switch statements   *)
(* that map an OpenPGP public-key algorithm to its curve and Dilithium     *)
(* level, the per-curve byte sizes of the classical component, and the     *)
(* composite sizes derived from them.                                      *)
(*                                                                         *)
(* A switch that throws rnp_exception for an argument is modelled as a     *)
(* function whose DOMAIN leaves that argument out: the callers test        *)
(* membership of the DOMAIN and take their error path when it fails.       *)
(*                                                                         *)
(* The Dilithium sizes belong to the Dilithium provider (dilithium.h,      *)
(* not part of this source); they are CONSTANTS, so that every result      *)
(* proved here holds whatever the provider's sizes are.                    *)
(***************************************************************************)
EXTENDS Naturals

CONSTANTS
  dilithium_privkey_size,   \* [DilithiumLevels -> Nat \ {0}], provider table
  dilithium_pubkey_size,    \* [DilithiumLevels -> Nat \ {0}], provider table
  dilithium_signature_size  \* [DilithiumLevels -> Nat \ {0}], provider table

(* The Dilithium parameter sets (dilithium_parameter_e).                   *)
DilithiumLevels == {"L3", "L5"}

ASSUME DilithiumSizesAssumption ==
  /\ dilithium_privkey_size \in [DilithiumLevels -> Nat \ {0}]
  /\ dilithium_pubkey_size \in [DilithiumLevels -> Nat \ {0}]
  /\ dilithium_signature_size \in [DilithiumLevels -> Nat \ {0}]

(* The composite algorithm identifiers the switches name (pgp_pubkey_alg_t). *)
CompositeAlgs ==
  {"DILITHIUM3_ED25519", "DILITHIUM3_P256", "DILITHIUM3_BP256",
   "DILITHIUM5_BP384", "DILITHIUM5_P384", "DILITHIUM5_ED448"}

(* Any other pgp_pubkey_alg_t value reaches the switches' default branch;  *)
(* one representative stands for all of them.                             *)
PkAlgs == CompositeAlgs \cup {"RSA"}

(* pgp_curve_t values that occur: the five the size tables know, Ed448,    *)
(* and the PGP_CURVE_UNKNOWN sentinel.                                     *)
Curves == {"ED25519", "NIST_P_256", "NIST_P_384", "BP256", "BP384", "UNKNOWN"}

(* pk_alg_to_dilithium_id: the level policy (cpp 135-155).                 *)
pk_alg_to_dilithium_id ==
  [a \in CompositeAlgs |->
     IF a \in {"DILITHIUM3_ED25519", "DILITHIUM3_P256", "DILITHIUM3_BP256"}
     THEN "L3" ELSE "L5"]

(* pk_alg_to_curve_id (cpp 157-177).  DILITHIUM5_ED448 is mapped to the    *)
(* PGP_CURVE_UNKNOWN sentinel instead of throwing.                         *)
pk_alg_to_curve_id ==
  [a \in CompositeAlgs |->
     IF a = "DILITHIUM3_ED25519" THEN "ED25519"
     ELSE IF a = "DILITHIUM3_P256" THEN "NIST_P_256"
     ELSE IF a = "DILITHIUM3_BP256" THEN "BP256"
     ELSE IF a = "DILITHIUM5_BP384" THEN "BP384"
     ELSE IF a = "DILITHIUM5_P384" THEN "NIST_P_384"
     ELSE "UNKNOWN"]

(* The curves the three size switches accept; Ed448 is commented out       *)
(* (TODOMTG) and UNKNOWN reaches the throwing default.                     *)
SupportedCurves == {"ED25519", "NIST_P_256", "NIST_P_384", "BP256", "BP384"}

(* exdsa_curve_privkey_size (cpp 69-89).                                   *)
exdsa_curve_privkey_size ==
  [c \in SupportedCurves |-> IF c \in {"NIST_P_384", "BP384"} THEN 48 ELSE 32]

(* exdsa_curve_pubkey_size (cpp 91-111).                                   *)
exdsa_curve_pubkey_size ==
  [c \in SupportedCurves |->
     IF c = "ED25519" THEN 32
     ELSE IF c \in {"NIST_P_256", "BP256"} THEN 65
     ELSE 97]

(* exdsa_curve_signature_size (cpp 113-133).                               *)
exdsa_curve_signature_size ==
  [c \in SupportedCurves |-> IF c \in {"NIST_P_384", "BP384"} THEN 96 ELSE 64]

---------------------------------------------------------------------------
(* The two composite key objects: private and public.                      *)
Roles == {"priv", "pub"}

(* The classical and Dilithium size a role of the object uses.             *)
ExdsaSize(r, c) ==
  IF r = "priv" THEN exdsa_curve_privkey_size[c] ELSE exdsa_curve_pubkey_size[c]

DilithiumSize(r, l) ==
  IF r = "priv" THEN dilithium_privkey_size[l] ELSE dilithium_pubkey_size[l]

(* encoded_size(pk_alg) of either object (cpp 259-265, 323-329) does not   *)
(* throw exactly when both table lookups succeed.                          *)
SizeDefined(a) ==
  /\ a \in CompositeAlgs
  /\ pk_alg_to_curve_id[a] \in SupportedCurves

(* The offset at which the Dilithium part starts: the classical size.      *)
ExdsaLen(r, a) == ExdsaSize(r, pk_alg_to_curve_id[a])

encoded_size(r, a) ==
  ExdsaLen(r, a) + DilithiumSize(r, pk_alg_to_dilithium_id[a])

(* pgp_dilithium_exdsa_signature_t::composite_signature_size (h 75-78).    *)
composite_signature_size(a) ==
  dilithium_signature_size[pk_alg_to_dilithium_id[a]]
    + exdsa_curve_signature_size[pk_alg_to_curve_id[a]]

(* The reason a size lookup throws, used to classify the error: the        *)
(* algorithm is not a composite one, or its curve has no size entry.       *)
SizeFailure(a) ==
  IF a \notin CompositeAlgs THEN "unknown_alg" ELSE "unsupported_curve"

=============================================================================
