---------------------------- MODULE CompositeObj ----------------------------
(***************************************************************************)
(* The composite key object of src/lib/crypto/dilithium_exdsa_composite.* *)
(* as a value, and what its constructors, operator=, get_encoded and       *)
(* secure_clear compute on it.  No variables: CompositeKey drives these    *)
(* objects by the layer's calls.                                           *)
(*                                                                         *)
(* A byte is the triple <<g, part, i>>: byte i of the provider encoding of *)
(* the sub-key `part' made by the g-th key generation, so that slicing and *)
(* concatenation are modelled by what they do and a misplaced offset shows *)
(* up as bytes of the wrong part.                                          *)
(***************************************************************************)
EXTENDS CompositeParams, Sequences

(* Bytes and buffers.                                                      *)
Parts == {"exdsa_priv", "exdsa_pub", "dilithium_priv", "dilithium_pub"}

Byte == Nat \X (Parts \cup {"junk"}) \X Nat

(* The provider encoding of sub-key `part' of the g-th generation.         *)
Material(g, part, n) == [i \in 1..n |-> <<g, part, i>>]

(* A byte that belongs to no key, appended to forge an over-long input.    *)
JunkByte == <<0, "junk", 1>>

(* The value of pk_alg_ in a default-constructed object.                   *)
NoAlg == "NONE"

Obj == [alg : PkAlgs \cup {NoAlg}, exdsa : Seq(Byte), dilithium : Seq(Byte),
        exdsa_init : BOOLEAN, dilithium_init : BOOLEAN]

(* pgp_dilithium_exdsa_composite_{private,public}_key_t() = default: the  *)
(* flags have initializers (h 66-67), pk_alg_ has none (h 108) and holds   *)
(* whatever value t the storage had.                                       *)
DefaultObjTagged(t) ==
  [alg |-> t, exdsa |-> << >>, dilithium |-> << >>,
   exdsa_init |-> FALSE, dilithium_init |-> FALSE]

DefaultObj == DefaultObjTagged(NoAlg)

(* is_initialized (h 61-63).                                               *)
is_initialized(o) == o.exdsa_init /\ o.dilithium_init

---------------------------------------------------------------------------
(* operator= (cpp 209-228) stopped after n of its member copies: the base  *)
(* part (both flags) and pk_alg_ cannot fail, dilithium_key_ is copied     *)
(* third and exdsa_key_ fourth.  n = 4 is a completed assignment.          *)
Assigned(dst, src, n) ==
  [exdsa_init |-> src.exdsa_init, dilithium_init |-> src.dilithium_init,
   alg |-> src.alg,
   dilithium |-> IF n >= 3 THEN src.dilithium ELSE dst.dilithium,
   exdsa |-> IF n >= 4 THEN src.exdsa ELSE dst.exdsa]

(* The constructor from two part encodings (cpp 193-206, 244-257); its     *)
(* length checks pass on the provider's encodings, which have the tables'  *)
(* sizes, the only ones the model builds it from.                          *)
FromParts(r, ex, dil, a) ==
  [alg |-> a, exdsa |-> ex, dilithium |-> dil,
   exdsa_init |-> TRUE, dilithium_init |-> TRUE]

(* The length check of dilithium_key_from_encoded and                      *)
(* exdsa_key_from_encoded (cpp 270, 286, 334, 349): encoded_size must not  *)
(* throw and must equal the input's length.                                *)
from_encoded_ok(r, buf, a) ==
  /\ SizeDefined(a)
  /\ Len(buf) = encoded_size(r, a)

(* Mutant: the Dilithium part cut one byte late.                          *)
DecodedOffByOne(r, buf, a) ==
  [alg |-> a,
   exdsa |-> SubSeq(buf, 1, ExdsaLen(r, a) + 1),
   dilithium |-> SubSeq(buf, ExdsaLen(r, a) + 2, Len(buf)),
   exdsa_init |-> TRUE, dilithium_init |-> TRUE]

(* The constructor from one composite encoding (cpp 230-242, 179-191):     *)
(* dilithium_key_from_encoded takes the bytes from the classical size on,  *)
(* exdsa_key_from_encoded the bytes before it.                             *)
Decoded(r, buf, a) ==
  [alg |-> a,
   exdsa |-> SubSeq(buf, 1, ExdsaLen(r, a)),
   dilithium |-> SubSeq(buf, ExdsaLen(r, a) + 1, Len(buf)),
   exdsa_init |-> TRUE, dilithium_init |-> TRUE]

(* Mutant: the two parts concatenated in the other order.                  *)
get_encoded_swapped(o) == o.dilithium \o o.exdsa

(* get_encoded (cpp 297-307, 360-370): classical part, then Dilithium.     *)
get_encoded(o) == o.exdsa \o o.dilithium

(* The provider encodings of generation g, in the sizes the tables give   *)
(* (generate_exdsa_key_pair, dilithium_generate_keypair: cpp 54, 60).      *)
ExdsaPart(r) == IF r = "priv" THEN "exdsa_priv" ELSE "exdsa_pub"

DilithiumPart(r) == IF r = "priv" THEN "dilithium_priv" ELSE "dilithium_pub"

ExdsaMaterial(r, g, a) ==
  Material(g, ExdsaPart(r), ExdsaLen(r, a))

DilithiumMaterial(r, g, a) ==
  Material(g, DilithiumPart(r), DilithiumSize(r, pk_alg_to_dilithium_id[a]))

(* The composite object of role r constructed from them (cpp 62-63).       *)
GenObj(r, g, a) ==
  FromParts(r, ExdsaMaterial(r, g, a), DilithiumMaterial(r, g, a), a)

(* The object with both initialization flags reset.                        *)
Cleared(o) ==
  [alg |-> o.alg, exdsa |-> o.exdsa, dilithium |-> o.dilithium,
   exdsa_init |-> FALSE, dilithium_init |-> FALSE]

=============================================================================
