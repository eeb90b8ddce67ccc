------------------------------ MODULE KyberKem ------------------------------
(***************************************************************************)
(* The Kyber KEM wrapper (src/lib/crypto/kyber.cpp): key generation,       *)
(* encapsulation under a public key and decapsulation with a private key,  *)
(* each a stateless call that decodes the key in the Botan mode its        *)
(* kyber_parameter_e selects and asks the provider for a shared secret of  *)
(* the key-share size that parameter fixes.                                *)
(*                                                                         *)
(* The provider (Botan's Kyber, PK_KEM_Encryptor/Decryptor with the "Raw"  *)
(* KDF) is not part of this source; its behaviour is modelled from the     *)
(* KEM contract: a ciphertext of the wrong length for the key's mode is    *)
(* rejected with an exception, any other ciphertext not made for this key  *)
(* decapsulates to an unrelated value (implicit rejection), and a          *)
(* ciphertext made for this key gives the sender's secret.                 *)
(*                                                                         *)
(* The environment generates key pairs, encapsulates, and hands the        *)
(* receiver ciphertexts that may have been cut short or altered on the     *)
(* way.                                                                    *)
(***************************************************************************)
EXTENDS Naturals, Sequences

CONSTANTS
  MaxKeys,    \* key pairs the environment generates
  MaxEncaps   \* encapsulations it performs

ASSUME KyberBoundsAssumption ==
  MaxKeys \in Nat \ {0} /\ MaxEncaps \in Nat \ {0}

(* kyber_parameter_e and Botan's KyberMode.                                *)
KyberParams == {"kyber_768", "kyber_1024"}

KyberModes == {"Kyber768", "Kyber1024"}

(* rnp_kyber_param_to_botan_kyber_mode (kyber.cpp 43-51): Kyber1024 unless *)
(* the parameter is kyber_768.                                             *)
rnp_kyber_param_to_botan_kyber_mode(p) ==
  IF p = "kyber_768" THEN "Kyber768" ELSE "Kyber1024"

(* key_share_size_from_kyber_param (kyber.cpp 53-60).                      *)
key_share_size_from_kyber_param(p) ==
  IF p = "kyber_768" THEN 24 ELSE 32

---------------------------------------------------------------------------
(* The provider.  A ciphertext carries the key pair and the encapsulation  *)
(* it was made in and its byte length; `altered' marks one changed on the  *)
(* way at the same length.  A shared secret carries what it was derived    *)
(* from and its length; `genuine' is FALSE for an implicit-rejection       *)
(* output.                                                                 *)

(* Ciphertext lengths of the two Kyber round-3 parameter sets.             *)
CiphertextSize(m) == IF m = "Kyber768" THEN 1088 ELSE 1568

Ciphertext(i, m, n) ==
  [key |-> i, mode |-> m, nonce |-> n, len |-> CiphertextSize(m), altered |-> FALSE]

Secret(i, n, len, genuine) ==
  [key |-> i, nonce |-> n, len |-> len, genuine |-> genuine]

(* The exception the provider throws on a malformed ciphertext.           *)
ProviderException == [exception |-> "Invalid_Argument"]

(* The outcome of PK_KEM_Decryptor::decrypt for private key j decoded in   *)
(* mode m, asked for len bytes.                                            *)
ProviderDecrypt(j, m, ct, len) ==
  IF ct.len # CiphertextSize(m) THEN ProviderException
  ELSE Secret(j, ct.nonce, len, ct.key = j /\ ct.mode = m /\ ~ct.altered)

---------------------------------------------------------------------------
VARIABLES
  keys,    \* keys[i]: the kyber_parameter_e of the i-th generated key pair
  nonce,   \* encapsulations made so far (the provider's fresh randomness)
  encaps,  \* results of encapsulate: [pub, ct, ss]
  decaps   \* results of decapsulate: [priv, ct, out]

vars == <<keys, nonce, encaps, decaps>>

Init ==
  /\ keys = << >>
  /\ nonce = 0
  /\ encaps = {}
  /\ decaps = {}

(* kyber_generate_keypair (kyber.cpp 63-77): both keys carry the           *)
(* parameter they were generated with.                                     *)
GenerateKeypair(p) ==
  /\ Len(keys) < MaxKeys
  /\ keys' = Append(keys, p)
  /\ UNCHANGED <<nonce, encaps, decaps>>

(* pgp_kyber_public_key_t::encapsulate (kyber.cpp 79-98): decode the       *)
(* public key in its mode, encrypt with a fresh draw, asking for the       *)
(* parameter's key-share size.                                             *)
Encapsulate(i) ==
  /\ nonce < MaxEncaps
  /\ LET p == keys[i]
         m == rnp_kyber_param_to_botan_kyber_mode(p)
     IN  encaps' = encaps \cup
           {[pub |-> i, ct |-> Ciphertext(i, m, nonce + 1),
             ss |-> Secret(i, nonce + 1, key_share_size_from_kyber_param(p), TRUE)]}
  /\ nonce' = nonce + 1
  /\ UNCHANGED <<keys, decaps>>

(* What the receiver may be handed: a ciphertext as sent, cut short by     *)
(* one byte, or altered at the same length.                                *)
Truncated(c) ==
  [key |-> c.key, mode |-> c.mode, nonce |-> c.nonce, len |-> c.len - 1, altered |-> c.altered]

Altered(c) ==
  [key |-> c.key, mode |-> c.mode, nonce |-> c.nonce, len |-> c.len, altered |-> TRUE]

DecapInputs ==
  LET sent == {e.ct : e \in encaps}
  IN  sent \cup {Truncated(c) : c \in sent} \cup {Altered(c) : c \in sent}

(* Mutant: the private key decoded in the default mode whatever its        *)
(* parameter.                                                              *)
DecapsulateDefaultMode(j, ct) ==
  /\ decaps' = decaps \cup
       {[priv |-> j, ct |-> ct,
         out |-> ProviderDecrypt(j, "Kyber1024", ct,
                                 key_share_size_from_kyber_param(keys[j]))]}
  /\ UNCHANGED <<keys, nonce, encaps>>

(* pgp_kyber_private_key_t::decapsulate (kyber.cpp 100-112): decode the     *)
(* private key in its mode and decrypt, asking for the parameter's         *)
(* key-share size; a provider exception propagates to the caller.         *)
Decapsulate(j, ct) ==
  LET p == keys[j] IN
  /\ decaps' = decaps \cup
       {[priv |-> j, ct |-> ct,
         out |-> ProviderDecrypt(j, rnp_kyber_param_to_botan_kyber_mode(p), ct,
                                 key_share_size_from_kyber_param(p))]}
  /\ UNCHANGED <<keys, nonce, encaps>>

Next ==
  \/ \E p \in KyberParams : GenerateKeypair(p)
  \/ \E i \in 1..Len(keys) : Encapsulate(i)
  \/ \E j \in 1..Len(keys), ct \in DecapInputs : Decapsulate(j, ct)

Spec == Init /\ [][Next]_vars

---------------------------------------------------------------------------
(* Type invariant.  A shared secret has one of the two protocol-fixed      *)
(* key-share lengths.                                                      *)
KeyShareSizes == {24, 32}

SecretType == [key : Nat, nonce : Nat, len : KeyShareSizes, genuine : BOOLEAN]

CtType == [key : Nat, mode : KyberModes, nonce : Nat, len : Nat, altered : BOOLEAN]

KyberTypeOK ==
  /\ keys \in Seq(KyberParams) /\ Len(keys) <= MaxKeys
  /\ nonce \in 0..MaxEncaps
  /\ encaps \subseteq [pub : Nat, ct : CtType, ss : SecretType]
  /\ decaps \subseteq [priv : Nat, ct : CtType, out : SecretType \cup {ProviderException}]

(* KEM correctness (spec section 6): when the holder of the private key    *)
(* of a pair decapsulates a ciphertext exactly as encapsulate produced it  *)
(* under that pair's public key, it obtains the sender's shared secret,    *)
(* of the same length: encapsulate and decapsulate derive the Botan mode   *)
(* and the key-share size from the parameter the same way.                 *)
KemAgreement ==
  \A e \in encaps, d \in decaps :
     d.priv = e.pub /\ d.ct = e.ct => d.out = e.ss

(* The strengthening KemAgreement rests on: every encapsulation result is *)
(* the ciphertext and secret encapsulate makes for the key's parameter,   *)
(* and every decapsulation result is what the provider returns for the    *)
(* key's mode and key-share size.  Key pairs are only ever appended, so   *)
(* the parameter a result was made with is still keys[i].                 *)
EncapsOk(e) ==
  /\ e.pub \in 1..Len(keys)
  /\ e.ct = Ciphertext(e.pub, rnp_kyber_param_to_botan_kyber_mode(keys[e.pub]), e.ct.nonce)
  /\ e.ss = Secret(e.pub, e.ct.nonce, key_share_size_from_kyber_param(keys[e.pub]), TRUE)

DecapsOk(d) ==
  /\ d.priv \in 1..Len(keys)
  /\ d.out = ProviderDecrypt(d.priv, rnp_kyber_param_to_botan_kyber_mode(keys[d.priv]), d.ct,
                             key_share_size_from_kyber_param(keys[d.priv]))

KemInv ==
  /\ KyberTypeOK
  /\ \A e \in encaps : EncapsOk(e)
  /\ \A d \in decaps : DecapsOk(d)

(* Spec section 4.4 / 5: decapsulate validates the ciphertext length       *)
(* itself and fails with a decapsulation failure of its own; it never      *)
(* hands a malformed ciphertext to the provider.  kyber.cpp 100-112 checks  *)
(* nothing and lets the provider's exception propagate.                    *)
DecapValidatesLength ==
  \A d \in decaps : d.out # ProviderException

=============================================================================
