--------------------------- MODULE KyberKemProofs ---------------------------
(***************************************************************************)
(* Proofs about the Kyber KEM wrapper model (KyberKem): type correctness   *)
(* and KEM agreement for every number of key pairs and encapsulations.     *)
(***************************************************************************)
EXTENDS KyberKem, SequenceTheorems, TLAPS

(* The two mappings of kyber.cpp (43-51, 53-60) land in the Botan modes    *)
(* and the key-share sizes, and a ciphertext length is a natural number.   *)
LEMMA MappingsTyped ==
  ASSUME NEW p
  PROVE  /\ rnp_kyber_param_to_botan_kyber_mode(p) \in KyberModes
         /\ key_share_size_from_kyber_param(p) \in KeyShareSizes
         /\ \A m \in KyberModes : CiphertextSize(m) \in Nat \ {0}
  BY DEF rnp_kyber_param_to_botan_kyber_mode, key_share_size_from_kyber_param,
         KyberModes, KeyShareSizes, CiphertextSize

(* A ciphertext an encapsulation made has the type of ciphertexts, and so  *)
(* have its truncated and altered forms.                                   *)
LEMMA CiphertextTyped ==
  ASSUME NEW i \in Nat, NEW m \in KyberModes, NEW n \in Nat
  PROVE  /\ Ciphertext(i, m, n) \in CtType
         /\ Truncated(Ciphertext(i, m, n)) \in CtType
         /\ Altered(Ciphertext(i, m, n)) \in CtType
  <1>1. CiphertextSize(m) \in Nat \ {0}
    BY MappingsTyped
  <1>. QED
    BY <1>1 DEF Ciphertext, Truncated, Altered, CtType

(* Every input the receiver may be handed is a ciphertext, when every      *)
(* encapsulation result is the one encapsulate makes.                      *)
LEMMA DecapInputsTyped ==
  ASSUME KyberTypeOK, \A e \in encaps : EncapsOk(e)
  PROVE  DecapInputs \subseteq CtType
  <1> SUFFICES ASSUME NEW e \in encaps
               PROVE  /\ e.ct \in CtType
                      /\ Truncated(e.ct) \in CtType
                      /\ Altered(e.ct) \in CtType
    BY DEF DecapInputs
  <1>1. /\ e.pub \in Nat
        /\ e.ct.nonce \in Nat
        /\ keys[e.pub] \in KyberParams
        /\ e.pub \in 1..Len(keys)
        /\ e.ct = Ciphertext(e.pub, rnp_kyber_param_to_botan_kyber_mode(keys[e.pub]), e.ct.nonce)
    <2>1. e \in [pub : Nat, ct : CtType, ss : SecretType]
      BY DEF KyberTypeOK
    <2>2. e.ct.nonce \in Nat
      BY <2>1 DEF CtType
    <2>3. e.pub \in 1..Len(keys) /\ e.ct = Ciphertext(e.pub, rnp_kyber_param_to_botan_kyber_mode(keys[e.pub]), e.ct.nonce)
      BY DEF EncapsOk
    <2>4. keys[e.pub] \in KyberParams
      BY <2>3, LenProperties DEF KyberTypeOK
    <2>. QED
      BY <2>1, <2>2, <2>3, <2>4
  <1>2. rnp_kyber_param_to_botan_kyber_mode(keys[e.pub]) \in KyberModes
    BY MappingsTyped
  <1>. QED
    BY <1>1, <1>2, CiphertextTyped

(* The initial state satisfies the invariant.                              *)
LEMMA KemInvInit == Init => KemInv
  BY KyberBoundsAssumption, EmptySeq DEF Init, KemInv, KyberTypeOK

(* Appending a key pair keeps the parameters of the existing ones.         *)
LEMMA AppendKeeps ==
  ASSUME NEW s \in Seq(KyberParams), NEW p \in KyberParams, NEW i \in 1..Len(s)
  PROVE  /\ Append(s, p)[i] = s[i]
         /\ i \in 1..Len(Append(s, p))
  BY AppendProperties

(* Every step preserves the invariant.                                     *)
LEMMA KemInvStep == KemInv /\ [Next]_vars => KemInv'
  <1> SUFFICES ASSUME KemInv, [Next]_vars PROVE KemInv'
    OBVIOUS
  <1>0. /\ keys \in Seq(KyberParams) /\ Len(keys) <= MaxKeys
        /\ nonce \in 0..MaxEncaps
        /\ encaps \subseteq [pub : Nat, ct : CtType, ss : SecretType]
        /\ decaps \subseteq [priv : Nat, ct : CtType, out : SecretType \cup {ProviderException}]
        /\ \A e \in encaps : EncapsOk(e)
        /\ \A d \in decaps : DecapsOk(d)
    BY DEF KemInv, KyberTypeOK
  <1>1. ASSUME NEW p \in KyberParams, GenerateKeypair(p) PROVE KemInv'
    <2>1. keys' = Append(keys, p) /\ Len(keys) < MaxKeys
          /\ UNCHANGED <<nonce, encaps, decaps>>
      BY <1>1 DEF GenerateKeypair
    <2>2. KyberTypeOK'
      <3>1. keys' \in Seq(KyberParams) /\ Len(keys') = Len(keys) + 1
        BY <1>0, <2>1, AppendProperties
      <3>2. Len(keys') <= MaxKeys
        BY <3>1, <2>1, <1>0, LenProperties, KyberBoundsAssumption
      <3>. QED
        BY <3>1, <3>2, <1>0, <2>1 DEF KyberTypeOK
    <2>3. \A e \in encaps' : EncapsOk(e)'
      <3> SUFFICES ASSUME NEW e \in encaps PROVE EncapsOk(e)'
        BY <2>1
      <3>1. EncapsOk(e)
        BY <1>0
      <3>2. e.pub \in 1..Len(keys)
        BY <3>1 DEF EncapsOk
      <3>3. keys'[e.pub] = keys[e.pub] /\ e.pub \in 1..Len(keys')
        BY <3>2, <2>1, <1>0, AppendKeeps
      <3>. QED
        BY <3>1, <3>3 DEF EncapsOk
    <2>4. \A d \in decaps' : DecapsOk(d)'
      <3> SUFFICES ASSUME NEW d \in decaps PROVE DecapsOk(d)'
        BY <2>1
      <3>1. DecapsOk(d)
        BY <1>0
      <3>2. d.priv \in 1..Len(keys)
        BY <3>1 DEF DecapsOk
      <3>3. keys'[d.priv] = keys[d.priv] /\ d.priv \in 1..Len(keys')
        BY <3>2, <2>1, <1>0, AppendKeeps
      <3>. QED
        BY <3>1, <3>3 DEF DecapsOk
    <2>. QED
      BY <2>2, <2>3, <2>4 DEF KemInv
  <1>2. ASSUME NEW i \in 1..Len(keys), Encapsulate(i) PROVE KemInv'
    <2> DEFINE m == rnp_kyber_param_to_botan_kyber_mode(keys[i])
               new == [pub |-> i, ct |-> Ciphertext(i, m, nonce + 1),
                       ss |-> Secret(i, nonce + 1, key_share_size_from_kyber_param(keys[i]), TRUE)]
    <2>1. /\ nonce < MaxEncaps
          /\ encaps' = encaps \cup {new}
          /\ nonce' = nonce + 1
          /\ UNCHANGED <<keys, decaps>>
      BY <1>2 DEF Encapsulate
    <2>2. keys[i] \in KyberParams
      BY <1>0, LenProperties
    <2>3. new \in [pub : Nat, ct : CtType, ss : SecretType]
      <3>1. m \in KyberModes /\ key_share_size_from_kyber_param(keys[i]) \in KeyShareSizes
        BY <2>2, MappingsTyped
      <3>2. Ciphertext(i, m, nonce + 1) \in CtType
        BY <3>1, <1>0, CiphertextTyped
      <3>. QED
        BY <3>1, <3>2, <1>0 DEF Secret, SecretType
    <2>4. KyberTypeOK'
      <3>1. nonce' \in 0..MaxEncaps
        BY <1>0, <2>1, KyberBoundsAssumption
      <3>. QED
        BY <1>0, <2>1, <2>3, <3>1 DEF KyberTypeOK
    <2>5. ASSUME NEW e, e = new PROVE EncapsOk(e)'
      <3>1. e.pub = i /\ e.ct.nonce = nonce + 1
        BY <2>5 DEF Ciphertext
      <3>2. e.pub \in 1..Len(keys')
        BY <3>1, <2>1
      <3>3. e.ct = Ciphertext(e.pub, rnp_kyber_param_to_botan_kyber_mode(keys'[e.pub]), e.ct.nonce)
        BY <3>1, <2>1, <2>5
      <3>4. e.ss = Secret(e.pub, e.ct.nonce, key_share_size_from_kyber_param(keys'[e.pub]), TRUE)
        BY <3>1, <2>1, <2>5
      <3>. QED
        BY <3>2, <3>3, <3>4 DEF EncapsOk
    <2>6. \A e \in encaps' : EncapsOk(e)'
      <3> SUFFICES ASSUME NEW e \in encaps' PROVE EncapsOk(e)'
        OBVIOUS
      <3>1. CASE e = new
        BY <3>1, <2>5
      <3>2. CASE e \in encaps
        BY <3>2, <1>0, <2>1 DEF EncapsOk
      <3>. QED
        BY <3>1, <3>2, <2>1
    <2>7. \A d \in decaps' : DecapsOk(d)'
      BY <1>0, <2>1 DEF DecapsOk
    <2>. QED
      BY <2>4, <2>6, <2>7 DEF KemInv
  <1>3. ASSUME NEW j \in 1..Len(keys), NEW ct \in DecapInputs, Decapsulate(j, ct)
        PROVE KemInv'
    <2> DEFINE out == ProviderDecrypt(j, rnp_kyber_param_to_botan_kyber_mode(keys[j]), ct,
                                      key_share_size_from_kyber_param(keys[j]))
               new == [priv |-> j, ct |-> ct, out |-> out]
    <2>1. decaps' = decaps \cup {new} /\ UNCHANGED <<keys, nonce, encaps>>
      BY <1>3 DEF Decapsulate
    <2>2. ct \in CtType
      BY <1>0, DecapInputsTyped DEF KyberTypeOK
    <2>3. out \in SecretType \cup {ProviderException}
      <3>1. key_share_size_from_kyber_param(keys[j]) \in KeyShareSizes
        BY MappingsTyped
      <3>2. ct.nonce \in Nat
        BY <2>2 DEF CtType
      <3>. QED
        BY <3>1, <3>2 DEF ProviderDecrypt, Secret, SecretType
    <2>4. KyberTypeOK'
      BY <1>0, <2>1, <2>2, <2>3 DEF KyberTypeOK
    <2>5. \A e \in encaps' : EncapsOk(e)'
      BY <1>0, <2>1 DEF EncapsOk
    <2>6. \A d \in decaps' : DecapsOk(d)'
      BY <1>0, <2>1 DEF DecapsOk
    <2>. QED
      BY <2>4, <2>5, <2>6 DEF KemInv
  <1>4. CASE UNCHANGED vars
    BY <1>0, <1>4 DEF KemInv, KyberTypeOK, EncapsOk, DecapsOk, vars
  <1>. QED
    BY <1>1, <1>2, <1>3, <1>4 DEF Next

(* The invariant implies KEM agreement: a ciphertext exactly as            *)
(* encapsulate made it has the length of its key's mode, so the provider   *)
(* accepts it and derives the sender's secret.                             *)
LEMMA KemInvAgreement == KemInv => KemAgreement
  <1> SUFFICES ASSUME KemInv, NEW e \in encaps, NEW d \in decaps,
                      d.priv = e.pub, d.ct = e.ct
               PROVE  d.out = e.ss
    BY DEF KemAgreement
  <1>1. EncapsOk(e) /\ DecapsOk(d)
    BY DEF KemInv
  <1> DEFINE m == rnp_kyber_param_to_botan_kyber_mode(keys[e.pub])
             len == key_share_size_from_kyber_param(keys[e.pub])
  <1>2. e.ct = Ciphertext(e.pub, m, e.ct.nonce) /\ e.ss = Secret(e.pub, e.ct.nonce, len, TRUE)
    BY <1>1 DEF EncapsOk
  <1>3. d.out = ProviderDecrypt(e.pub, m, e.ct, len)
    BY <1>1 DEF DecapsOk
  <1>4. e.ct.len = CiphertextSize(m) /\ e.ct.key = e.pub /\ e.ct.mode = m /\ e.ct.altered = FALSE
    BY <1>2 DEF Ciphertext
  <1>. QED
    BY <1>2, <1>3, <1>4 DEF ProviderDecrypt

(* KEM correctness of encapsulate and decapsulate (kyber.cpp 79-112): the  *)
(* holder of the matching private key recovers the sender's shared secret  *)
(* from an untouched ciphertext, whatever the numbers of keys and calls.   *)
THEOREM KemAgreementHolds == Spec => []KemAgreement
  BY KemInvInit, KemInvStep, KemInvAgreement, PTL DEF Spec

=============================================================================
