------------------------- MODULE CompositeKeyProofs -------------------------
(***************************************************************************)
(* Proofs about CompositeKey: type correctness of every reachable state,   *)
(* and the round-trip property (every initialized key object decodes from  *)
(* its own encoding to itself) for every value of the constants, when      *)
(* copying a byte vector does not fail.                                    *)
(***************************************************************************)
EXTENDS CompositeKey, SequenceTheorems, TLAPS

---------------------------------------------------------------------------
(* Facts about the parameter tables.                                       *)

(* The switches map every composite algorithm to a Dilithium level and a   *)
(* curve, and every size table entry is a positive natural.                *)
LEMMA TablesTyped ==
  /\ \A a \in CompositeAlgs : pk_alg_to_dilithium_id[a] \in DilithiumLevels
  /\ \A a \in CompositeAlgs : pk_alg_to_curve_id[a] \in Curves
  /\ \A c \in SupportedCurves : exdsa_curve_privkey_size[c] \in Nat \ {0}
  /\ \A c \in SupportedCurves : exdsa_curve_pubkey_size[c] \in Nat \ {0}
  /\ \A c \in SupportedCurves : exdsa_curve_signature_size[c] \in Nat \ {0}
  BY DEF pk_alg_to_dilithium_id, pk_alg_to_curve_id, CompositeAlgs, Curves,
         DilithiumLevels, SupportedCurves, exdsa_curve_privkey_size,
         exdsa_curve_pubkey_size, exdsa_curve_signature_size

(* The two sizes a role's encoding is made of are positive naturals when   *)
(* encoded_size does not throw.                                            *)
LEMMA SizesPositive ==
  ASSUME NEW r \in Roles, NEW a, SizeDefined(a)
  PROVE  /\ ExdsaLen(r, a) \in Nat \ {0}
         /\ DilithiumSize(r, pk_alg_to_dilithium_id[a]) \in Nat \ {0}
         /\ encoded_size(r, a) = ExdsaLen(r, a) + DilithiumSize(r, pk_alg_to_dilithium_id[a])
  BY TablesTyped, DilithiumSizesAssumption
     DEF SizeDefined, ExdsaLen, ExdsaSize, DilithiumSize, encoded_size, Roles

(* A provider encoding is a byte sequence of the length it was made with.  *)
LEMMA MaterialSeq ==
  ASSUME NEW g \in Nat, NEW p \in Parts, NEW n \in Nat
  PROVE  /\ Material(g, p, n) \in Seq(Byte)
         /\ Len(Material(g, p, n)) = n
  <1>1. Material(g, p, n) \in Seq(Byte)
    <2>1. \A i \in 1..n : <<g, p, i>> \in Byte
      BY DEF Byte
    <2>2. QED
      BY <2>1, IsASeq DEF Material
  <1>2. Len(Material(g, p, n)) = n
    BY <1>1, LenProperties DEF Material
  <1>3. QED
    BY <1>1, <1>2

(* A completed operator= makes the destination equal to the source.        *)
LEMMA AssignedFull ==
  ASSUME NEW dst \in Obj, NEW src \in Obj
  PROVE  Assigned(dst, src, 4) = src
  BY DEF Assigned, Obj

(* Any prefix of operator= yields a well-typed object.                     *)
LEMMA AssignedTyped ==
  ASSUME NEW dst \in Obj, NEW src \in Obj, NEW n \in {2, 3, 4}
  PROVE  Assigned(dst, src, n) \in Obj
  BY DEF Assigned, Obj

---------------------------------------------------------------------------
(* Type correctness.                                                       *)

(* Every byte string the packet layer may hand to the decoding             *)
(* constructor is a byte sequence.                                         *)
LEMMA DecodeInputsTyped ==
  ASSUME TypeOK
  PROVE  DecodeInputs \subseteq Seq(Byte)
  <1> SUFFICES ASSUME NEW w \in wire PROVE
                 /\ w.buf \in Seq(Byte)
                 /\ SubSeq(w.buf, 1, Len(w.buf) - 1) \in Seq(Byte)
                 /\ Append(w.buf, JunkByte) \in Seq(Byte)
    BY DEF DecodeInputs
  <1>1. w.buf \in Seq(Byte)
    BY DEF TypeOK
  <1>2. JunkByte \in Byte
    BY DEF JunkByte, Byte
  <1>3. SubSeq(w.buf, 1, Len(w.buf) - 1) \in Seq(Byte)
    BY <1>1, SubSeqProperties, ElementOfSeq, LenProperties
  <1>4. QED
    BY <1>1, <1>2, <1>3, AppendProperties

(* The object the decoding constructor builds is well typed.              *)
LEMMA DecodedTyped ==
  ASSUME NEW r \in Roles, NEW buf \in Seq(Byte), NEW a \in PkAlgs,
         from_encoded_ok(r, buf, a)
  PROVE  Decoded(r, buf, a) \in Obj
  <1>1. ExdsaLen(r, a) \in Nat
    BY SizesPositive DEF from_encoded_ok
  <1>2. /\ SubSeq(buf, 1, ExdsaLen(r, a)) \in Seq(Byte)
        /\ SubSeq(buf, ExdsaLen(r, a) + 1, Len(buf)) \in Seq(Byte)
    BY <1>1, SubSeqProperties, ElementOfSeq, LenProperties, SizesPositive
       DEF from_encoded_ok
  <1>3. QED
    BY <1>2 DEF Decoded, Obj

(* Replacing one entry of keys by a well-typed object keeps keys typed.   *)
LEMMA UpdateTyped ==
  ASSUME NEW ks \in [KeySlots \X Roles -> Obj], NEW k \in KeySlots,
         NEW r \in Roles, NEW o \in Obj
  PROVE  [ks EXCEPT ![<<k, r>>] = o] \in [KeySlots \X Roles -> Obj]
  OBVIOUS

(* The objects gen_keypair constructs are well typed.                     *)
LEMMA GenObjTyped ==
  ASSUME NEW r \in Roles, NEW g \in Nat, NEW a \in PkAlgs, SizeDefined(a)
  PROVE  GenObj(r, g, a) \in Obj
  <1>1. /\ ExdsaLen(r, a) \in Nat
        /\ DilithiumSize(r, pk_alg_to_dilithium_id[a]) \in Nat
    BY SizesPositive
  <1>2. ExdsaPart(r) \in Parts /\ DilithiumPart(r) \in Parts
    BY DEF ExdsaPart, DilithiumPart, Parts
  <1>3. ExdsaMaterial(r, g, a) \in Seq(Byte)
    BY <1>1, <1>2, MaterialSeq, Zenon DEF ExdsaMaterial
  <1>4. DilithiumMaterial(r, g, a) \in Seq(Byte)
    BY <1>1, <1>2, MaterialSeq, Zenon DEF DilithiumMaterial
  <1>5. QED
    BY <1>3, <1>4 DEF GenObj, FromParts, Obj

(* Both assignments of gen_keypair, completed or not, keep keys typed.    *)
LEMMA GenAssignedTyped ==
  ASSUME NEW ks \in [KeySlots \X Roles -> Obj], NEW k \in KeySlots,
         NEW g \in Nat, NEW a \in PkAlgs, SizeDefined(a),
         NEW n1 \in {2, 3, 4}, NEW n2 \in {2, 3, 4}
  PROVE  GenAssigned(ks, k, g, a, n1, n2) \in [KeySlots \X Roles -> Obj]
  <1>1. <<k, "priv">> \in KeySlots \X Roles /\ <<k, "pub">> \in KeySlots \X Roles
    BY DEF Roles
  <1>2. GenObj("priv", g, a) \in Obj /\ GenObj("pub", g, a) \in Obj
    BY GenObjTyped DEF Roles
  <1>3. /\ Assigned(ks[<<k, "priv">>], GenObj("priv", g, a), n1) \in Obj
        /\ Assigned(ks[<<k, "pub">>], GenObj("pub", g, a), n2) \in Obj
    BY <1>1, <1>2, AssignedTyped
  <1>4. QED
    BY <1>1, <1>3 DEF GenAssigned

(* Every result record an action returns belongs to Result.               *)
LEMMA ResultsTyped ==
  /\ Ok \in Result
  /\ \A c \in Codes, x \in Causes : Fail(c, x) \in Result
  /\ \A n \in {2, 3, 4} : AssignResult(n) \in Result
  BY DEF Ok, Fail, AssignResult, Result, Codes, Causes

(* The initial state is well typed.                                       *)
LEMMA TypeInit == Init => TypeOK
  <1> SUFFICES ASSUME Init PROVE TypeOK
    OBVIOUS
  <1>1. \A t \in DefaultTags : DefaultObjTagged(t) \in Obj
    BY KeyAssumption, EmptySeq DEF DefaultObjTagged, Obj
  <1>2. keys \in [KeySlots \X Roles -> Obj]
    BY <1>1 DEF Init
  <1>3. gen \in 0..MaxGen
    BY KeyAssumption DEF Init
  <1>4. last \in Result
    BY ResultsTyped DEF Init
  <1>5. QED
    BY <1>2, <1>3, <1>4 DEF Init, TypeOK

(* Every step of the model, stuttering included, keeps the types.          *)
LEMMA TypeStep == TypeOK /\ [Next]_vars => TypeOK'
  <1> SUFFICES ASSUME TypeOK, [Next]_vars PROVE TypeOK'
    OBVIOUS
  <1> USE DEF TypeOK
  <1>0. \A kk \in KeySlots, rr \in Roles : is_initialized(keys[<<kk, rr>>]) \in BOOLEAN
    BY DEF is_initialized, Obj
  <1>1. ASSUME NEW k \in KeySlots, NEW a \in AlgInputs, GenKeypair(k, a)
        PROVE  TypeOK'
    <2>1. CASE ~GenKeypairOk(k, a)
      <3>1. /\ last' \in Result
            /\ UNCHANGED <<keys, gen, wire>>
        BY <1>1, <2>1, ResultsTyped DEF GenKeypair, Return, Codes, Causes
      <3>2. QED
        BY <3>1
    <2>2. CASE GenKeypairOk(k, a)
      <3>1. GenKeypairOk(k, a) /\ SizeDefined(a)
        BY <2>2 DEF GenKeypairOk
      <3>2. gen + 1 \in Nat /\ gen' = gen + 1 /\ gen + 1 \in 0..MaxGen
        BY <3>1, KeyAssumption DEF GenKeypairOk
      <3>3. PICK n1, n2 \in AssignSteps :
               /\ keys' = GenAssigned(keys, k, gen + 1, a, n1, n2)
               /\ last' = AssignResult(IF n1 = 4 THEN n2 ELSE n1)
        BY <3>1 DEF GenKeypairOk, Return
      <3>4. n1 \in {2, 3, 4} /\ n2 \in {2, 3, 4}
        BY DEF AssignSteps
      <3>5. keys' \in [KeySlots \X Roles -> Obj]
        <4>1. a \in PkAlgs
          BY KeyAssumption
        <4>2. GenAssigned(keys, k, gen + 1, a, n1, n2) \in [KeySlots \X Roles -> Obj]
          BY <3>1, <3>2, <3>4, <4>1, GenAssignedTyped, Zenon
        <4>3. QED
          BY <3>3, <4>2
      <3>6. last' \in Result
        BY <3>3, <3>4, ResultsTyped
      <3>7. wire' = wire
        BY <3>1 DEF GenKeypairOk
      <3>8. QED
        BY <3>2, <3>5, <3>6, <3>7
    <2>3. QED
      BY <2>1, <2>2
  <1>2. ASSUME NEW k \in KeySlots, NEW r \in Roles, NEW buf \in DecodeInputs,
               NEW a \in AlgInputs, Decode(k, r, buf, a)
        PROVE  TypeOK'
    <2>1. buf \in Seq(Byte) /\ a \in PkAlgs
      BY DecodeInputsTyped, KeyAssumption
    <2>2. CASE ~from_encoded_ok(r, buf, a)
      BY <1>2, <2>2, ResultsTyped DEF Decode, Return, from_encoded_ok,
                                      Codes, Causes, SizeFailure
    <2>3. CASE from_encoded_ok(r, buf, a)
      <3>1. PICK n \in AssignSteps :
               /\ keys' = [keys EXCEPT ![<<k, r>>] = Assigned(@, Decoded(r, buf, a), n)]
               /\ last' = AssignResult(n)
        BY <1>2, <2>3 DEF Decode, Return, from_encoded_ok
      <3>2. n \in {2, 3, 4}
        BY DEF AssignSteps
      <3>3. Assigned(keys[<<k, r>>], Decoded(r, buf, a), n) \in Obj
        BY <2>1, <2>3, <3>2, DecodedTyped, AssignedTyped DEF Roles
      <3>4. QED
        BY <1>2, <3>1, <3>2, <3>3, ResultsTyped DEF Decode, Roles
    <2>4. QED
      BY <2>2, <2>3
  <1>3. ASSUME NEW k \in KeySlots, NEW r \in Roles, Encode(k, r)
        PROVE  TypeOK'
    <2> DEFINE o == keys[<<k, r>>]
    <2>1. o \in Obj
      BY DEF Roles
    <2>2. [alg |-> o.alg, role |-> r, buf |-> get_encoded(o)]
            \in [alg : PkAlgs \cup {NoAlg}, role : Roles, buf : Seq(Byte)]
      BY <2>1, ConcatProperties DEF get_encoded, Obj
    <2>3. UNCHANGED <<keys, gen>>
      BY <1>3 DEF Encode
    <2>4. CASE ~is_initialized(o)
      <3>1. last' = Fail("GENERIC", "uninitialized") /\ wire' = wire
        BY <1>3, <2>4, Zenon DEF Encode, Return
      <3>2. QED
        BY <2>3, <3>1, ResultsTyped DEF Codes, Causes
    <2>5. CASE is_initialized(o)
      <3>1. /\ last' = Ok
            /\ wire' = wire \cup {[alg |-> o.alg, role |-> r, buf |-> get_encoded(o)]}
        BY <1>3, <2>5 DEF Encode, Return
      <3>2. wire' \subseteq [alg : PkAlgs \cup {NoAlg}, role : Roles, buf : Seq(Byte)]
        BY <2>2, <3>1
      <3>3. last' \in Result
        BY <3>1, ResultsTyped
      <3>4. QED
        BY <2>3, <3>2, <3>3
    <2>6. QED
      BY <2>4, <2>5
  <1>4. ASSUME NEW k \in KeySlots, SecureClear(k)
        PROVE  TypeOK'
    <2>1. Cleared(keys[<<k, "priv">>]) \in Obj
      BY DEF Cleared, Obj, Roles
    <2>2. keys' \in [KeySlots \X Roles -> Obj]
      <3>1. keys' = [keys EXCEPT ![<<k, "priv">>] = Cleared(keys[<<k, "priv">>])]
        BY <1>4 DEF SecureClear
      <3>2. <<k, "priv">> \in KeySlots \X Roles
        BY DEF Roles
      <3>3. QED
        BY <2>1, <3>1, <3>2, UpdateTyped, Zenon
    <2>3. last' = Ok /\ UNCHANGED <<gen, wire>>
      BY <1>4 DEF SecureClear, Return
    <2>4. last' \in Result
      BY <2>3, ResultsTyped
    <2>5. QED
      BY <2>2, <2>3, <2>4
  <1>5. ASSUME NEW k \in KeySlots, NEW k2 \in KeySlots, NEW r \in Roles,
               CopyAssign(k, k2, r)
        PROVE  TypeOK'
    <2>1. PICK n \in AssignSteps :
             /\ keys' = [keys EXCEPT ![<<k, r>>] = Assigned(keys[<<k, r>>], keys[<<k2, r>>], n)]
             /\ last' = AssignResult(n)
      BY <1>5, Zenon DEF CopyAssign, Return
    <2>2. n \in {2, 3, 4}
      BY DEF AssignSteps
    <2>3. Assigned(keys[<<k, r>>], keys[<<k2, r>>], n) \in Obj
      BY <2>2, AssignedTyped DEF Roles
    <2>4. keys' \in [KeySlots \X Roles -> Obj]
      BY <2>1, <2>3, UpdateTyped, Zenon
    <2>5. last' \in Result /\ UNCHANGED <<gen, wire>>
      BY <1>5, <2>1, <2>2, ResultsTyped DEF CopyAssign
    <2>6. QED
      BY <2>4, <2>5
  <1>6. ASSUME NEW k \in KeySlots, Sign(k) \/ Verify(k) \/ ValidateKey(k)
        PROVE  TypeOK'
    BY <1>6, ResultsTyped DEF Sign, Verify, ValidateKey, Return
  <1>7. CASE UNCHANGED vars
    BY <1>7 DEF vars
  <1>8. QED
    BY <1>1, <1>2, <1>3, <1>4, <1>5, <1>6, <1>7, Zenon DEF Next

(* Type correctness: in every reachable state the key objects, the         *)
(* generation counter, the encodings handed out and the last result have   *)
(* their types.                                                            *)
THEOREM TypeCorrect == Spec => []TypeOK
  BY TypeInit, TypeStep, PTL DEF Spec

---------------------------------------------------------------------------
(* The round trip.                                                         *)

(* Cutting a concatenation at the length of its first part gives back the  *)
(* two parts, when both are non-empty.                                     *)
LEMMA SplitConcat ==
  ASSUME NEW S, NEW s \in Seq(S), NEW t \in Seq(S),
         Len(s) \in Nat \ {0}, Len(t) \in Nat \ {0}
  PROVE  /\ SubSeq(s \o t, 1, Len(s)) = s
         /\ SubSeq(s \o t, Len(s) + 1, Len(s \o t)) = t
  <1>1. Len(s \o t) = Len(s) + Len(t)
    BY ConcatProperties
  <1>2. SubSeq(s \o t, 1, Len(s)) = SubSeq(s, 1, Len(s))
    BY SubSeqOfConcat1
  <1>3. SubSeq(s \o t, Len(s) + 1, Len(s) + Len(t))
          = SubSeq(t, 1, Len(t))
    BY SubSeqOfConcat2
  <1>4. SubSeq(s, 1, Len(s)) = s /\ SubSeq(t, 1, Len(t)) = t
    BY SubSeqFull
  <1>5. QED
    BY <1>1, <1>2, <1>3, <1>4

(* A well-sized initialized object is accepted by the decoding constructor *)
(* of its role when given its own encoding, and decodes to itself.        *)
LEMMA DecodeOfEncode ==
  ASSUME NEW r \in Roles, NEW o \in Obj, is_initialized(o),
         SizeDefined(o.alg),
         Len(o.exdsa) = ExdsaLen(r, o.alg),
         Len(o.dilithium) = DilithiumSize(r, pk_alg_to_dilithium_id[o.alg])
  PROVE  /\ from_encoded_ok(r, get_encoded(o), o.alg)
         /\ Decoded(r, get_encoded(o), o.alg) = o
  <1> DEFINE a == o.alg
             buf == o.exdsa \o o.dilithium
  <1>1. o.exdsa \in Seq(Byte) /\ o.dilithium \in Seq(Byte)
    BY DEF Obj
  <1>2. /\ Len(o.exdsa) \in Nat \ {0}
        /\ Len(o.dilithium) \in Nat \ {0}
        /\ encoded_size(r, a) = Len(o.exdsa) + Len(o.dilithium)
    BY SizesPositive
  <1>3. Len(buf) = encoded_size(r, a)
    <2>1. Len(buf) = Len(o.exdsa) + Len(o.dilithium)
      BY <1>1, ConcatProperties, Zenon
    <2>2. QED
      BY <1>2, <2>1
  <1>4. /\ SubSeq(buf, 1, Len(o.exdsa)) = o.exdsa
        /\ SubSeq(buf, Len(o.exdsa) + 1, Len(buf)) = o.dilithium
    BY <1>1, <1>2, SplitConcat, Zenon
  <1>5. o.exdsa_init = TRUE /\ o.dilithium_init = TRUE
    BY DEF is_initialized, Obj
  <1>6. Decoded(r, buf, a) = o
    BY <1>4, <1>5 DEF Decoded, Obj, a
  <1>7. QED
    BY <1>3, <1>6 DEF from_encoded_ok, get_encoded


(* The objects gen_keypair constructs have the table sizes.                *)
LEMMA GenObjWellSized ==
  ASSUME NEW r \in Roles, NEW g \in Nat, NEW a \in PkAlgs, SizeDefined(a)
  PROVE  WellSized(r, GenObj(r, g, a))
  <1>1. /\ ExdsaLen(r, a) \in Nat
        /\ DilithiumSize(r, pk_alg_to_dilithium_id[a]) \in Nat
    BY SizesPositive
  <1>2. ExdsaPart(r) \in Parts /\ DilithiumPart(r) \in Parts
    BY DEF ExdsaPart, DilithiumPart, Parts
  <1>3. Len(ExdsaMaterial(r, g, a)) = ExdsaLen(r, a)
    BY <1>1, <1>2, MaterialSeq, Zenon DEF ExdsaMaterial
  <1>4. Len(DilithiumMaterial(r, g, a)) = DilithiumSize(r, pk_alg_to_dilithium_id[a])
    BY <1>1, <1>2, MaterialSeq, Zenon DEF DilithiumMaterial
  <1>5. QED
    BY <1>3, <1>4 DEF WellSized, GenObj, FromParts

(* The object the decoding constructor builds has the table sizes.        *)
LEMMA DecodedWellSized ==
  ASSUME NEW r \in Roles, NEW buf \in Seq(Byte), NEW a \in PkAlgs,
         from_encoded_ok(r, buf, a)
  PROVE  WellSized(r, Decoded(r, buf, a))
  <1> DEFINE E == ExdsaLen(r, a)
             D == DilithiumSize(r, pk_alg_to_dilithium_id[a])
  <1>1. E \in Nat \ {0} /\ D \in Nat \ {0} /\ Len(buf) = E + D
    BY SizesPositive DEF from_encoded_ok
  <1>2. \A i \in 1..Len(buf) : buf[i] \in Byte
    BY ElementOfSeq
  <1>3. Len(SubSeq(buf, 1, E)) = E
    <2>1. Len(SubSeq(buf, 1, E)) = IF 1 <= E THEN E - 1 + 1 ELSE 0
      <3>1. \A i \in 1..E : buf[i] \in Byte
        BY <1>1, <1>2
      <3>2. 1 \in Int /\ E \in Int
        BY <1>1
      <3>3. QED
        BY <3>1, <3>2, SubSeqProperties
    <2>2. QED
      BY <1>1, <2>1
  <1>4. Len(SubSeq(buf, E + 1, Len(buf))) = D
    <2>1. Len(SubSeq(buf, E + 1, Len(buf)))
            = IF E + 1 <= Len(buf) THEN Len(buf) - (E + 1) + 1 ELSE 0
      <3>1. \A i \in (E + 1)..Len(buf) : buf[i] \in Byte
        BY <1>1, <1>2
      <3>2. (E + 1) \in Int /\ Len(buf) \in Int
        BY <1>1
      <3>3. QED
        BY <3>1, <3>2, SubSeqProperties, Zenon
    <2>2. QED
      BY <1>1, <2>1
  <1>5. /\ Decoded(r, buf, a).alg = a
        /\ Decoded(r, buf, a).exdsa = SubSeq(buf, 1, E)
        /\ Decoded(r, buf, a).dilithium = SubSeq(buf, E + 1, Len(buf))
    BY Zenon DEF Decoded
  <1>6. SizeDefined(a)
    BY DEF from_encoded_ok
  <1>7. QED
    BY <1>3, <1>4, <1>5, <1>6, Zenon DEF WellSized



(* Replacing one entry of keys by an object well sized for its role keeps  *)
(* every entry well sized.                                                 *)
LEMMA UpdateWellSized ==
  ASSUME NEW ks \in [KeySlots \X Roles -> Obj],
         \A kk \in KeySlots, rr \in Roles : WellSized(rr, ks[<<kk, rr>>]),
         NEW k \in KeySlots, NEW r \in Roles, NEW o, WellSized(r, o)
  PROVE  \A kk \in KeySlots, rr \in Roles :
            WellSized(rr, [ks EXCEPT ![<<k, r>>] = o][<<kk, rr>>])
  <1> SUFFICES ASSUME NEW kk \in KeySlots, NEW rr \in Roles
               PROVE  WellSized(rr, [ks EXCEPT ![<<k, r>>] = o][<<kk, rr>>])
    BY Zenon
  <1>1. CASE kk = k /\ rr = r
    <2>1. [ks EXCEPT ![<<k, r>>] = o][<<kk, rr>>] = o
      BY <1>1
    <2>2. QED
      BY <1>1, <2>1
  <1>2. CASE ~(kk = k /\ rr = r)
    <2>1. [ks EXCEPT ![<<k, r>>] = o][<<kk, rr>>] = ks[<<kk, rr>>]
      BY <1>2
    <2>2. QED
      BY <2>1
  <1>3. QED
    BY <1>1, <1>2

(* A cleared object is not initialized, so it is trivially well sized.     *)
LEMMA ClearedWellSized ==
  ASSUME NEW r \in Roles, NEW o
  PROVE  WellSized(r, Cleared(o))
  BY DEF WellSized, Cleared, is_initialized

(* Without allocation failure every operator= completes.                  *)
LEMMA AssignStepsFull ==
  ASSUME ~AllocMayFail
  PROVE  AssignSteps = {4}
  BY DEF AssignSteps

(* The inductive invariant behind the round trip: the types, every key     *)
(* object well sized, every encoding handed out decodable.                 *)
IInv == TypeOK /\ KeyWellSized /\ WireDecodable

(* The initial state satisfies the inductive invariant.                    *)
LEMMA IInvInit == Init => IInv
  <1> SUFFICES ASSUME Init PROVE IInv
    OBVIOUS
  <1>1. TypeOK
    BY TypeInit
  <1>2. KeyWellSized
    BY DEF Init, KeyWellSized, WellSized, DefaultObjTagged, is_initialized
  <1>3. WireDecodable
    BY DEF Init, WireDecodable
  <1>4. QED
    BY <1>1, <1>2, <1>3 DEF IInv



(* Without allocation failure every step keeps the inductive invariant.   *)
LEMMA IInvStep ==
  ASSUME ~AllocMayFail
  PROVE  IInv /\ [Next]_vars => IInv'
  <1> SUFFICES ASSUME IInv, [Next]_vars PROVE IInv'
    OBVIOUS
  <1> USE DEF IInv
  <1>0. /\ TypeOK'
        /\ AssignSteps = {4}
        /\ keys \in [KeySlots \X Roles -> Obj]
        /\ \A kk \in KeySlots, rr \in Roles : WellSized(rr, keys[<<kk, rr>>])
    BY TypeStep, AssignStepsFull DEF TypeOK, KeyWellSized
  <1> DEFINE KeysOk == \A kk \in KeySlots, rr \in Roles : WellSized(rr, keys'[<<kk, rr>>])
  <1>1. KeysOk => KeyWellSized'
    BY Zenon DEF KeyWellSized, KeysOk
  <1>2. ASSUME NEW k \in KeySlots, NEW a \in AlgInputs, GenKeypair(k, a)
        PROVE  IInv'
    <2>1. CASE ~GenKeypairOk(k, a)
      <3>1. UNCHANGED <<keys, wire>>
        BY <1>2, <2>1 DEF GenKeypair
      <3>2. QED
        BY <1>0, <3>1 DEF KeyWellSized, WireDecodable
    <2>2. CASE GenKeypairOk(k, a)
      <3>1. GenKeypairOk(k, a) /\ SizeDefined(a)
        BY <2>2 DEF GenKeypairOk
      <3>2. /\ keys' = GenAssigned(keys, k, gen + 1, a, 4, 4)
            /\ wire' = wire
            /\ gen + 1 \in Nat
        BY <1>0, <3>1 DEF GenKeypairOk, TypeOK
      <3>3. a \in PkAlgs
        BY KeyAssumption
      <3>4. /\ GenObj("priv", gen + 1, a) \in Obj /\ GenObj("pub", gen + 1, a) \in Obj
            /\ WellSized("priv", GenObj("priv", gen + 1, a))
            /\ WellSized("pub", GenObj("pub", gen + 1, a))
        BY <3>1, <3>2, <3>3, GenObjTyped, GenObjWellSized DEF Roles
      <3>5. GenAssigned(keys, k, gen + 1, a, 4, 4)
              = [[keys EXCEPT ![<<k, "priv">>] = GenObj("priv", gen + 1, a)]
                   EXCEPT ![<<k, "pub">>] = GenObj("pub", gen + 1, a)]
        <4>1. /\ Assigned(keys[<<k, "priv">>], GenObj("priv", gen + 1, a), 4)
                   = GenObj("priv", gen + 1, a)
              /\ Assigned(keys[<<k, "pub">>], GenObj("pub", gen + 1, a), 4)
                   = GenObj("pub", gen + 1, a)
          BY <1>0, <3>4, AssignedFull DEF Roles
        <4>2. QED
          BY <4>1, Zenon DEF GenAssigned
      <3>6. KeysOk
        <4> DEFINE o1  == GenObj("priv", gen + 1, a)
                   o2  == GenObj("pub", gen + 1, a)
                   ks1 == [keys EXCEPT ![<<k, "priv">>] = o1]
        <4>0. "priv" \in Roles /\ "pub" \in Roles
          BY DEF Roles
        <4>1. ks1 \in [KeySlots \X Roles -> Obj]
          BY <1>0, <3>4, <4>0, UpdateTyped, Zenon
        <4>2. \A kk \in KeySlots, rr \in Roles : WellSized(rr, ks1[<<kk, rr>>])
          BY <1>0, <3>4, <4>0, UpdateWellSized, Zenon
        <4>3. \A kk \in KeySlots, rr \in Roles :
                 WellSized(rr, [ks1 EXCEPT ![<<k, "pub">>] = o2][<<kk, rr>>])
          BY <3>4, <4>0, <4>1, <4>2, UpdateWellSized, Zenon
        <4>4. keys' = [ks1 EXCEPT ![<<k, "pub">>] = o2]
          BY <3>2, <3>5
        <4>5. QED
          BY <4>3, <4>4, Zenon DEF KeysOk
      <3>7. QED
        BY <1>0, <1>1, <3>2, <3>6 DEF WireDecodable
    <2>3. QED
      BY <2>1, <2>2
  <1>3. ASSUME NEW k \in KeySlots, NEW r \in Roles, NEW buf \in DecodeInputs,
               NEW a \in AlgInputs, Decode(k, r, buf, a)
        PROVE  IInv'
    <2>1. wire' = wire
      BY <1>3 DEF Decode
    <2>2. CASE ~from_encoded_ok(r, buf, a)
      <3>1. keys' = keys
        BY <1>3, <2>2 DEF Decode, from_encoded_ok
      <3>2. QED
        BY <1>0, <2>1, <3>1 DEF KeyWellSized, WireDecodable
    <2>3. CASE from_encoded_ok(r, buf, a)
      <3>1. buf \in Seq(Byte) /\ a \in PkAlgs
        BY DecodeInputsTyped, KeyAssumption
      <3>2. keys' = [keys EXCEPT ![<<k, r>>] = Assigned(keys[<<k, r>>], Decoded(r, buf, a), 4)]
        BY <1>0, <1>3, <2>3, Zenon DEF Decode, from_encoded_ok
      <3>3. Decoded(r, buf, a) \in Obj /\ WellSized(r, Decoded(r, buf, a))
        BY <2>3, <3>1, DecodedTyped, DecodedWellSized
      <3>4. Assigned(keys[<<k, r>>], Decoded(r, buf, a), 4) = Decoded(r, buf, a)
        BY <1>0, <3>3, AssignedFull
      <3>5. KeysOk
        BY <1>0, <3>2, <3>3, <3>4, UpdateWellSized, Zenon
      <3>6. QED
        BY <1>0, <1>1, <2>1, <3>5 DEF WireDecodable
    <2>4. QED
      BY <2>2, <2>3
  <1>4. ASSUME NEW k \in KeySlots, NEW r \in Roles, Encode(k, r)
        PROVE  IInv'
    <2>1. keys' = keys
      BY <1>4 DEF Encode
    <2>2. KeyWellSized'
      BY <1>0, <2>1, Zenon DEF KeyWellSized
    <2>3. CASE ~is_initialized(keys[<<k, r>>])
      <3>1. wire' = wire
        BY <1>4, <2>3, Zenon DEF Encode
      <3>2. QED
        BY <1>0, <2>2, <3>1 DEF WireDecodable
    <2>4. CASE is_initialized(keys[<<k, r>>])
      <3> DEFINE o == keys[<<k, r>>]
      <3>1. wire' = wire \cup {[alg |-> o.alg, role |-> r, buf |-> get_encoded(o)]}
        BY <1>4, <2>4, Zenon DEF Encode
      <3>2. o \in Obj /\ WellSized(r, o)
        BY <1>0
      <3>3. from_encoded_ok(r, get_encoded(o), o.alg)
        <4>1. /\ SizeDefined(o.alg)
              /\ Len(o.exdsa) = ExdsaLen(r, o.alg)
              /\ Len(o.dilithium) = DilithiumSize(r, pk_alg_to_dilithium_id[o.alg])
          BY <2>4, <3>2, Zenon DEF WellSized
        <4>2. QED
          BY <2>4, <3>2, <4>1, DecodeOfEncode
      <3>4. WireDecodable'
        BY <3>1, <3>3 DEF WireDecodable
      <3>5. QED
        BY <1>0, <2>2, <3>4
    <2>5. QED
      BY <2>3, <2>4
  <1>5. ASSUME NEW k \in KeySlots, SecureClear(k)
        PROVE  IInv'
    <2>1. keys' = [keys EXCEPT ![<<k, "priv">>] = Cleared(keys[<<k, "priv">>])]
          /\ wire' = wire
      BY <1>5 DEF SecureClear
    <2>2. WellSized("priv", Cleared(keys[<<k, "priv">>]))
      BY ClearedWellSized DEF Roles
    <2>3. \A kk \in KeySlots, rr \in Roles :
            WellSized(rr, [keys EXCEPT ![<<k, "priv">>] = Cleared(keys[<<k, "priv">>])][<<kk, rr>>])
      <3>1. "priv" \in Roles
        BY DEF Roles
      <3>2. QED
        BY <1>0, <2>2, <3>1, UpdateWellSized, Zenon
    <2>4. KeysOk
      BY <2>1, <2>3, Zenon DEF KeysOk
    <2>5. QED
      BY <1>0, <1>1, <2>1, <2>4 DEF WireDecodable
  <1>6. ASSUME NEW k \in KeySlots, NEW k2 \in KeySlots, NEW r \in Roles,
               CopyAssign(k, k2, r)
        PROVE  IInv'
    <2>1. /\ keys' = [keys EXCEPT ![<<k, r>>] = Assigned(keys[<<k, r>>], keys[<<k2, r>>], 4)]
          /\ wire' = wire
      BY <1>0, <1>6, Zenon DEF CopyAssign
    <2>2. Assigned(keys[<<k, r>>], keys[<<k2, r>>], 4) = keys[<<k2, r>>]
      BY <1>0, AssignedFull
    <2>3. WellSized(r, keys[<<k2, r>>])
      BY <1>0
    <2>4. KeysOk
      BY <1>0, <2>1, <2>2, <2>3, UpdateWellSized, Zenon
    <2>5. QED
      BY <1>0, <1>1, <2>1, <2>4 DEF WireDecodable
  <1>7. ASSUME NEW k \in KeySlots, Sign(k) \/ Verify(k) \/ ValidateKey(k)
        PROVE  IInv'
    <2>1. keys' = keys /\ wire' = wire
      BY <1>7 DEF Sign, Verify, ValidateKey
    <2>2. QED
      BY <1>0, <2>1 DEF KeyWellSized, WireDecodable
  <1>8. CASE UNCHANGED vars
    BY <1>0, <1>8 DEF vars, KeyWellSized, WireDecodable
  <1>9. QED
    BY <1>2, <1>3, <1>4, <1>5, <1>6, <1>7, <1>8, Zenon DEF Next



(* The inductive invariant implies the round trip: an initialized object   *)
(* is well sized, and DecodeOfEncode does the rest.                        *)
LEMMA IInvRoundTrip == IInv => RoundTrip
  <1> SUFFICES ASSUME IInv, NEW k \in KeySlots, NEW r \in Roles,
                      is_initialized(keys[<<k, r>>])
               PROVE  /\ from_encoded_ok(r, get_encoded(keys[<<k, r>>]), keys[<<k, r>>].alg)
                      /\ Decoded(r, get_encoded(keys[<<k, r>>]), keys[<<k, r>>].alg)
                           = keys[<<k, r>>]
    BY Zenon DEF RoundTrip
  <1> DEFINE o == keys[<<k, r>>]
  <1>1. o \in Obj /\ WellSized(r, o)
    BY DEF IInv, TypeOK, KeyWellSized
  <1>2. /\ SizeDefined(o.alg)
        /\ Len(o.exdsa) = ExdsaLen(r, o.alg)
        /\ Len(o.dilithium) = DilithiumSize(r, pk_alg_to_dilithium_id[o.alg])
    BY <1>1, Zenon DEF WellSized
  <1>3. QED
    BY <1>1, <1>2, DecodeOfEncode

(* Round trip (spec section 8), for every value of the constants: when     *)
(* copying a byte vector cannot fail, every initialized key object decodes *)
(* from its own get_encoded output, with the decoding constructor of its   *)
(* role and algorithm, to itself.                                          *)
THEOREM RoundTripHolds ==
  ASSUME ~AllocMayFail
  PROVE  Spec => []RoundTrip
  <1>1. Init => IInv
    BY IInvInit
  <1>2. IInv /\ [Next]_vars => IInv'
    BY IInvStep
  <1>3. IInv => RoundTrip
    BY IInvRoundTrip
  <1>4. QED
    BY <1>1, <1>2, <1>3, PTL DEF Spec

(* Every byte string get_encoded hands to the packet layer is accepted by  *)
(* the decoding constructor of its role and algorithm, for every value of  *)
(* the constants, when copying a byte vector cannot fail.                  *)
THEOREM WireDecodableHolds ==
  ASSUME ~AllocMayFail
  PROVE  Spec => []WireDecodable
  <1>1. Init => IInv
    BY IInvInit
  <1>2. IInv /\ [Next]_vars => IInv'
    BY IInvStep
  <1>3. IInv => WireDecodable
    BY DEF IInv
  <1>4. QED
    BY <1>1, <1>2, <1>3, PTL DEF Spec


=============================================================================
