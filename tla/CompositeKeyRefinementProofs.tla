--------------------- MODULE CompositeKeyRefinementProofs ---------------------
(***************************************************************************)
(* The proof that CompositeKey implements KeyStore under the refinement    *)
(* mapping of CompositeKeyRefinement, for every value of the constants,   *)
(* when copying a byte vector cannot fail and the encoded sizes of the     *)
(* algorithms in use are apart (SizesSeparated).                           *)
(*                                                                         *)
(* The argument: every initialized key object and every encoding handed    *)
(* out is the material of a generated pair (RInv), so the mapping never    *)
(* yields Torn; a pair's identity is the generation number in its first   *)
(* byte, so the mapping does not move when gen grows; and a decoded        *)
(* buffer that passes the length check is, by SizesSeparated, an encoding  *)
(* handed out, of the same role and split, and decodes to that pair.       *)
(***************************************************************************)
EXTENDS CompositeKeyRefinement, CompositeKeyProofs

---------------------------------------------------------------------------
(* Facts about the objects gen_keypair constructs.                         *)

(* The first byte of a provider encoding names its generation.            *)
LEMMA MaterialFirst ==
  ASSUME NEW g \in Nat, NEW p \in Parts, NEW n \in Nat \ {0}
  PROVE  /\ Material(g, p, n) # << >>
         /\ Material(g, p, n)[1][1] = g
  <1>1. Len(Material(g, p, n)) = n /\ Material(g, p, n) \in Seq(Byte)
    BY MaterialSeq
  <1>2. Material(g, p, n) # << >>
    BY <1>1, EmptySeq
  <1>3. Material(g, p, n)[1] = <<g, p, 1>>
    BY DEF Material
  <1>4. QED
    BY <1>2, <1>3

(* A generated object is initialized, carries its tag and is well typed,  *)
(* and both its classical part and its encoding start with a byte of its   *)
(* generation.                                                             *)
LEMMA GenObjFacts ==
  ASSUME NEW r \in Roles, NEW g \in Nat, NEW a, SizeDefined(a)
  PROVE  /\ GenObj(r, g, a) \in Obj
         /\ is_initialized(GenObj(r, g, a))
         /\ GenObj(r, g, a).alg = a
         /\ FirstGen(GenObj(r, g, a).exdsa) = g
         /\ FirstGen(get_encoded(GenObj(r, g, a))) = g
  <1> DEFINE E == ExdsaMaterial(r, g, a)
             D == DilithiumMaterial(r, g, a)
  <1>1. a \in PkAlgs
    BY DEF SizeDefined, PkAlgs
  <1>2. GenObj(r, g, a) \in Obj
    BY <1>1, GenObjTyped
  <1>3. /\ GenObj(r, g, a).exdsa = E
        /\ GenObj(r, g, a).dilithium = D
        /\ GenObj(r, g, a).alg = a
        /\ is_initialized(GenObj(r, g, a))
    BY DEF GenObj, FromParts, is_initialized
  <1>4. /\ ExdsaLen(r, a) \in Nat \ {0}
        /\ DilithiumSize(r, pk_alg_to_dilithium_id[a]) \in Nat
        /\ ExdsaPart(r) \in Parts /\ DilithiumPart(r) \in Parts
    BY SizesPositive DEF ExdsaPart, DilithiumPart, Parts
  <1>5. E # << >> /\ E[1][1] = g /\ E \in Seq(Byte) /\ Len(E) \in Nat \ {0}
    BY <1>4, MaterialFirst, MaterialSeq, Zenon DEF ExdsaMaterial
  <1>6. D \in Seq(Byte)
    BY <1>4, MaterialSeq, Zenon DEF DilithiumMaterial
  <1>7. FirstGen(E) = g
    BY <1>5 DEF FirstGen
  <1>8. (E \o D)[1] = E[1] /\ E \o D # << >>
    BY <1>5, <1>6, ConcatProperties, EmptySeq
  <1>9. FirstGen(E \o D) = g
    BY <1>5, <1>8 DEF FirstGen
  <1>10. QED
    BY <1>2, <1>3, <1>7, <1>9 DEF get_encoded

---------------------------------------------------------------------------
(* Facts about the refinement mapping.                                     *)

(* The abstract key of a generated object is its tag and its generation,   *)
(* once that generation has happened.                                      *)
LEMMA AbsKeyGen ==
  ASSUME NEW r \in Roles, NEW n \in Nat, NEW g \in 1..n, NEW a, SizeDefined(a)
  PROVE  AbsKey(r, GenObj(r, g, a), n) = [alg |-> a, id |-> g]
  <1>1. /\ is_initialized(GenObj(r, g, a))
        /\ GenObj(r, g, a).alg = a
        /\ FirstGen(GenObj(r, g, a).exdsa) = g
    BY GenObjFacts
  <1>2. QED
    BY <1>1 DEF AbsKey

(* The pair a buffer handed out is named by is its generation.            *)
LEMMA WireIdGen ==
  ASSUME NEW w, w.role \in Roles, SizeDefined(w.alg), NEW n \in Nat,
         NEW g \in 1..n, w.buf = get_encoded(GenObj(w.role, g, w.alg))
  PROVE  WireId(w, n) = g
  <1>1. FirstGen(w.buf) = g
    BY GenObjFacts
  <1>2. QED
    BY <1>1 DEF WireId

(* The abstract key of an object that is uninitialized or the material of *)
(* a generated pair: Absent, or a key other than Absent, and it does not   *)
(* change when one more pair is generated.                                 *)
LEMMA AbsKeyStable ==
  ASSUME NEW r \in Roles, NEW o, NEW n \in Nat, Generated(r, o, n)
  PROVE  /\ AbsKey(r, o, n + 1) = AbsKey(r, o, n)
         /\ is_initialized(o) => AbsKey(r, o, n) # NoKey
         /\ ~is_initialized(o) => AbsKey(r, o, n) = NoKey
  <1>1. CASE ~is_initialized(o)
    BY <1>1 DEF AbsKey
  <1>2. CASE is_initialized(o)
    <2>1. PICK g \in 1..n : o.alg \in SizedAlgs /\ o = GenObj(r, g, o.alg)
      BY <1>2 DEF Generated
    <2>2. SizeDefined(o.alg)
      BY <2>1 DEF SizedAlgs
    <2>3. /\ AbsKey(r, GenObj(r, g, o.alg), n) = [alg |-> o.alg, id |-> g]
          /\ AbsKey(r, GenObj(r, g, o.alg), n + 1) = [alg |-> o.alg, id |-> g]
      BY <2>1, <2>2, AbsKeyGen
    <2>4. [alg |-> o.alg, id |-> g] # NoKey
      BY <2>1 DEF NoKey
    <2>5. QED
      BY <1>2, <2>1, <2>3, <2>4
  <1>3. QED
    BY <1>1, <1>2

(* The same for the pair a generated encoding is named by.                 *)
LEMMA WireIdStable ==
  ASSUME NEW w, w.role \in Roles, NEW n \in Nat, EncodingGenerated(w, n)
  PROVE  WireId(w, n + 1) = WireId(w, n)
  <1>1. PICK g \in 1..n :
           w.alg \in SizedAlgs /\ w.buf = get_encoded(GenObj(w.role, g, w.alg))
    BY DEF EncodingGenerated
  <1>2. SizeDefined(w.alg)
    BY <1>1 DEF SizedAlgs
  <1>3. WireId(w, n) = g /\ WireId(w, n + 1) = g
    BY <1>1, <1>2, WireIdGen
  <1>4. QED
    BY <1>3

(* The abstract table after one object of the table ks is replaced by o:  *)
(* the abstraction of o at <<k, r>>, and of the old object elsewhere.      *)
(* Both the abstraction of the updated table and the abstract table       *)
(* updated at <<k, r>> equal it; the steps below show each from the        *)
(* definitions where a key object is replaced.                             *)
UpdAbs(ks, k, r, o, n) ==
  [kr \in KeySlots \X Roles |->
     IF kr = <<k, r>> THEN AbsKey(r, o, n) ELSE AbsKey(kr[2], ks[kr], n)]

---------------------------------------------------------------------------
(* Decoding.                                                               *)

(* A buffer the packet layer hands back (an encoding of pair g, or that    *)
(* encoding cut short or extended by a byte) that passes the decoding      *)
(* constructor's length check is, when the sizes are apart, the encoding   *)
(* itself, decoded under its own role and a split of the same sizes: the   *)
(* object built is pair g's material under the tag it was decoded with.    *)
LEMMA DecodeOfWire ==
  ASSUME SizesSeparated,
         NEW w, w.role \in Roles, w.alg \in SizedAlgs, NEW g \in Nat,
         w.buf = get_encoded(GenObj(w.role, g, w.alg)),
         NEW r \in Roles, NEW a \in AlgInputs,
         NEW buf \in {w.buf, SubSeq(w.buf, 1, Len(w.buf) - 1),
                      Append(w.buf, JunkByte)},
         from_encoded_ok(r, buf, a)
  PROVE  /\ r = w.role
         /\ encoded_size(r, a) = encoded_size(r, w.alg)
         /\ Decoded(r, buf, a) = GenObj(r, g, a)
  <1> DEFINE b == w.alg
             q == w.role
             E == ExdsaMaterial(q, g, b)
             D == DilithiumMaterial(q, g, b)
  <1>1. a \in SizedAlgs /\ SizeDefined(a) /\ SizeDefined(b)
    BY DEF from_encoded_ok, SizedAlgs
  <1>2. /\ ExdsaLen(q, b) \in Nat \ {0}
        /\ DilithiumSize(q, pk_alg_to_dilithium_id[b]) \in Nat \ {0}
        /\ encoded_size(q, b) = ExdsaLen(q, b) + DilithiumSize(q, pk_alg_to_dilithium_id[b])
        /\ ExdsaLen(r, a) \in Nat \ {0}
        /\ DilithiumSize(r, pk_alg_to_dilithium_id[a]) \in Nat \ {0}
        /\ encoded_size(r, a) = ExdsaLen(r, a) + DilithiumSize(r, pk_alg_to_dilithium_id[a])
    BY <1>1, SizesPositive
  <1>3. ExdsaPart(q) \in Parts /\ DilithiumPart(q) \in Parts
    BY DEF ExdsaPart, DilithiumPart, Parts
  <1>4. /\ E \in Seq(Byte) /\ Len(E) = ExdsaLen(q, b)
        /\ D \in Seq(Byte) /\ Len(D) = DilithiumSize(q, pk_alg_to_dilithium_id[b])
    BY <1>2, <1>3, MaterialSeq, Zenon DEF ExdsaMaterial, DilithiumMaterial
  <1>5. w.buf = E \o D
    BY DEF get_encoded, GenObj, FromParts
  <1>6. Len(w.buf) = encoded_size(q, b) /\ w.buf \in Seq(Byte)
    <2>1. E \o D \in Seq(Byte) /\ Len(E \o D) = Len(E) + Len(D)
      BY <1>4, ConcatProperties, Zenon
    <2>2. QED
      BY <1>2, <1>4, <1>5, <2>1
  <1>7. /\ encoded_size(r, a) + 1 # encoded_size(q, b)
        /\ encoded_size(q, b) + 1 # encoded_size(r, a)
        /\ encoded_size(r, a) = encoded_size(q, b) =>
              r = q /\ ExdsaLen(r, a) = ExdsaLen(q, b)
    <2>1. \A r1, r2 \in Roles, a1, a2 \in SizedAlgs :
             /\ encoded_size(r1, a1) + 1 # encoded_size(r2, a2)
             /\ encoded_size(r1, a1) = encoded_size(r2, a2) =>
                   r1 = r2 /\ ExdsaLen(r1, a1) = ExdsaLen(r2, a2)
      BY DEF SizesSeparated
    <2>2. q \in Roles /\ b \in SizedAlgs
      OBVIOUS
    <2>3. /\ encoded_size(r, a) + 1 # encoded_size(q, b)
          /\ encoded_size(r, a) = encoded_size(q, b) =>
                r = q /\ ExdsaLen(r, a) = ExdsaLen(q, b)
      BY <1>1, <2>1, <2>2
    <2>4. encoded_size(q, b) + 1 # encoded_size(r, a)
      BY <1>1, <2>1, <2>2
    <2>5. QED
      BY <2>3, <2>4
  <1>8. Len(buf) = encoded_size(r, a)
    BY DEF from_encoded_ok
  <1>9. buf = w.buf
    <2>1. Len(SubSeq(w.buf, 1, Len(w.buf) - 1)) = Len(w.buf) - 1
      BY <1>2, <1>6, SubSeqProperties
    <2>2. JunkByte \in Byte
      BY DEF JunkByte, Byte
    <2>3. Len(Append(w.buf, JunkByte)) = Len(w.buf) + 1
      BY <1>6, <2>2, AppendProperties
    <2>4. QED
      BY <1>2, <1>6, <1>7, <1>8, <2>1, <2>3
  <1>10. r = q /\ ExdsaLen(r, a) = ExdsaLen(q, b)
    BY <1>6, <1>7, <1>8, <1>9
  <1>11. DilithiumSize(r, pk_alg_to_dilithium_id[a])
           = DilithiumSize(q, pk_alg_to_dilithium_id[b])
    BY <1>2, <1>6, <1>8, <1>9, <1>10
  <1>12. /\ SubSeq(buf, 1, ExdsaLen(r, a)) = E
         /\ SubSeq(buf, ExdsaLen(r, a) + 1, Len(buf)) = D
    <2>1. /\ SubSeq(E \o D, 1, Len(E)) = E
          /\ SubSeq(E \o D, Len(E) + 1, Len(E \o D)) = D
      <3>1. Len(E) \in Nat \ {0} /\ Len(D) \in Nat \ {0}
        BY <1>2, <1>4
      <3>2. QED
        BY <1>4, <3>1, SplitConcat
    <2>2. Len(E) = ExdsaLen(r, a) /\ buf = E \o D
      BY <1>4, <1>5, <1>9, <1>10
    <2>3. QED
      BY <2>1, <2>2
  <1>13. E = ExdsaMaterial(r, g, a) /\ D = DilithiumMaterial(r, g, a)
    BY <1>10, <1>11 DEF ExdsaMaterial, DilithiumMaterial
  <1>14. Decoded(r, buf, a) = GenObj(r, g, a)
    BY <1>12, <1>13, Zenon DEF Decoded, GenObj, FromParts
  <1>15. QED
    BY <1>8, <1>9, <1>6, <1>10, <1>14

---------------------------------------------------------------------------
(* The invariant: every usable key and every encoding handed out is a      *)
(* generated pair's material.                                              *)

(* What holds for n generations holds for more.                            *)
LEMMA GeneratedMono ==
  ASSUME NEW n \in Nat, NEW m \in Nat, n <= m
  PROVE  /\ \A r \in Roles : \A o : Generated(r, o, n) => Generated(r, o, m)
         /\ \A w : EncodingGenerated(w, n) => EncodingGenerated(w, m)
  <1>1. 1..n \subseteq 1..m
    OBVIOUS
  <1>2. QED
    BY <1>1 DEF Generated, EncodingGenerated

(* An object gen_keypair made from an algorithm the caller uses.           *)
LEMMA GenObjGenerated ==
  ASSUME NEW r \in Roles, NEW n \in Nat, NEW g \in 1..n, NEW a \in SizedAlgs
  PROVE  Generated(r, GenObj(r, g, a), n)
  <1>1. SizeDefined(a)
    BY DEF SizedAlgs
  <1>2. GenObj(r, g, a).alg = a
    BY <1>1, GenObjFacts
  <1>3. QED
    BY <1>2 DEF Generated

(* Replacing one key object by a generated one keeps every entry           *)
(* generated.                                                              *)
LEMMA UpdateGenerated ==
  ASSUME NEW ks \in [KeySlots \X Roles -> Obj], NEW n,
         \A kk \in KeySlots, rr \in Roles : Generated(rr, ks[<<kk, rr>>], n),
         NEW k \in KeySlots, NEW r \in Roles, NEW o, Generated(r, o, n)
  PROVE  \A kk \in KeySlots, rr \in Roles :
            Generated(rr, [ks EXCEPT ![<<k, r>>] = o][<<kk, rr>>], n)
  <1> SUFFICES ASSUME NEW kk \in KeySlots, NEW rr \in Roles
               PROVE  Generated(rr, [ks EXCEPT ![<<k, r>>] = o][<<kk, rr>>], n)
    BY Zenon
  <1>1. CASE kk = k /\ rr = r
    <2>1. [ks EXCEPT ![<<k, r>>] = o][<<kk, rr>>] = o
      BY <1>1
    <2>2. QED
      BY <1>1, <2>1
  <1>2. CASE ~(kk = k /\ rr = r)
    <2>1. [ks EXCEPT ![<<k, r>>] = o][<<kk, rr>>] = ks[<<kk, rr>>]
      BY <1>2
    <2>2. QED
      BY <2>1
  <1>3. QED
    BY <1>1, <1>2

(* The initial state satisfies the invariant: every object is a default   *)
(* object, which is not initialized, and nothing was handed out.          *)
LEMMA RInvInit == Init => RInv
  <1> SUFFICES ASSUME Init PROVE RInv
    OBVIOUS
  <1>1. TypeOK
    BY TypeInit
  <1>2. KeysGenerated
    BY DEF Init, KeysGenerated, Generated, DefaultObjTagged, is_initialized
  <1>3. WireGenerated
    BY DEF Init, WireGenerated
  <1>4. QED
    BY <1>1, <1>2, <1>3 DEF RInv

(* Every step keeps the invariant, when copies cannot fail and the sizes   *)
(* are apart.                                                              *)
LEMMA RInvStep ==
  ASSUME ~AllocMayFail, SizesSeparated
  PROVE  RInv /\ [Next]_vars => RInv'
  <1> SUFFICES ASSUME RInv, [Next]_vars PROVE RInv'
    OBVIOUS
  <1>0. /\ TypeOK /\ TypeOK'
        /\ AssignSteps = {4}
        /\ keys \in [KeySlots \X Roles -> Obj]
        /\ gen \in Nat
        /\ \A w \in wire : w.role \in Roles
        /\ \A kk \in KeySlots, rr \in Roles : Generated(rr, keys[<<kk, rr>>], gen)
        /\ \A w \in wire : EncodingGenerated(w, gen)
    BY TypeStep, AssignStepsFull DEF RInv, TypeOK, KeysGenerated, WireGenerated
  <1> DEFINE KeysOk == \A kk \in KeySlots, rr \in Roles :
                          Generated(rr, keys'[<<kk, rr>>], gen')
             WireOk == \A w \in wire' : EncodingGenerated(w, gen')
  <1>1. KeysOk /\ WireOk => RInv'
    BY <1>0, Zenon DEF RInv, KeysGenerated, WireGenerated, KeysOk, WireOk
  <1>2. ASSUME UNCHANGED <<keys, gen, wire>> PROVE RInv'
    BY <1>0, <1>1, <1>2
  <1>3. ASSUME NEW k \in KeySlots, NEW a \in AlgInputs, GenKeypair(k, a)
        PROVE  RInv'
    <2>1. CASE ~GenKeypairOk(k, a)
      BY <1>2, <1>3, <2>1 DEF GenKeypair
    <2>2. CASE GenKeypairOk(k, a) /\ SizeDefined(a)
      <3>1. GenKeypairOk(k, a)
        BY <2>2
      <3>2. /\ keys' = GenAssigned(keys, k, gen + 1, a, 4, 4)
            /\ wire' = wire
            /\ gen' = gen + 1
        BY <1>0, <3>1 DEF GenKeypairOk
      <3>3. a \in SizedAlgs /\ a \in PkAlgs /\ gen + 1 \in Nat /\ gen + 1 \in 1..gen + 1
        BY <1>0, <2>2, KeyAssumption DEF SizedAlgs
      <3> DEFINE o1  == GenObj("priv", gen + 1, a)
                 o2  == GenObj("pub", gen + 1, a)
                 ks1 == [keys EXCEPT ![<<k, "priv">>] = o1]
      <3>4. "priv" \in Roles /\ "pub" \in Roles
        BY DEF Roles
      <3>5. o1 \in Obj /\ o2 \in Obj
        BY <2>2, <3>3, <3>4, GenObjTyped
      <3>6. keys' = [ks1 EXCEPT ![<<k, "pub">>] = o2]
        <4>1. Assigned(keys[<<k, "priv">>], o1, 4) = o1
              /\ Assigned(keys[<<k, "pub">>], o2, 4) = o2
          BY <1>0, <3>4, <3>5, AssignedFull
        <4>2. QED
          BY <3>2, <4>1, Zenon DEF GenAssigned
      <3>7. \A kk \in KeySlots, rr \in Roles : Generated(rr, keys[<<kk, rr>>], gen + 1)
        <4>1. \A rr \in Roles : \A o : Generated(rr, o, gen) => Generated(rr, o, gen + 1)
          BY <1>0, GeneratedMono
        <4>2. QED
          BY <1>0, <4>1, Zenon
      <3>8. Generated("priv", o1, gen + 1) /\ Generated("pub", o2, gen + 1)
        BY <3>3, <3>4, GenObjGenerated
      <3>9. ks1 \in [KeySlots \X Roles -> Obj]
        BY <1>0, <3>4, <3>5, UpdateTyped, Zenon
      <3>10. \A kk \in KeySlots, rr \in Roles : Generated(rr, ks1[<<kk, rr>>], gen + 1)
        BY <1>0, <3>4, <3>7, <3>8, UpdateGenerated, Zenon
      <3>11. KeysOk
        BY <3>2, <3>4, <3>6, <3>8, <3>9, <3>10, UpdateGenerated, Zenon
      <3>12. WireOk
        <4>1. \A w : EncodingGenerated(w, gen) => EncodingGenerated(w, gen + 1)
          BY <1>0, GeneratedMono
        <4>2. QED
          BY <1>0, <3>2, <4>1, Zenon
      <3>13. QED
        BY <1>1, <3>11, <3>12
    <2>3. QED
      BY <2>1, <2>2 DEF GenKeypairOk
  <1>4. ASSUME NEW k \in KeySlots, NEW r \in Roles, NEW buf \in DecodeInputs,
               NEW a \in AlgInputs, Decode(k, r, buf, a)
        PROVE  RInv'
    <2>1. CASE ~from_encoded_ok(r, buf, a)
      BY <1>2, <1>4, <2>1 DEF Decode, from_encoded_ok
    <2>2. CASE from_encoded_ok(r, buf, a)
      <3>1. /\ keys' = [keys EXCEPT ![<<k, r>>] = Assigned(keys[<<k, r>>], Decoded(r, buf, a), 4)]
            /\ UNCHANGED <<gen, wire>>
        BY <1>0, <1>4, <2>2, Zenon DEF Decode, from_encoded_ok
      <3>2. PICK w \in wire : buf \in {w.buf, SubSeq(w.buf, 1, Len(w.buf) - 1),
                                      Append(w.buf, JunkByte)}
        BY DEF DecodeInputs
      <3>3. PICK g \in 1..gen :
               w.alg \in SizedAlgs /\ w.buf = get_encoded(GenObj(w.role, g, w.alg))
        BY <1>0 DEF EncodingGenerated
      <3>4. Decoded(r, buf, a) = GenObj(r, g, a) /\ a \in SizedAlgs
        <4>1. w.role \in Roles /\ g \in Nat
          BY <1>0
        <4>2. a \in SizedAlgs
          BY <2>2 DEF from_encoded_ok, SizedAlgs
        <4>3. Decoded(r, buf, a) = GenObj(r, g, a)
          BY <2>2, <3>2, <3>3, <4>1, DecodeOfWire, Zenon
        <4>4. QED
          BY <4>2, <4>3
      <3>5. GenObj(r, g, a) \in Obj /\ Generated(r, GenObj(r, g, a), gen)
        BY <1>0, <3>4, GenObjGenerated, GenObjTyped, KeyAssumption DEF SizedAlgs
      <3>6. Assigned(keys[<<k, r>>], Decoded(r, buf, a), 4) = GenObj(r, g, a)
        BY <1>0, <3>4, <3>5, AssignedFull
      <3>7. KeysOk
        BY <1>0, <3>1, <3>5, <3>6, UpdateGenerated, Zenon
      <3>8. QED
        BY <1>0, <1>1, <3>1, <3>7
    <2>3. QED
      BY <2>1, <2>2
  <1>5. ASSUME NEW k \in KeySlots, NEW r \in Roles, Encode(k, r)
        PROVE  RInv'
    <2> DEFINE o == keys[<<k, r>>]
    <2>1. CASE ~is_initialized(o)
      BY <1>2, <1>5, <2>1, Zenon DEF Encode
    <2>2. CASE is_initialized(o)
      <3>1. /\ wire' = wire \cup {[alg |-> o.alg, role |-> r, buf |-> get_encoded(o)]}
            /\ UNCHANGED <<keys, gen>>
        BY <1>5, <2>2, Zenon DEF Encode
      <3>2. PICK g \in 1..gen : o.alg \in SizedAlgs /\ o = GenObj(r, g, o.alg)
        BY <1>0, <2>2 DEF Generated
      <3>3. EncodingGenerated([alg |-> o.alg, role |-> r, buf |-> get_encoded(o)], gen)
        BY <3>2 DEF EncodingGenerated
      <3>4. QED
        BY <1>0, <1>1, <3>1, <3>3
    <2>3. QED
      BY <2>1, <2>2
  <1>6. ASSUME NEW k \in KeySlots, SecureClear(k)
        PROVE  RInv'
    <2>1. /\ keys' = [keys EXCEPT ![<<k, "priv">>] = Cleared(keys[<<k, "priv">>])]
          /\ UNCHANGED <<gen, wire>>
      BY <1>6 DEF SecureClear
    <2>2. Generated("priv", Cleared(keys[<<k, "priv">>]), gen) /\ "priv" \in Roles
      BY DEF Generated, Cleared, is_initialized, Roles
    <2>3. KeysOk
      BY <1>0, <2>1, <2>2, UpdateGenerated, Zenon
    <2>4. QED
      BY <1>0, <1>1, <2>1, <2>3
  <1>7. ASSUME NEW k \in KeySlots, NEW k2 \in KeySlots, NEW r \in Roles,
               CopyAssign(k, k2, r)
        PROVE  RInv'
    <2>1. /\ keys' = [keys EXCEPT ![<<k, r>>] = Assigned(keys[<<k, r>>], keys[<<k2, r>>], 4)]
          /\ UNCHANGED <<gen, wire>>
      BY <1>0, <1>7, Zenon DEF CopyAssign
    <2>2. Assigned(keys[<<k, r>>], keys[<<k2, r>>], 4) = keys[<<k2, r>>]
      BY <1>0, AssignedFull
    <2>3. Generated(r, keys[<<k2, r>>], gen)
      BY <1>0
    <2>4. KeysOk
      BY <1>0, <2>1, <2>2, <2>3, UpdateGenerated, Zenon
    <2>5. QED
      BY <1>0, <1>1, <2>1, <2>4
  <1>8. ASSUME NEW k \in KeySlots, Sign(k) \/ Verify(k) \/ ValidateKey(k)
        PROVE  RInv'
    BY <1>2, <1>8 DEF Sign, Verify, ValidateKey
  <1>9. CASE UNCHANGED vars
    BY <1>2, <1>9 DEF vars
  <1>10. QED
    BY <1>3, <1>4, <1>5, <1>6, <1>7, <1>8, <1>9, Zenon DEF Next

(* The invariant's three facts, stated for every reachable state.         *)
LEMMA RInvHolds ==
  ASSUME ~AllocMayFail, SizesSeparated
  PROVE  Spec => []RInv
  BY RInvInit, RInvStep, PTL DEF Spec

---------------------------------------------------------------------------
(* The refinement.                                                         *)

(* While every object is generated, one more generation moves no mapped   *)
(* key and no mapped encoding.                                             *)
LEMMA AbsKeysStable ==
  ASSUME NEW ks \in [KeySlots \X Roles -> Obj], NEW n \in Nat,
         \A kk \in KeySlots, rr \in Roles : Generated(rr, ks[<<kk, rr>>], n)
  PROVE  AbsKeys(ks, n + 1) = AbsKeys(ks, n)
  <1>1. \A kr \in KeySlots \X Roles : AbsKey(kr[2], ks[kr], n + 1) = AbsKey(kr[2], ks[kr], n)
    BY AbsKeyStable
  <1>2. QED
    BY <1>1 DEF AbsKeys

LEMMA AbsExportedStable ==
  ASSUME NEW ws, NEW n \in Nat,
         \A w \in ws : w.role \in Roles /\ EncodingGenerated(w, n)
  PROVE  AbsExported(ws, n + 1) = AbsExported(ws, n)
  <1>1. \A w \in ws : WireId(w, n + 1) = WireId(w, n)
    BY WireIdStable
  <1>2. QED
    BY <1>1 DEF AbsExported

(* The initial states map to the initial state of KeyStore: every default *)
(* object is Absent, no pair was generated, nothing was handed out.       *)
LEMMA InitRefines == Init => KS!AInit
  <1> SUFFICES ASSUME Init PROVE KS!AInit
    OBVIOUS
  <1>1. \A kr \in KeySlots \X Roles : ~is_initialized(keys[kr])
    BY DEF Init, DefaultObjTagged, is_initialized
  <1>2. AbsKeys(keys, gen) = [kr \in KeySlots \X Roles |-> KS!Absent]
    BY <1>1 DEF AbsKeys, AbsKey, NoKey, KS!Absent
  <1>3. gen = 0 /\ AbsExported(wire, gen) = {}
    BY DEF Init, AbsExported
  <1>4. QED
    BY <1>2, <1>3 DEF KS!AInit, KS!Roles, Roles

(* KeyStore is instantiated with the parameter tables of CompositeParams: *)
(* its roles, algorithms and sizes are this module's.                      *)
LEMMA SameTables ==
  /\ KS!Roles = Roles
  /\ KS!CompositeAlgs = CompositeAlgs
  /\ \A a : KS!SizeDefined(a) <=> SizeDefined(a)
  /\ \A r, a : KS!encoded_size(r, a) = encoded_size(r, a)
  /\ KS!Absent = NoKey
  BY DEF KS!Roles, KS!CompositeAlgs, KS!SizeDefined, KS!encoded_size,
         KS!ExdsaLen, KS!ExdsaSize, KS!DilithiumSize, KS!pk_alg_to_curve_id,
         KS!pk_alg_to_dilithium_id, KS!SupportedCurves,
         KS!exdsa_curve_privkey_size, KS!exdsa_curve_pubkey_size,
         KS!DilithiumLevels, KS!Absent, NoKey,
         Roles, CompositeAlgs, SizeDefined, encoded_size, ExdsaLen, ExdsaSize,
         DilithiumSize, pk_alg_to_curve_id, pk_alg_to_dilithium_id,
         SupportedCurves, exdsa_curve_privkey_size, exdsa_curve_pubkey_size,
         DilithiumLevels

(* Every step of CompositeKey maps to a step of KeyStore or to a stutter, *)
(* from a state of the invariant.                                          *)
LEMMA StepRefines ==
  ASSUME ~AllocMayFail, SizesSeparated
  PROVE  RInv /\ [Next]_vars => [KS!ANext]_KS!avars
  <1> SUFFICES ASSUME RInv, [Next]_vars PROVE [KS!ANext]_KS!avars
    OBVIOUS
  <1>0. /\ AssignSteps = {4}
        /\ keys \in [KeySlots \X Roles -> Obj]
        /\ gen \in Nat
        /\ \A w \in wire : w.role \in Roles
        /\ \A kk \in KeySlots, rr \in Roles : Generated(rr, keys[<<kk, rr>>], gen)
        /\ \A w \in wire : EncodingGenerated(w, gen)
    BY AssignStepsFull DEF RInv, TypeOK, KeysGenerated, WireGenerated
  <1>k. keys \in [KeySlots \X Roles -> Obj]
    BY <1>0
  <1>1. ASSUME UNCHANGED <<keys, gen, wire>> PROVE [KS!ANext]_KS!avars
    BY <1>1 DEF KS!avars
  <1>2. ASSUME NEW k \in KeySlots, NEW a \in AlgInputs, GenKeypair(k, a)
        PROVE  [KS!ANext]_KS!avars
    <2>1. CASE ~GenKeypairOk(k, a)
      BY <1>1, <1>2, <2>1 DEF GenKeypair
    <2>2. CASE GenKeypairOk(k, a) /\ SizeDefined(a)
      <3>1. GenKeypairOk(k, a)
        BY <2>2
      <3>2. /\ keys' = GenAssigned(keys, k, gen + 1, a, 4, 4)
            /\ wire' = wire
            /\ gen' = gen + 1
            /\ gen < MaxGen
        BY <1>0, <3>1 DEF GenKeypairOk
      <3>3. a \in CompositeAlgs /\ a \in PkAlgs /\ gen + 1 \in Nat /\ gen + 1 \in 1..gen + 1
        BY <1>0, <2>2 DEF SizeDefined, PkAlgs
      <3> DEFINE o1  == GenObj("priv", gen + 1, a)
                 o2  == GenObj("pub", gen + 1, a)
                 ks1 == [keys EXCEPT ![<<k, "priv">>] = o1]
                 A   == AbsKeys(keys, gen)
      <3>4. "priv" \in Roles /\ "pub" \in Roles
        BY DEF Roles
      <3>5. o1 \in Obj /\ o2 \in Obj /\ ks1 \in [KeySlots \X Roles -> Obj]
        BY <1>0, <2>2, <3>3, <3>4, GenObjTyped, UpdateTyped, Zenon
      <3>6. keys' = [ks1 EXCEPT ![<<k, "pub">>] = o2]
        <4>1. Assigned(keys[<<k, "priv">>], o1, 4) = o1
              /\ Assigned(keys[<<k, "pub">>], o2, 4) = o2
          BY <1>0, <3>4, <3>5, AssignedFull
        <4>2. QED
          BY <3>2, <4>1, Zenon DEF GenAssigned
      <3>7. AbsKeys(keys, gen + 1) = A
        BY <1>0, AbsKeysStable
      <3>8. /\ AbsKey("priv", o1, gen + 1) = [alg |-> a, id |-> gen + 1]
            /\ AbsKey("pub", o2, gen + 1) = [alg |-> a, id |-> gen + 1]
        BY <2>2, <3>3, <3>4, AbsKeyGen
      <3>9. AbsKeys(ks1, gen + 1)
              = [A EXCEPT ![<<k, "priv">>] = [alg |-> a, id |-> gen + 1]]
        <4>1. AbsKeys(ks1, gen + 1)
                = [AbsKeys(keys, gen + 1) EXCEPT ![<<k, "priv">>] = AbsKey("priv", o1, gen + 1)]
          <5>1. AbsKeys(ks1, gen + 1) = UpdAbs(keys, k, "priv", o1, gen + 1)
            BY <1>k, <3>4 DEF AbsKeys, UpdAbs
          <5>2. [AbsKeys(keys, gen + 1) EXCEPT ![<<k, "priv">>] = AbsKey("priv", o1, gen + 1)]
                  = UpdAbs(keys, k, "priv", o1, gen + 1)
            BY <1>k, <3>4, Zenon DEF AbsKeys, UpdAbs
          <5>3. QED
            BY <5>1, <5>2
        <4>2. QED
          BY <3>7, <3>8, <4>1
      <3>10. AbsKeys(keys', gen')
               = [A EXCEPT ![<<k, "priv">>] = [alg |-> a, id |-> gen + 1],
                           ![<<k, "pub">>] = [alg |-> a, id |-> gen + 1]]
        <4>1. AbsKeys(keys', gen + 1)
                = [AbsKeys(ks1, gen + 1) EXCEPT ![<<k, "pub">>] = AbsKey("pub", o2, gen + 1)]
          <5>0. ks1 \in [KeySlots \X Roles -> Obj]
            BY <3>5
          <5>1. AbsKeys(keys', gen + 1) = UpdAbs(ks1, k, "pub", o2, gen + 1)
            BY <3>4, <3>6, <5>0 DEF AbsKeys, UpdAbs
          <5>2. [AbsKeys(ks1, gen + 1) EXCEPT ![<<k, "pub">>] = AbsKey("pub", o2, gen + 1)]
                  = UpdAbs(ks1, k, "pub", o2, gen + 1)
            BY <3>4, <5>0, Zenon DEF AbsKeys, UpdAbs
          <5>3. QED
            BY <5>1, <5>2
        <4>2. QED
          BY <3>2, <3>8, <3>9, <4>1, Zenon
      <3>11. AbsExported(wire', gen') = AbsExported(wire, gen)
        BY <1>0, <3>2, AbsExportedStable
      <3>12. KS!AGen(k, a)
        BY <2>2, <3>2, <3>10, <3>11, SameTables DEF KS!AGen
      <3>13. QED
        BY <3>3, <3>12, SameTables DEF KS!ANext
    <2>3. QED
      BY <2>1, <2>2 DEF GenKeypairOk
  <1>3. ASSUME NEW k \in KeySlots, NEW r \in Roles, NEW buf \in DecodeInputs,
               NEW a \in AlgInputs, Decode(k, r, buf, a)
        PROVE  [KS!ANext]_KS!avars
    <2>1. CASE ~from_encoded_ok(r, buf, a)
      BY <1>1, <1>3, <2>1 DEF Decode, from_encoded_ok
    <2>2. CASE from_encoded_ok(r, buf, a)
      <3>1. /\ keys' = [keys EXCEPT ![<<k, r>>] = Assigned(keys[<<k, r>>], Decoded(r, buf, a), 4)]
            /\ UNCHANGED <<gen, wire>>
        BY <1>0, <1>3, <2>2, Zenon DEF Decode, from_encoded_ok
      <3>2. PICK w \in wire : buf \in {w.buf, SubSeq(w.buf, 1, Len(w.buf) - 1),
                                      Append(w.buf, JunkByte)}
        BY DEF DecodeInputs
      <3>3. PICK g \in 1..gen :
               w.alg \in SizedAlgs /\ w.buf = get_encoded(GenObj(w.role, g, w.alg))
        BY <1>0 DEF EncodingGenerated
      <3>4. w.role \in Roles /\ g \in Nat /\ SizeDefined(w.alg)
        BY <1>0, <3>3 DEF SizedAlgs
      <3>5. /\ r = w.role
            /\ encoded_size(r, a) = encoded_size(r, w.alg)
            /\ Decoded(r, buf, a) = GenObj(r, g, a)
        BY <2>2, <3>2, <3>3, <3>4, DecodeOfWire, Zenon
      <3>6. SizeDefined(a) /\ a \in CompositeAlgs /\ a \in PkAlgs
        BY <2>2 DEF from_encoded_ok, SizeDefined, PkAlgs
      <3> DEFINE x == [role |-> w.role, alg |-> w.alg, id |-> WireId(w, gen)]
      <3>7. x \in AbsExported(wire, gen)
        BY DEF AbsExported
      <3>8. WireId(w, gen) = g
        BY <1>0, <3>3, <3>4, WireIdGen
      <3>9. Assigned(keys[<<k, r>>], Decoded(r, buf, a), 4) = GenObj(r, g, a)
        BY <1>0, <3>5, <3>6, GenObjTyped, AssignedFull
      <3>10. AbsKey(r, GenObj(r, g, a), gen) = [alg |-> a, id |-> x.id]
        BY <1>0, <3>6, <3>8, AbsKeyGen, Zenon
      <3>11. AbsKeys(keys', gen') = [AbsKeys(keys, gen) EXCEPT ![<<k, r>>] = [alg |-> a, id |-> x.id]]
        <4>1. AbsKeys([keys EXCEPT ![<<k, r>>] = GenObj(r, g, a)], gen)
                = [AbsKeys(keys, gen) EXCEPT ![<<k, r>>] = AbsKey(r, GenObj(r, g, a), gen)]
          <5>1. AbsKeys([keys EXCEPT ![<<k, r>>] = GenObj(r, g, a)], gen) = UpdAbs(keys, k, r, GenObj(r, g, a), gen)
            BY <1>k DEF AbsKeys, UpdAbs
          <5>2. [AbsKeys(keys, gen) EXCEPT ![<<k, r>>] = AbsKey(r, GenObj(r, g, a), gen)]
                  = UpdAbs(keys, k, r, GenObj(r, g, a), gen)
            BY <1>k, Zenon DEF AbsKeys, UpdAbs
          <5>3. QED
            BY <5>1, <5>2, Zenon
        <4>2. keys' = [keys EXCEPT ![<<k, r>>] = GenObj(r, g, a)]
          BY <3>1, <3>9, Zenon
        <4>3. QED
          BY <3>1, <3>10, <4>1, <4>2, Zenon
      <3>12. KS!AImport(k, r, x, a)
        BY <3>1, <3>5, <3>6, <3>11, SameTables DEF KS!AImport
      <3>13. QED
        BY <3>6, <3>7, <3>12, SameTables DEF KS!ANext
    <2>3. QED
      BY <2>1, <2>2
  <1>4. ASSUME NEW k \in KeySlots, NEW r \in Roles, Encode(k, r)
        PROVE  [KS!ANext]_KS!avars
    <2> DEFINE o == keys[<<k, r>>]
    <2>1. CASE ~is_initialized(o)
      BY <1>1, <1>4, <2>1, Zenon DEF Encode
    <2>2. CASE is_initialized(o)
      <3> DEFINE nw == [alg |-> o.alg, role |-> r, buf |-> get_encoded(o)]
      <3>1. /\ wire' = wire \cup {nw}
            /\ UNCHANGED <<keys, gen>>
        BY <1>4, <2>2, Zenon DEF Encode
      <3>2. PICK g \in 1..gen : o.alg \in SizedAlgs /\ o = GenObj(r, g, o.alg)
        BY <1>0, <2>2 DEF Generated
      <3>3. SizeDefined(o.alg) /\ gen \in Nat
        BY <1>0, <3>2 DEF SizedAlgs
      <3>4. AbsKeys(keys, gen)[<<k, r>>] = [alg |-> o.alg, id |-> g]
        <4>1. AbsKey(r, GenObj(r, g, o.alg), gen) = [alg |-> o.alg, id |-> g]
          BY <3>3, AbsKeyGen
        <4>2. QED
          BY <3>2, <4>1 DEF AbsKeys
      <3>5. WireId(nw, gen) = g
        BY <3>2, <3>3, WireIdGen
      <3>6. AbsExported(wire', gen') = AbsExported(wire, gen)
              \cup {[role |-> r, alg |-> AbsKeys(keys, gen)[<<k, r>>].alg,
                     id |-> AbsKeys(keys, gen)[<<k, r>>].id]}
        BY <3>1, <3>4, <3>5 DEF AbsExported
      <3>7. AbsKeys(keys, gen)[<<k, r>>] # NoKey
        BY <3>4 DEF NoKey
      <3>8. KS!AExport(k, r)
        BY <3>1, <3>6, <3>7, SameTables DEF KS!AExport
      <3>9. QED
        BY <3>8, SameTables DEF KS!ANext
    <2>3. QED
      BY <2>1, <2>2
  <1>5. ASSUME NEW k \in KeySlots, SecureClear(k)
        PROVE  [KS!ANext]_KS!avars
    <2>1. /\ keys' = [keys EXCEPT ![<<k, "priv">>] = Cleared(keys[<<k, "priv">>])]
          /\ UNCHANGED <<gen, wire>>
      BY <1>5 DEF SecureClear
    <2>2. AbsKey("priv", Cleared(keys[<<k, "priv">>]), gen) = NoKey /\ "priv" \in Roles
      BY DEF AbsKey, Cleared, is_initialized, Roles
    <2>3. AbsKeys(keys', gen') = [AbsKeys(keys, gen) EXCEPT ![<<k, "priv">>] = NoKey]
      <3>1. AbsKeys(keys', gen)
              = [AbsKeys(keys, gen) EXCEPT ![<<k, "priv">>]
                   = AbsKey("priv", Cleared(keys[<<k, "priv">>]), gen)]
        <4>1. "priv" \in Roles
          BY <2>2
        <4>2. QED
          <5>1. AbsKeys(keys', gen) = UpdAbs(keys, k, "priv", Cleared(keys[<<k, "priv">>]), gen)
            BY <1>k, <2>1, <4>1 DEF AbsKeys, UpdAbs
          <5>2. [AbsKeys(keys, gen) EXCEPT ![<<k, "priv">>] = AbsKey("priv", Cleared(keys[<<k, "priv">>]), gen)]
                  = UpdAbs(keys, k, "priv", Cleared(keys[<<k, "priv">>]), gen)
            BY <1>k, <4>1, Zenon DEF AbsKeys, UpdAbs
          <5>3. QED
            BY <5>1, <5>2
      <3>2. QED
        BY <2>1, <2>2, <3>1, Zenon
    <2>4. KS!AClear(k)
      BY <2>1, <2>3, SameTables DEF KS!AClear
    <2>5. QED
      BY <2>4 DEF KS!ANext
  <1>6. ASSUME NEW k \in KeySlots, NEW k2 \in KeySlots, NEW r \in Roles,
               CopyAssign(k, k2, r)
        PROVE  [KS!ANext]_KS!avars
    <2>1. /\ keys' = [keys EXCEPT ![<<k, r>>] = Assigned(keys[<<k, r>>], keys[<<k2, r>>], 4)]
          /\ UNCHANGED <<gen, wire>>
      BY <1>0, <1>6, Zenon DEF CopyAssign
    <2>2. Assigned(keys[<<k, r>>], keys[<<k2, r>>], 4) = keys[<<k2, r>>]
      BY <1>0, AssignedFull
    <2>3. AbsKeys(keys, gen)[<<k2, r>>] = AbsKey(r, keys[<<k2, r>>], gen)
      BY DEF AbsKeys
    <2>4. AbsKeys(keys', gen')
            = [AbsKeys(keys, gen) EXCEPT ![<<k, r>>] = AbsKeys(keys, gen)[<<k2, r>>]]
      <3>1. AbsKeys([keys EXCEPT ![<<k, r>>] = keys[<<k2, r>>]], gen)
              = [AbsKeys(keys, gen) EXCEPT ![<<k, r>>] = AbsKey(r, keys[<<k2, r>>], gen)]
        <4>1. AbsKeys([keys EXCEPT ![<<k, r>>] = keys[<<k2, r>>]], gen) = UpdAbs(keys, k, r, keys[<<k2, r>>], gen)
          BY <1>k DEF AbsKeys, UpdAbs
        <4>2. [AbsKeys(keys, gen) EXCEPT ![<<k, r>>] = AbsKey(r, keys[<<k2, r>>], gen)]
                = UpdAbs(keys, k, r, keys[<<k2, r>>], gen)
          BY <1>k, Zenon DEF AbsKeys, UpdAbs
        <4>3. QED
          BY <4>1, <4>2
      <3>2. QED
        BY <2>1, <2>2, <2>3, <3>1, Zenon
    <2>5. KS!ACopy(k, k2, r)
      BY <2>1, <2>4 DEF KS!ACopy
    <2>6. QED
      BY <2>5, SameTables DEF KS!ANext
  <1>7. ASSUME NEW k \in KeySlots, Sign(k) \/ Verify(k) \/ ValidateKey(k)
        PROVE  [KS!ANext]_KS!avars
    BY <1>1, <1>7 DEF Sign, Verify, ValidateKey
  <1>8. CASE UNCHANGED vars
    BY <1>1, <1>8 DEF vars
  <1>9. QED
    BY <1>2, <1>3, <1>4, <1>5, <1>6, <1>7, <1>8, Zenon DEF Next


(* The composite key objects implement the key store: every behaviour of  *)
(* CompositeKey, with its table of key objects and the encodings handed   *)
(* out mapped to abstract keys, is a behaviour of KeyStore. It rests on   *)
(* the invariant RInv, and holds when allocation does not fail (a failed   *)
(* copy in operator= leaves a torn object, see the assign_not_atomic run)  *)
(* and when no two encodings' sizes are equal or one byte apart, which    *)
(* the provider's sizes satisfy.                                           *)
THEOREM RefinementHolds ==
  ASSUME ~AllocMayFail, SizesSeparated
  PROVE  Spec => RefinesKeyStore
  <1>1. Init => KS!AInit
    BY InitRefines
  <1>2. RInv /\ [Next]_vars => [KS!ANext]_KS!avars
    BY StepRefines
  <1>3. Spec => []RInv
    BY RInvHolds
  <1>4. QED
    BY <1>1, <1>2, <1>3, PTL DEF Spec, RefinesKeyStore, KS!ASpec

=============================================================================
