------------------------ MODULE CompositeKeyRefinement ------------------------
(***************************************************************************)
(* CompositeKey implements KeyStore.  The refinement mapping reads the     *)
(* abstract key of an object from its bytes: an uninitialized object is    *)
(* Absent; an initialized one is the key pair g whose provider encodings,  *)
(* cut to the sizes of its tag, are exactly its two parts.  An object whose *)
(* bytes are no generation's (parts of two pairs, or a part cut at the     *)
(* wrong offset) maps to Torn, which no abstract step produces.  An        *)
(* encoding handed out maps to the pair whose get_encoded it is, or to the *)
(* pair 0 that does not exist.                                             *)
(***************************************************************************)
EXTENDS CompositeKey

(* KeyStore's Absent: no usable key.                                      *)
NoKey == [alg |-> "none", id |-> 0]

(* The value of a torn object: no abstract key.                            *)
Torn == [alg |-> "torn", id |-> 0]

(* The generation a byte string starts with: the first byte of a key's    *)
(* classical part names the pair it was made by.                           *)
FirstGen(buf) == IF buf = << >> THEN 0 ELSE buf[1][1]

(* The abstract key of object o of role r when n pairs have been made:   *)
(* the pair g when o is exactly what the g-th gen_keypair made, cut to the *)
(* sizes of its own tag.                                                   *)
AbsKey(r, o, n) ==
  LET g == FirstGen(o.exdsa) IN
  IF ~is_initialized(o) THEN NoKey
  ELSE IF g \in 1..n /\ SizeDefined(o.alg) /\ o = GenObj(r, g, o.alg)
       THEN [alg |-> o.alg, id |-> g]
       ELSE Torn

(* The pair an emitted buffer is the encoding of, 0 if none.               *)
WireId(w, n) ==
  LET g == FirstGen(w.buf) IN
  IF g \in 1..n /\ SizeDefined(w.alg)
       /\ w.buf = get_encoded(GenObj(w.role, g, w.alg))
  THEN g ELSE 0

(* The mapping of the key structs and of the wire.                        *)
AbsKeys(ks, n) == [kr \in KeySlots \X Roles |-> AbsKey(kr[2], ks[kr], n)]

AbsExported(ws, n) ==
  {[role |-> w.role, alg |-> w.alg, id |-> WireId(w, n)] : w \in ws}

KS == INSTANCE KeyStore WITH
        akeys <- AbsKeys(keys, gen),
        agen <- gen,
        exported <- AbsExported(wire, gen)

(* Every behaviour of the composite layer is one of KeyStore: every key a  *)
(* struct holds after gen_keypair, the decoding constructors, operator=,   *)
(* get_encoded and secure_clear (cpp 45-66, 179-383) is exactly the        *)
(* provider material of one generated pair, a decoded key is the pair      *)
(* whose encoding was handed out, and a failing call changes no key.       *)
RefinesKeyStore == KS!ASpec

(* The algorithms the caller passes whose encoded size is defined.        *)
SizedAlgs == {a \in AlgInputs : SizeDefined(a)}

(* The refinement rests on the encoded sizes of the algorithms the caller  *)
(* uses being apart: no encoding of one role and algorithm has the length  *)
(* of another's, or one byte more, unless both are the same role with the  *)
(* same split.  Otherwise the decoding constructor (cpp 179-191, 230-242)  *)
(* accepts a cut or extended buffer, or one of the other role, and builds  *)
(* a key of no generated pair.  The provider's sizes satisfy it: the       *)
(* encodings are 4032 and 4912 bytes (private, levels 3 and 5), 1984,      *)
(* 2017 and 2689 bytes (public).                                           *)
SizesSeparated ==
  \A r1, r2 \in Roles, a1, a2 \in SizedAlgs :
     /\ encoded_size(r1, a1) + 1 # encoded_size(r2, a2)
     /\ encoded_size(r1, a1) = encoded_size(r2, a2) =>
           r1 = r2 /\ ExdsaLen(r1, a1) = ExdsaLen(r2, a2)

(* The invariant the refinement proof rests on: every initialized key     *)
(* object, and every encoding handed out, is the material of a pair        *)
(* generated so far, cut to the sizes of an algorithm the caller uses.     *)
Generated(r, o, n) ==
  is_initialized(o) =>
     \E g \in 1..n : o.alg \in SizedAlgs /\ o = GenObj(r, g, o.alg)

EncodingGenerated(w, n) ==
  \E g \in 1..n :
     w.alg \in SizedAlgs /\ w.buf = get_encoded(GenObj(w.role, g, w.alg))

KeysGenerated ==
  \A k \in KeySlots, r \in Roles : Generated(r, keys[<<k, r>>], gen)

WireGenerated == \A w \in wire : EncodingGenerated(w, gen)

RInv == TypeOK /\ KeysGenerated /\ WireGenerated

=============================================================================
