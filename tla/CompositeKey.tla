---------------------------- MODULE CompositeKey ----------------------------
(***************************************************************************)
(* The composite key objects of src/lib/crypto/dilithium_exdsa_composite.* *)
(* as a caller of the composite layer sees them: a set of                  *)
(* pgp_dilithium_exdsa_key_t structs (one private and one public           *)
(* composite key each), driven by the operations of the layer.             *)
(*                                                                         *)
(* A composite key object keeps its algorithm tag pk_alg_, the encodings   *)
(* of its classical (exdsa_key_) and Dilithium (dilithium_key_) parts and  *)
(* the two flags exdsa_initialized_ and dilithium_initialized_.  A byte    *)
(* is the triple <<g, part, i>>: byte i of the provider encoding of the    *)
(* sub-key `part' made by the g-th gen_keypair call, so that slicing and   *)
(* concatenation are modelled by what they do and a misplaced offset       *)
(* shows up as bytes of the wrong part.  The provider's sub-key classes    *)
(* store the bytes they are built from and hand them back from             *)
(* get_encoded.                                                            *)
(*                                                                         *)
(* Every assignment into a struct goes through the user-defined            *)
(* operator= (cpp 209-228), which copies the flags, then pk_alg_, then     *)
(* dilithium_key_, then exdsa_key_.  Copying a sub-key copies a byte       *)
(* vector and may throw std::bad_alloc; AllocMayFail says whether the      *)
(* model lets it.                                                          *)
(***************************************************************************)
EXTENDS CompositeObj

CONSTANTS
  KeySlots,      \* the pgp_dilithium_exdsa_key_t structs of the caller
  AlgInputs,     \* the pgp_pubkey_alg_t values the caller passes
  MaxGen,        \* bound on the number of successful gen_keypair calls
  AllocMayFail,  \* whether copying a sub-key's byte vector may throw
  DefaultTags    \* the values an uninitialized pk_alg_ may read as

ASSUME KeyAssumption ==
  /\ KeySlots # {}
  /\ AlgInputs \subseteq PkAlgs
  /\ MaxGen \in Nat
  /\ AllocMayFail \in BOOLEAN
  /\ DefaultTags # {}
  /\ DefaultTags \subseteq PkAlgs \cup {NoAlg}

VARIABLES
  keys,  \* keys[k, r]: the composite key object of role r in struct k
  gen,   \* number of key pairs generated so far
  wire,  \* encodings handed to the packet layer: [alg, role, buf]
  last   \* outcome of the most recent call

vars == <<keys, gen, wire, last>>

---------------------------------------------------------------------------
(* Results.  rnp_exception codes, std::bad_alloc from a vector copy, and  *)
(* PROVIDER: whatever code generate_exdsa_key_pair returns, which          *)
(* gen_keypair hands back unchanged (cpp 56-58).  The cause records which  *)
(* check or call failed.                                                   *)
Codes == {"SUCCESS", "BAD_PARAMETERS", "GENERIC", "OUT_OF_MEMORY", "PROVIDER"}

Causes == {"none", "unknown_alg", "unsupported_curve", "length",
           "uninitialized", "alloc", "provider"}

Result == [code : Codes, cause : Causes]

Ok == [code |-> "SUCCESS", cause |-> "none"]

Fail(code, cause) == [code |-> code, cause |-> cause]

Return(res) == last' = res

---------------------------------------------------------------------------
AssignSteps == IF AllocMayFail THEN {2, 3, 4} ELSE {4}

AssignResult(n) ==
  IF n = 4 THEN Ok ELSE Fail("OUT_OF_MEMORY", "alloc")

(* The byte strings the packet layer may hand to the decoding              *)
(* constructor: what it was given, cut short or extended by one byte.      *)
DecodeInputs ==
  LET given == {w.buf : w \in wire}
  IN  given \cup {SubSeq(b, 1, Len(b) - 1) : b \in given}
            \cup {Append(b, JunkByte) : b \in given}

---------------------------------------------------------------------------
Init ==
  /\ keys \in [KeySlots \X Roles -> {DefaultObjTagged(t) : t \in DefaultTags}]
  /\ gen = 0
  /\ wire = {}
  /\ last = Ok

(* The two assignments key->priv = ...; key->pub = ... (cpp 62-63): the    *)
(* n1-th member copy of the first one throws when n1 < 4, and then the     *)
(* second is never made.                                                   *)
GenAssigned(ks, k, g, a, n1, n2) ==
  [ks EXCEPT
     ![<<k, "priv">>] = Assigned(@, GenObj("priv", g, a), n1),
     ![<<k, "pub">>]  = IF n1 = 4 THEN Assigned(@, GenObj("pub", g, a), n2) ELSE @]

(* gen_keypair (cpp 45-66) on its success path: both key pairs are made   *)
(* for a curve the tables know, the constructors' length checks (cpp       *)
(* 197-203, 248-254) pass on the provider's encodings, which have the      *)
(* tables' sizes, and the two objects are assigned, key->priv first.       *)
(* gen < MaxGen bounds the model, not the code.                            *)
GenKeypairOk(k, a) ==
  /\ SizeDefined(a)
  /\ gen < MaxGen
  /\ gen' = gen + 1
  /\ \E n1, n2 \in AssignSteps :
        /\ keys' = GenAssigned(keys, k, gen + 1, a, n1, n2)
        /\ Return(AssignResult(IF n1 = 4 THEN n2 ELSE n1))
  /\ UNCHANGED wire

(* gen_keypair (cpp 45-66).  pk_alg_to_curve_id throws for a non-composite *)
(* algorithm (cpp 49, 175).  generate_exdsa_key_pair, of the provider and  *)
(* not in this source, may fail for any curve, and must for the            *)
(* PGP_CURVE_UNKNOWN sentinel; its code is returned as it is and no key is *)
(* assigned (cpp 54-58).  Otherwise GenKeypairOk.                          *)
GenKeypair(k, a) ==
  \/ /\ a \notin CompositeAlgs
     /\ Return(Fail("BAD_PARAMETERS", "unknown_alg"))
     /\ UNCHANGED <<keys, gen, wire>>
  \/ /\ a \in CompositeAlgs
     /\ Return(Fail("PROVIDER", "provider"))
     /\ UNCHANGED <<keys, gen, wire>>
  \/ GenKeypairOk(k, a)

(* The decoding constructor of role r from buf (cpp 179-191 / 230-242 with *)
(* the from_encoded helpers), its result assigned to keys[<<k, r>>].  A throw   *)
(* destroys the temporary and leaves the struct as it was.                 *)
Decode(k, r, buf, a) ==
  /\ \/ /\ ~SizeDefined(a)
        /\ Return(Fail("BAD_PARAMETERS", SizeFailure(a)))
        /\ UNCHANGED keys
     \/ /\ SizeDefined(a)
        /\ ~from_encoded_ok(r, buf, a)
        /\ Return(Fail("BAD_PARAMETERS", "length"))
        /\ UNCHANGED keys
     \/ /\ from_encoded_ok(r, buf, a)
        /\ \E n \in AssignSteps :
              /\ keys' = [keys EXCEPT ![<<k, r>>] = Assigned(@, Decoded(r, buf, a), n)]
              /\ Return(AssignResult(n))
  /\ UNCHANGED <<gen, wire>>

(* Mutant: get_encoded without initialized_or_throw.                      *)
EncodeNoInitCheck(k, r) ==
  LET o == keys[<<k, r>>] IN
  /\ wire' = wire \cup {[alg |-> o.alg, role |-> r, buf |-> get_encoded(o)]}
  /\ Return(Ok)
  /\ UNCHANGED <<keys, gen>>

(* get_encoded (cpp 297-307, 360-370) after initialized_or_throw           *)
(* (cpp 37-43); the result is handed to the packet layer.                  *)
Encode(k, r) ==
  LET o == keys[<<k, r>>] IN
  /\ \/ /\ ~is_initialized(o)
        /\ Return(Fail("GENERIC", "uninitialized"))
        /\ UNCHANGED wire
     \/ /\ is_initialized(o)
        /\ wire' = wire \cup {[alg |-> o.alg, role |-> r, buf |-> get_encoded(o)]}
        /\ Return(Ok)
  /\ UNCHANGED <<keys, gen>>

(* secure_clear (cpp 316-321): both flags are cleared; the byte vectors    *)
(* are left as they are (TODOMTG: securely erase the data).                *)
SecureClear(k) ==
  /\ keys' = [keys EXCEPT ![<<k, "priv">>] = Cleared(@)]
  /\ Return(Ok)
  /\ UNCHANGED <<gen, wire>>

(* Copy assignment of one struct's key object to another's (cpp 209-228).  *)
CopyAssign(k1, k2, r) ==
  /\ \E n \in AssignSteps :
        /\ keys' = [keys EXCEPT ![<<k1, r>>] = Assigned(@, keys[<<k2, r>>], n)]
        /\ Return(AssignResult(n))
  /\ UNCHANGED <<gen, wire>>

(* sign (cpp 310-314), verify (cpp 372-377) and dilithium_exdsa_validate_key *)
(* (cpp 379-383) are stubs that return RNP_SUCCESS without looking at the  *)
(* key.                                                                    *)
Sign(k) ==
  /\ Return(Ok)
  /\ UNCHANGED <<keys, gen, wire>>

Verify(k) ==
  /\ Return(Ok)
  /\ UNCHANGED <<keys, gen, wire>>

ValidateKey(k) ==
  /\ Return(Ok)
  /\ UNCHANGED <<keys, gen, wire>>

Next ==
  \E k \in KeySlots :
     \/ \E a \in AlgInputs : GenKeypair(k, a)
     \/ \E r \in Roles, buf \in DecodeInputs, a \in AlgInputs : Decode(k, r, buf, a)
     \/ \E r \in Roles : Encode(k, r)
     \/ SecureClear(k)
     \/ \E k2 \in KeySlots, r \in Roles : CopyAssign(k, k2, r)
     \/ Sign(k)
     \/ Verify(k)
     \/ ValidateKey(k)

Spec == Init /\ [][Next]_vars

---------------------------------------------------------------------------
(* Type invariant.                                                         *)
TypeOK ==
  /\ keys \in [KeySlots \X Roles -> Obj]
  /\ gen \in 0..MaxGen
  /\ wire \subseteq [alg : PkAlgs \cup {NoAlg}, role : Roles, buf : Seq(Byte)]
  /\ last \in Result

(* Round trip (spec section 8): every initialized key object, of either    *)
(* role, is accepted by the decoding constructor of its role and algorithm *)
(* when given its own get_encoded output, and decodes to itself: the       *)
(* offset dilithium_key_from_encoded cuts at, the order get_encoded        *)
(* concatenates in and the tag operator= copies all agree.                 *)
RoundTrip ==
  \A k \in KeySlots, r \in Roles :
     LET o == keys[<<k, r>>] IN
     is_initialized(o) =>
        /\ from_encoded_ok(r, get_encoded(o), o.alg)
        /\ Decoded(r, get_encoded(o), o.alg) = o

(* Every byte string get_encoded ever handed to the packet layer is        *)
(* accepted by the decoding constructor of the role and algorithm it was   *)
(* produced for: no encoding of a default-constructed, cleared or          *)
(* inconsistent key object leaves the layer.                               *)
WireDecodable ==
  \A w \in wire : from_encoded_ok(w.role, w.buf, w.alg)

(* A call that returns an error or throws leaves every key struct as it    *)
(* was (spec 4.2: partial results are discarded, never returned            *)
(* half-built; copies are atomic).  operator= (cpp 211-214) copies the     *)
(* flags and pk_alg_ before the byte vectors, whose copies may throw.      *)
FailedCallLeavesKeysUnchanged ==
  [][last'.code # "SUCCESS" => UNCHANGED keys]_vars

(* The strengthening the round trip rests on: an initialized object has a *)
(* composite algorithm whose sizes are defined, and each part has exactly  *)
(* the length the tables give its role.  Every constructor that sets the   *)
(* flags checks or produces these lengths (cpp 197-203, 248-254, 270-279,  *)
(* 286-293); a completed operator= copies a well-sized object whole.      *)
WellSized(r, o) ==
  is_initialized(o) =>
     /\ SizeDefined(o.alg)
     /\ Len(o.exdsa) = ExdsaLen(r, o.alg)
     /\ Len(o.dilithium) = DilithiumSize(r, pk_alg_to_dilithium_id[o.alg])

KeyWellSized ==
  \A k \in KeySlots, r \in Roles : WellSized(r, keys[<<k, r>>])

=============================================================================
