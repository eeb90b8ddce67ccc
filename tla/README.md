# Formal models of the composite PQC key layer

TLA+ models, TLC configurations and TLAPS proofs for the composite
public-key layer of this repository:

- `src/lib/crypto/dilithium_exdsa_composite.{h,cpp}`: Dilithium + ECDSA/EdDSA
  composite keys;
- `src/lib/crypto/kyber.cpp`: the Kyber KEM wrapper.

## The system

| Part | Source | State | Operations |
|---|---|---|---|
| Parameter tables | cpp 69-177, h 75-78 | none (pure) | `pk_alg_to_curve_id`, `pk_alg_to_dilithium_id`, `exdsa_curve_{priv,pub}key_size`, `exdsa_curve_signature_size`, `encoded_size`, `composite_signature_size` |
| Composite key objects | cpp 37-66, 179-383; h 48-154 | per object: `pk_alg_`, `dilithium_key_`, `exdsa_key_`, `exdsa_initialized_`, `dilithium_initialized_` | `gen_keypair`, the decoding constructors, the constructors from two parts, `operator=`, `get_encoded`, `secure_clear`, `sign`, `verify`, `dilithium_exdsa_validate_key` |
| Signature container | h 71-79 | two vectors (never filled here) | `composite_signature_size` |
| Kyber KEM wrapper | kyber.cpp 43-112 | per key: the encoding and its `kyber_parameter_e` | `kyber_generate_keypair`, `encapsulate`, `decapsulate` |
| X25519 native | x25519.h | none | declarations only |
| HKDF test, cmocka key-generation tests | tests/hkdf.cpp, cmocka/ | none | test drivers |

The parts interact in the following ways:

- A composite key object is built by `gen_keypair`, from two parts, or by
  decoding a buffer.
- It is copied between `pgp_dilithium_exdsa_key_t` structs through
  `operator=`. This copy happens in `gen_keypair` too.
- Its encoding goes to the packet layer, and later comes back to the decoder.
- Every constructor and decoder consults the parameter tables.
- The Kyber wrapper is stateless. Each call decodes its key in the Botan mode
  that the parameter selects, and asks the provider for a fixed-length shared
  secret.
- The providers are external: the EC and Dilithium key classes, and Botan's
  KEM. They are modelled by what the layer relies on:
  - a sub-key stores the bytes it is built from and returns them;
  - a KEM ciphertext decapsulates to the sender's secret only under the
    matching key, mode and length.

## Modules

- **CompositeParams**: the tables. A switch that throws in its `default`
  branch becomes a function whose DOMAIN leaves that argument out. The
  Dilithium sizes are CONSTANTS (`DilithiumSizesAssumption`: positive), so
  every proof holds for any provider sizes.
- **CompositeObj**: the object of one role and what the code computes on
  it, with no state of its own: `Obj`, the default object, `is_initialized`,
  `FromParts`, the decoder's split (`Decoded`), `get_encoded`, `operator=`'s
  partial copy (`Assigned`) and the object `gen_keypair` makes (`GenObj`).
  `DefaultObjTagged(t)` is a default-constructed object whose `pk_alg_`,
  which has no initializer (h 108), reads as `t`.
- **CompositeKey**: the composite key objects, with these variables:
  - `keys[<<k, r>>]`: the object of role `r` (priv or pub) in struct `k`;
  - `gen`: key pairs generated;
  - `wire`: encodings handed to the packet layer;
  - `last`: the outcome of the latest call.

  A byte is `<<g, part, i>>`, so slicing and concatenation are modelled by
  what they do, and a wrong offset shows up as bytes of the wrong part. One
  action per operation:
  - `GenKeypair` (cpp 45-66). Its disjuncts are an unknown algorithm
    (BAD_PARAMETERS), a failure of the provider's `generate_exdsa_key_pair`
    (possible for every composite algorithm, and the only outcome for a curve
    the tables lack; its code is passed through), and success
    (`GenKeypairOk`), which assigns priv, then pub.
  - `Decode` (cpp 179-191, 230-242, with the helpers at 267-295 and 331-358).
  - `Encode`: `get_encoded` after `initialized_or_throw`.
  - `SecureClear` (cpp 316-321).
  - `CopyAssign`: `operator=`, cpp 209-228.
  - `Sign`, `Verify` and `ValidateKey`: the stubs.

  `operator=` is modelled by `Assigned(dst, src, n)`. Its member copies run in
  the code's order (flags, `pk_alg_`, `dilithium_key_`, `exdsa_key_`), and it
  stops after copy `n` when a vector copy throws `std::bad_alloc`. Whether a
  copy may throw is the constant `AllocMayFail`.
  The initial objects are default objects whose tag ranges over the
  constant `DefaultTags`: the indeterminate `pk_alg_` is a nondeterministic
  choice among values a build can leave there.
- **CompositeKeyErrors**: CompositeKey plus a history variable of the
  (code, category) pairs that calls have returned.
- **KyberKem**: the Kyber wrapper. The variables are `keys` (the parameter of
  each generated pair), `nonce` (the provider's fresh draws) and the results
  of `encaps` and `decaps`. The environment may truncate a ciphertext by one
  byte, or alter it at the same length, before handing it to `Decapsulate`.
- **KeyStore**: the abstract specification of what the key layer promises,
  with no bytes. `akeys[<<k, r>>]` is `Absent` or `[alg, id]`, the key of
  generated pair `id` used under `alg`; `exported` holds the (role, alg, id)
  of every encoding handed out. Actions: generate, export, import an
  exported encoding under an algorithm of the same encoded size, clear the
  private key, copy a role between structs.
- **CompositeKeyRefinement**: CompositeKey shown to implement KeyStore.
  The mapping reads a key's identity from its bytes:
  - an uninitialized object maps to `Absent`;
  - an initialized object maps to `[alg, id |-> g]` when it is exactly the
    object `gen_keypair` number `g` made for its role and tag;
  - anything else maps to a `Torn` value that no abstract step produces, so
    a wrongly decoded or half-copied key breaks the refinement;
  - `exported` is the wire, each buffer named by the pair its bytes come
    from.
- **MCCompositeParams**: the stand-in Dilithium sizes shared by the TLC
  instances.
- **MCCompositeKey**, **MCCompositeKeyErrors**, **MCCompositeKeyRefinement**,
  and **MCKyberKem**: the TLC instances.
- **CompositeKeyProofs**, **CompositeKeyRefinementProofs** and
  **KyberKemProofs**: the TLAPS proofs.

## Runs

| Run | Expect | What it shows |
|---|---|---|
| `composite_keys` (MCCompositeKey.cfg) | pass | `RoundTrip`: every initialized object decodes from its own encoding to itself. `WireDecodable`: every encoding that leaves the layer decodes. |
| `kyber_kem` (MCKyberKem.cfg) | pass | `KemAgreement`: decapsulating an untouched ciphertext with the matching key gives the sender's secret. |
| `key_store_refinement` (MCCompositeKeyRefinement.cfg) | pass | `RefinesKeyStore`: every behaviour of CompositeKey is one of KeyStore. A usable key is always exactly one generated pair's material. Every decode yields the pair whose encoding was handed out. Defaults whose tag is NONE, a Dilithium algorithm or RSA behave like an absent key. |
| `assign_not_atomic` | violation | `FailedCallLeavesKeysUnchanged` (an action property: no call that returns an error changes a key) with `AllocMayFail = TRUE`: a throwing `operator=` leaves a half-copied object. |
| `error_kinds_conflated` | violation | `ErrorKindsDistinct`: BAD_PARAMETERS is returned both for malformed input and for a build gap. |
| `kyber_decap_unchecked` | violation | `DecapValidatesLength`: `decapsulate` passes wrong-length ciphertexts to the provider unchecked. |

Each property of a passing run has a mutant in PROJECT.json: a plausible
bug in the mapped code that TLC catches. The mutants are:

- the two parts concatenated in swapped order;
- `get_encoded` without the initialization check;
- decapsulating in the default mode;
- the decoder cutting the buffer one byte late (breaks `RefinesKeyStore`).

### Bounds

Composite keys:

- Two key structs, under symmetry. This is enough for a copy between structs
  and for a cleared struct next to a live one.
- `MaxGen = 1`. One generation suffices, because decoding then creates the
  other objects. With `MaxGen = 2` the state space exceeds 380,000 states.
- Six algorithm inputs:
  - one per Dilithium level with curves of different sizes (P-256, P-384);
  - Ed25519, whose classical sizes differ from P-256's at the same level, so
    a split point taken from the wrong curve shows;
  - P-256 and BP-256, whose sizes all coincide;
  - Ed448, whose curve the tables lack;
  - a non-composite algorithm.
- Stand-in Dilithium sizes that differ per level and role (`MCCompositeParams`;
  the level-3 public size is 2 so that the encoded sizes of Ed25519 and P-256
  keys stay more than one byte apart, as the real sizes are). A level or role
  confusion therefore changes a length.
- Decode inputs: every emitted buffer, one byte shorter, and one byte longer.

Refinement: one key struct, `MaxGen = 1`, the same algorithm inputs, and
three default tags (NONE, a Dilithium algorithm, RSA). Two structs are within
reach but take several minutes, because the mapping is evaluated on every
state pair. The copy and generate steps between structs are checked by
`composite_keys` instead. With the stand-in sizes, two algorithms share an
encoded size only when their parts have the same sizes. So an import under
the "wrong" algorithm is allowed by KeyStore exactly when the code accepts
it.

Kyber:

- Two key pairs, which covers both parameter sets and two keys of the same
  set.
- Two encapsulations.

### Fairness

None is assumed, and no liveness property is checked: every operation is a
synchronous call with no waiting or retry (spec: "no retries are
appropriate"), and whether a caller makes another call is the caller's
choice.

## Proofs

| Theorem | Statement | Assumption |
|---|---|---|
| `TypeCorrect` | `Spec => []TypeOK` | none |
| `RoundTripHolds` | `Spec => []RoundTrip` | `~AllocMayFail` |
| `WireDecodableHolds` | `Spec => []WireDecodable` | `~AllocMayFail` |

These three, in CompositeKeyProofs, hold for every value of the constants that
satisfies `KeyAssumption` and `DilithiumSizesAssumption`.

KyberKemProofs proves `KemAgreementHolds`, `Spec => []KemAgreement`, for
every `MaxKeys` and `MaxEncaps` allowed by `KyberBoundsAssumption`. Its
inductive invariant is `KemInv`:

- `KyberTypeOK`;
- every encapsulation result equals the ciphertext and secret that
  `encapsulate` makes for its key's current parameter (`EncapsOk`);
- every decapsulation result is the provider's answer for its key's mode and
  key-share size (`DecapsOk`).

This invariant holds because key pairs are only appended (`AppendKeeps`), so a
key's parameter never changes after the call that used it. `KemAgreement`
follows: an untouched ciphertext has exactly its mode's length, so the provider
accepts it and returns the sender's secret. `KemInv` was checked by TLC on the
`kyber_kem` instance before it was proved.

`RoundTrip` is not inductive on its own. Copying or decoding into a slot
preserves it only if the source object is *well sized*: its algorithm's
sizes are defined, and each part has the length the table gives its role.
The inductive invariant is `IInv == TypeOK /\ KeyWellSized /\ WireDecodable`.
The argument:

1. Every constructor that sets the flags checks or produces these lengths.
2. A completed `operator=` copies a well-sized object whole.
3. `SecureClear` only lowers flags.
4. Encoding a well-sized object gives a buffer of exactly `encoded_size`.
5. Decoding that buffer splits it back into the two parts (`SplitConcat`,
   `DecodeOfEncode`).

The proofs assume `~AllocMayFail`. The `assign_not_atomic` run shows that a
throwing copy breaks the property, so the assumption cannot be dropped.

### The refinement

CompositeKeyRefinementProofs proves `RefinementHolds`:
`Spec => RefinesKeyStore`, that is, CompositeKey implements KeyStore under
the mapping of CompositeKeyRefinement. It holds for every value of the
constants, under two hypotheses:

- `~AllocMayFail`, as in the `key_store_refinement` run. A copy that throws
  part way leaves a half-copied object (the `assign_not_atomic` run). Such
  an object maps to `Torn`, which no abstract step produces.
- `SizesSeparated`: no two encoded sizes of (role, algorithm) pairs are
  equal or one byte apart, unless the roles and the split point agree. The
  decoder only checks the total length (cpp 179-191, 230-242). A buffer cut
  short or extended by one byte could otherwise pass that check under
  another role or tag, and decode to an object no generation made. The
  provider's sizes satisfy it: private encodings 4032 and 4912 bytes, public
  encodings 1984, 2017 and 2689. `MCCompositeKeyRefinement` states it as the
  assumption `MCSizesSeparated` for the stand-in sizes, so TLC evaluates it
  on every run of that instance.

The refinement mapping reads a key's identity from its bytes, so it needs
to know that every byte string in the model comes from a generation. The
inductive invariant is `RInv == TypeOK /\ KeysGenerated /\ WireGenerated`:

- every initialized object is exactly the object generation `g` made for
  its role and algorithm, for some `g <= gen`;
- every buffer on the wire is the encoding of such an object.

TLC checked `RInv` as an invariant on the refinement instance and on
`composite_keys` before it was proved. The argument:

1. Generation makes a fresh, well-sized object (`GenObjGenerated`).
   Raising `gen` changes no abstract key (`AbsKeyStable`, `WireIdStable`).
2. A decode that passes the length check gets back, by `SizesSeparated`,
   the very encoding it was handed, under the same role and split. So it
   yields the object of that generation under the tag it was decoded with
   (`DecodeOfWire`).
3. A completed copy moves a whole generated object. `SecureClear` makes
   the object uninitialized.

`StepRefines` then maps each step:

| Concrete step | Abstract step |
|---|---|
| a successful `GenKeypair` | `AGen` |
| a successful `Decode` | `AImport` of the exported triple |
| `Encode` of an initialized object | `AExport` |
| `SecureClear` | `AClear` |
| `CopyAssign` | `ACopy` |
| failures, `Sign`, `Verify`, `ValidateKey` | stutter |

`InitRefines` maps the initial state to `AInit`.

Only TLC checks the following:

- `ErrorKindsDistinct`;
- the violation runs.

TLAPS cannot reason about liveness or ENABLED, about what a recursive
definition computes for every input, or within modules that declare
RECURSIVE. None of the proved modules uses recursion.

## Not modelled

- **X25519**: only declarations are in this source.
- **HKDF and the cmocka tests**: test drivers with no state of the layer.
- **The providers' internals**: the EC and lattice arithmetic. This is out of
  scope per the spec.
- **The signature and verification algorithms**: the functions are stubs. The
  header's `sign`/`verify` signatures do not match the definitions in the cpp
  file (h 91 vs cpp 311, h 127 vs cpp 373).
- **Concurrent use of one object**: spec section 5 makes concurrent
  mutation of one object undefined and the caller's responsibility, and the
  code has no synchronization, so there is no code of the layer to model.
- **The indeterminate `pk_alg_` as arbitrary bits**: it is a choice among
  the named tags in `DefaultTags`, not every bit pattern. No operation reads
  the tag of an uninitialized object except `operator=`, which copies it.

## Plan for later work

1. A refinement run over two key structs, with a cheaper mapping (for
   example, keeping the generation number as a history variable).
2. The signing path, once `sign` and `verify` are more than stubs.
