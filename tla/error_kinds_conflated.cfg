CONSTANTS
  k1 = k1
  k2 = k2
  KeySlots <- MCKeySlots
  AlgInputs <- MCAlgInputs
  MaxGen = 1
  AllocMayFail = FALSE
  DefaultTags <- MCDefaultTags
  dilithium_privkey_size <- MCDilithiumPriv
  dilithium_pubkey_size <- MCDilithiumPub
  dilithium_signature_size <- MCDilithiumSig
SYMMETRY MCSymmetry
SPECIFICATION ErrSpec
INVARIANTS
  ErrorKindsDistinct
