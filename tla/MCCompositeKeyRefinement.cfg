CONSTANTS
  k1 = k1
  k2 = k2
  KeySlots <- MCRefKeySlots
  AlgInputs <- MCAlgInputs
  MaxGen = 1
  AllocMayFail = FALSE
  DefaultTags <- MCRefDefaultTags
  dilithium_privkey_size <- MCDilithiumPriv
  dilithium_pubkey_size <- MCDilithiumPub
  dilithium_signature_size <- MCDilithiumSig
SPECIFICATION Spec
PROPERTIES
  RefinesKeyStore
