----------------------------- MODULE MCKyberKem -----------------------------
(* Model-checking instance of KyberKem: two key pairs, which covers a pair *)
(* of each parameter set and two pairs of the same set (a ciphertext for   *)
(* the other key at the right length), and two encapsulations.             *)
EXTENDS KyberKem

=============================================================================
