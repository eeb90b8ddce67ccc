------------------------------ MODULE KeyStore ------------------------------
(***************************************************************************)
(* What the composite key layer promises its caller (spec sections 2, 4.2, *)
(* 6 and 8), with no bytes: every key struct holds, per role, either no    *)
(* usable key or the key of one generated key pair, tagged with the        *)
(* algorithm it is used under.  A key pair is named by the number of the   *)
(* gen_keypair call that produced it.                                      *)
(*                                                                         *)
(*   - generating fills both roles of a struct with a fresh pair;          *)
(*   - encoding hands out the (role, algorithm, pair) of a usable key;     *)
(*   - decoding yields a key only from an encoding handed out before, for  *)
(*     the same role and an algorithm of the same encoded size, and it is  *)
(*     the same pair: decode(encode(k)) reproduces k's key material;       *)
(*   - secure_clear makes the private key unusable;                        *)
(*   - a copy duplicates a struct's key of one role.                       *)
(* Every other call (every failure in particular) leaves the keys alone.   *)
(***************************************************************************)
EXTENDS CompositeParams

CONSTANTS
  KeySlots,  \* the key structs of the caller
  MaxGen     \* bound on the key pairs generated

VARIABLES
  akeys,     \* akeys[<<k, r>>]: Absent, or the [alg, id] of a usable key
  agen,      \* key pairs generated so far
  exported   \* the (role, alg, id) of every encoding handed out

avars == <<akeys, agen, exported>>

(* A struct role that holds no usable key (a record, like the keys, with   *)
(* the pair 0 that no generation makes).                                   *)
Absent == [alg |-> "none", id |-> 0]

AKey == [alg : CompositeAlgs, id : Nat]

AInit ==
  /\ akeys = [kr \in KeySlots \X Roles |-> Absent]
  /\ agen = 0
  /\ exported = {}

AGen(k, a) ==
  /\ SizeDefined(a)
  /\ agen < MaxGen
  /\ agen' = agen + 1
  /\ akeys' = [akeys EXCEPT ![<<k, "priv">>] = [alg |-> a, id |-> agen + 1],
                            ![<<k, "pub">>] = [alg |-> a, id |-> agen + 1]]
  /\ UNCHANGED exported

AExport(k, r) ==
  /\ akeys[<<k, r>>] # Absent
  /\ exported' = exported \cup {[role |-> r, alg |-> akeys[<<k, r>>].alg,
                                 id |-> akeys[<<k, r>>].id]}
  /\ UNCHANGED <<akeys, agen>>

(* Decoding an encoding x handed out before (ANext draws it from          *)
(* exported) under algorithm a: the role and the sizes must agree.         *)
AImport(k, r, x, a) ==
  /\ x.role = r
  /\ SizeDefined(a)
  /\ encoded_size(r, a) = encoded_size(r, x.alg)
  /\ UNCHANGED <<agen, exported>>
  /\ akeys' = [akeys EXCEPT ![<<k, r>>] = [alg |-> a, id |-> x.id]]

AClear(k) ==
  /\ UNCHANGED <<agen, exported>>
  /\ akeys' = [akeys EXCEPT ![<<k, "priv">>] = Absent]

ACopy(k1, k2, r) ==
  /\ UNCHANGED <<agen, exported>>
  /\ akeys' = [akeys EXCEPT ![<<k1, r>>] = akeys[<<k2, r>>]]

ANext ==
  \E k \in KeySlots :
     \/ \E a \in CompositeAlgs : AGen(k, a)
     \/ \E r \in Roles : AExport(k, r)
     \/ \E r \in Roles, x \in exported, a \in CompositeAlgs : AImport(k, r, x, a)
     \/ AClear(k)
     \/ \E k2 \in KeySlots, r \in Roles : ACopy(k, k2, r)

ASpec == AInit /\ [][ANext]_avars

=============================================================================
