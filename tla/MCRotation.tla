----------------------------- MODULE MCRotation -----------------------------
(***************************************************************************)
(* An instance of KeyRotation for TLC: two servers, two references whose   *)
(* disclosure never changes, one batch.                                    *)
(***************************************************************************)
EXTENDS KeyRotation, TLC

CONSTANTS s1, s2, op, k1, k2, b1, t1, u1, x1, old, new

PutOf(r, d) == [kind |-> "put", ref |-> r, owner |-> u1, disclosure |-> d, value |-> x1]
MCTenantOf == [x \in {k1, k2, b1} |-> t1]
OldKeyrings == [c \in Call |-> [active |-> old, keys |-> {old}]]

RotationRequests ==
  {[op |-> "put", muts |-> <<PutOf(k1, "WorkloadOnly")>>],
   [op |-> "delete", muts |-> <<[kind |-> "delete", ref |-> k1]>>],
   [op |-> "prepare", batch |-> b1,
    muts |-> <<PutOf(k2, "UserRevealable"), PutOf(k1, "WorkloadOnly")>>],
   [op |-> "commit", batch |-> b1]}
=============================================================================
