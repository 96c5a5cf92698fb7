-------------------------------- MODULE MCHttp --------------------------------
(***************************************************************************)
(* An instance of CustodyHttpRaces for TLC: tenants t1 and t2, users u1    *)
(* and u2 of t1, a workload of each tenant, and one that may only read.    *)
(***************************************************************************)
EXTENDS CustodyHttpRaces, TLC

CONSTANTS k1, k2, k3, b1, t1, t2, u1, u2, w1, w2, x1, user1, work1, work2, reader, junk

MCTenantOf == [x \in {k1, k2, k3, b1} |-> IF x = k3 THEN t2 ELSE t1]

Principal(subject, tenant, actions) ==
  [subject |-> subject, tenant |-> tenant, actions |-> actions]
MCAuthority ==
  [side \in {"user", "workload"} |->
    [token \in Token |->
       CASE side = "user" /\ token = user1 ->
              Principal(u1, t1, {"secret:revoke", "secret:delete"})
         [] side = "workload" /\ token = work1 -> Principal(w1, t1, {"*"})
         [] side = "workload" /\ token = work2 -> Principal(w2, t2, {"*"})
         [] side = "workload" /\ token = reader -> Principal(w1, t1, {"secret:read_value"})
         [] OTHER -> NoPrincipal]]

PutBy(token, r, o) ==
  [route |-> "workload_put", token |-> token, ref |-> r, owner |-> o,
   disclosure |-> "WorkloadOnly", value |-> x1]
OnRef(route, token, r) == [route |-> route, token |-> token, ref |-> r]
OnBatch(route, token) == [route |-> route, token |-> token, batch |-> b1]
PutMutation(r, o) ==
  [kind |-> "put", ref |-> r, owner |-> o, disclosure |-> "WorkloadOnly", value |-> x1]
PrepareBy(token, r, o) ==
  [route |-> "workload_prepare", token |-> token, batch |-> b1, muts |-> <<PutMutation(r, o)>>]

\* Every route.  k1 is put for u1, for u2 and for the workload that puts it,
\* k2 for the workload, k3 for u2.
MCRequests ==
  {PutBy(work1, k1, u1), PutBy(work1, k1, NoOwner), PutBy(work1, k2, NoOwner), PutBy(work2, k3, u2),
   PutBy(work2, k1, u1), PutBy(user1, k1, u1),
   OnRef("user_revoke", user1, k1), OnRef("user_delete", user1, k1),
   OnRef("user_delete", user1, k2), OnRef("user_revoke", user1, k3),
   OnRef("user_revoke", junk, k1),
   OnRef("workload_get", reader, k1), OnRef("workload_delete", reader, k1),
   OnRef("workload_delete", work1, k1),
   PrepareBy(work1, k1, u2), PrepareBy(work1, k3, u2),
   OnBatch("workload_commit", work1), OnBatch("workload_commit", work2),
   OnBatch("workload_abort", work1)}

CallSymmetry == Permutations(Call)
=============================================================================
