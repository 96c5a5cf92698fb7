------------------------------- MODULE MCStore -------------------------------
(***************************************************************************)
(* Instances of PostgresStore for TLC.  Each run chooses the calls made.   *)
(***************************************************************************)
EXTENDS PostgresStoreRefinement

CONSTANTS c1, c2, c3, k1, k2, bad, b1, b2, b3, t1, t2, u1, u2, x1, x2, old, new

PutOf(r, o, d, v) == [kind |-> "put", ref |-> r, owner |-> o, disclosure |-> d, value |-> v]
DeleteOf(r) == [kind |-> "delete", ref |-> r]
Single(op, m) == [op |-> op, muts |-> <<m>>]
Put(r, o, d, v) == Single("put", PutOf(r, o, d, v))
Delete(r) == Single("delete", DeleteOf(r))
Revoke(r) == Single("revoke", [kind |-> "revoke", ref |-> r])
GetOf(r) == [op |-> "get", ref |-> r]
PrepareOf(b, muts) == [op |-> "prepare", batch |-> b, muts |-> muts]
CommitOf(b) == [op |-> "commit", batch |-> b]
AbortOf(b) == [op |-> "abort", batch |-> b]

MCTenantOf == [x \in {k1, k2, bad, b1, b2, b3} |-> IF x = b2 THEN t2 ELSE t1]

\* One key, held by every process.
OneKey == [c \in Call |-> [active |-> new, keys |-> {new}]]

\* A put, a delete and a revoke race for one reference.
RowRequests ==
  {Put(k1, u2, "UserRevealable", x2), Delete(k1), Revoke(k1)}

\* One batch that replaces a secret and deletes another, with single calls on
\* both, and its expiry.
BatchRequests ==
  {PrepareOf(b1, <<DeleteOf(k1), PutOf(k1, u1, "WorkloadOnly", x1)>>),
   PrepareOf(b1, <<PutOf(k1, u1, "WorkloadOnly", x2), DeleteOf(k1)>>),
   PrepareOf(b1, <<>>), PrepareOf(b2, <<DeleteOf(k1)>>),
   PrepareOf(b1, <<PutOf(bad, u1, "WorkloadOnly", x1)>>),
   CommitOf(b1), AbortOf(b1),
   Put(k1, u1, "WorkloadOnly", x2), Put(bad, u1, "WorkloadOnly", x1), Delete(k1), GetOf(k1)}

\* With them, two batches that take the same rows in opposite orders.
CrossingRequests ==
  {PrepareOf(b1, <<PutOf(k1, u1, "WorkloadOnly", x1), PutOf(k2, u1, "WorkloadOnly", x1)>>),
   PrepareOf(b3, <<PutOf(k2, u1, "WorkloadOnly", x2), PutOf(k1, u1, "WorkloadOnly", x2)>>),
   CommitOf(b1), CommitOf(b3)}
CallRequests == RowRequests \cup CrossingRequests

\* A process that was not restarted yet, and one that was, in a rotation.  The
\* disclosure of a reference never changes.
MixedKeys == [c \in Call |-> IF c = c1 THEN [active |-> old, keys |-> {old}]
                                       ELSE [active |-> new, keys |-> {old, new}]]
RewrapRequests ==
  {Put(k1, u1, "WorkloadOnly", x1), Delete(k1), GetOf(k1), [op |-> "rewrap"],
   PrepareOf(b1, <<PutOf(k2, u1, "UserRevealable", x2), PutOf(k1, u1, "WorkloadOnly", x2)>>),
   CommitOf(b1), AbortOf(b1)}

\* Two processes that hold both keys.
BothKeys == [c \in Call |-> [active |-> IF c = c1 THEN old ELSE new, keys |-> {old, new}]]

\* The disclosure of a secret changes between two of its versions.
DisclosureRequests ==
  {Put(k1, u1, "WorkloadOnly", x1), Put(k1, u1, "UserRevealable", x1), [op |-> "rewrap"]}

=============================================================================
