------------------------------- MODULE Custody -------------------------------
(***************************************************************************)
(* What the SecretStore port (crates/secrets-core) promises its callers,   *)
(* in one step per call: a secret is an owner, a disclosure, a state and   *)
(* the values of its versions 1..n; a prepared batch waits under its key.  *)
(* A call takes effect at most once and at one instant between its start   *)
(* and its reply.  Every reply but Unavailable tells which of the two      *)
(* happened: Ok that it took effect, an error that nothing changed.        *)
(* There are no keys, envelopes, row ids, locks or transactions here.      *)
(***************************************************************************)
EXTENDS Integers, Sequences

CONSTANTS
  Call, Ref, Batch, Requests, Lifetime,
  MalformedRef,   \* references a put refuses
  TenantOf,       \* the tenant of a reference and of a batch
  MaxClock,       \* bound: the clock
  NoRow, NoValue

VARIABLES
  store,     \* [Ref -> a secret or NoRow]
  batches,   \* [Batch -> a prepared batch or NoRow]
  pending,   \* the request of each call in flight
  since,     \* when a call in flight started, or restarted its clock
  reply,     \* what each slot's last call answered
  clock

vars == <<store, batches, pending, since, reply, clock>>

NoRequest == [op |-> "none"]
Answer(code) == [code |-> code, version |-> 0, value |-> NoValue]

\* One mutation on a store that it applies to.
Applies(st, m) == m.kind = "put" \/ st[m.ref] # NoRow
ApplyOne(st, m) ==
  LET before == st[m.ref]
  IN  [st EXCEPT ![m.ref] =
         CASE m.kind = "put" ->
                [owner |-> m.owner, disclosure |-> m.disclosure, state |-> "active",
                 values |-> IF before = NoRow THEN <<m.value>> ELSE Append(before.values, m.value)]
           [] m.kind = "delete" -> NoRow
           [] m.kind = "revoke" -> [before EXCEPT !.state = "revoked"]]

\* The stores a sequence of mutations goes through, each from the one before.
Stages(st, muts) ==
  LET after[n \in 0 .. Len(muts)] ==
        IF n = 0 THEN st ELSE ApplyOne(after[n - 1], muts[n])
  IN  after
AllApply(st, muts) ==
  \A n \in DOMAIN muts :
    /\ muts[n].kind = "put" => muts[n].ref \notin MalformedRef
    /\ Applies(Stages(st, SubSeq(muts, 1, n - 1))[n - 1], muts[n])
ApplyAll(st, muts) == Stages(st, muts)[Len(muts)]

Init ==
  /\ store = [r \in Ref |-> NoRow]
  /\ batches = [b \in Batch |-> NoRow]
  /\ pending = [c \in Call |-> NoRequest]
  /\ since = [c \in Call |-> 0]
  /\ reply = [c \in Call |-> Answer("Ok")]
  /\ clock = 0

Ask(c, rq) ==
  /\ pending[c] = NoRequest
  /\ pending' = [pending EXCEPT ![c] = rq]
  /\ since' = [since EXCEPT ![c] = clock]
  /\ UNCHANGED <<store, batches, reply, clock>>
Invoke(c) == \E rq \in Requests : Ask(c, rq)

\* A commit takes its time from its transaction, which begins after the call.
Restamp(c) ==
  /\ pending[c].op \in {"commit", "rewrap"}
  /\ since' = [since EXCEPT ![c] = clock]
  /\ UNCHANGED <<store, batches, pending, reply, clock>>

Return(c, r) ==
  /\ pending' = [pending EXCEPT ![c] = NoRequest]
  /\ since' = [since EXCEPT ![c] = 0]
  /\ reply' = [reply EXCEPT ![c] = r]
  /\ UNCHANGED clock

\* The call took effect: it says so, or its caller lost the answer.
Done(c, version) ==
  \E r \in {[Answer("Ok") EXCEPT !.version = version], Answer("Unavailable")} : Return(c, r)

\* put, delete and revoke.
Mutate(c) ==
  LET rq == pending[c]
      r == rq.muts[1].ref
  IN  /\ rq.op \in {"put", "delete", "revoke"}
      /\ AllApply(store, rq.muts)
      /\ store' = ApplyAll(store, rq.muts)
      /\ Done(c, IF store'[r] = NoRow THEN 0 ELSE Len(store'[r].values))
      /\ UNCHANGED batches

\* get answers the newest value of an active secret.
Newest(s) == [code |-> "Ok", version |-> Len(s.values), value |-> s.values[Len(s.values)]]
Get(c) ==
  /\ pending[c].op = "get"
  /\ LET s == store[pending[c].ref]
     IN  \/ /\ s # NoRow /\ s.state = "active"
            /\ Return(c, Newest(s))
         \/ /\ s = NoRow \/ (s # NoRow /\ s.state = "revoked")
            /\ Return(c, Answer("NotFound"))
  /\ UNCHANGED <<store, batches>>

SameTenant(rq) == \A i \in DOMAIN rq.muts : TenantOf[rq.muts[i].ref] = TenantOf[rq.batch]

Prepare(c) ==
  LET rq == pending[c]
      expiry == since[c] + Lifetime
  IN  /\ rq.op = "prepare"
      /\ rq.muts # <<>> /\ SameTenant(rq)
      /\ batches[rq.batch] = NoRow
      /\ batches' = [batches EXCEPT ![rq.batch] =
                       [column |-> expiry, sealed |-> expiry, muts |-> rq.muts]]
      /\ Done(c, 0)
      /\ UNCHANGED store

\* Every mutation of the batch or none, once, and not when its transaction
\* began at or after either of the batch's expiries.
Commit(c) ==
  LET b == pending[c].batch
  IN  /\ pending[c].op = "commit"
      /\ batches[b] # NoRow
      /\ since[c] < batches[b].column /\ since[c] < batches[b].sealed
      /\ AllApply(store, batches[b].muts)
      /\ store' = ApplyAll(store, batches[b].muts)
      /\ batches' = [batches EXCEPT ![b] = NoRow]
      /\ Done(c, 0)

Abort(c) ==
  /\ pending[c].op = "abort"
  /\ batches[pending[c].batch] # NoRow
  /\ clock < batches[pending[c].batch].column
  /\ batches' = [batches EXCEPT ![pending[c].batch] = NoRow]
  /\ Done(c, 0)
  /\ UNCHANGED store

\* A rewrap that succeeds changes no secret, only forgets batches that had
\* expired when it looked.
Expired(time) == {b \in Batch : batches[b] # NoRow /\ batches[b].column <= time}
Without(gone) == [b \in Batch |-> IF b \in gone THEN NoRow ELSE batches[b]]
Rewrap(c) ==
  /\ pending[c].op = "rewrap"
  /\ \E gone \in SUBSET Expired(since[c]) : batches' = Without(gone)
  /\ \E r \in {[Answer("Ok") EXCEPT !.version = reply'[c].version], Answer("Unavailable")} :
       Return(c, r)
  /\ UNCHANGED store

\* The errors a call may answer where it changes nothing.
Malformed(muts) ==
  \E i \in DOMAIN muts : muts[i].kind = "put" /\ muts[i].ref \in MalformedRef
Deletes(muts) == \E i \in DOMAIN muts : muts[i].kind = "delete"
Reason(rq, code) ==
  \/ code = "Unavailable"
  \/ code = "NotFound" /\ rq.op \in {"delete", "revoke", "commit", "abort"}
  \/ code = "Crypto" /\ rq.op \in {"get", "rewrap"}
  \/ code = "Invalid" /\ rq.op = "put" /\ Malformed(rq.muts)
  \/ code = "Invalid" /\ rq.op = "prepare" /\ (rq.muts = <<>> \/ ~SameTenant(rq))
  \/ code = "Conflict" /\ rq.op = "prepare" /\ batches[rq.batch] # NoRow
  \/ /\ rq.op = "commit" /\ batches[rq.batch] # NoRow
     /\ \/ code = "Invalid" /\ Malformed(batches[rq.batch].muts)
        \/ code = "DeleteTargetMissing" /\ Deletes(batches[rq.batch].muts)
Refuse(c) ==
  /\ pending[c] # NoRequest
  /\ \E code \in {"Unavailable", "NotFound", "Crypto", "Invalid", "Conflict",
                  "DeleteTargetMissing"} :
       Reason(pending[c], code) /\ Return(c, Answer(code))
  /\ UNCHANGED <<store, batches>>

\* A commit that comes after the sealed expiry is the end of the batch.
Lapse(c) ==
  /\ pending[c].op = "commit"
  /\ batches[pending[c].batch] # NoRow
  /\ batches[pending[c].batch].sealed <= since[c]
  /\ batches' = Without({pending[c].batch})
  /\ \E code \in {"NotFound", "Unavailable"} : Return(c, Answer(code))
  /\ UNCHANGED store

\* Expired batches of one tenant, and only those, are forgotten at any time.
Forget ==
  /\ \E c \in Call :
       /\ pending[c].op \in {"prepare", "commit"}
       /\ batches' = Without({b \in Expired(clock) : TenantOf[b] = TenantOf[pending[c].batch]})
  /\ UNCHANGED <<store, pending, since, reply, clock>>

\* An administrator rewrites the expiry column of a batch.
RewriteExpiry ==
  /\ \E b \in Batch, time \in {0, MaxClock + 1} :
       batches[b] # NoRow /\ batches' = [batches EXCEPT ![b].column = time]
  /\ UNCHANGED <<store, pending, since, reply, clock>>

Tick == clock' = clock + 1 /\ UNCHANGED <<store, batches, pending, since, reply>>

Next ==
  \/ \E c \in Call : \/ Invoke(c) \/ Restamp(c) \/ Mutate(c) \/ Get(c) \/ Prepare(c)
                     \/ Commit(c) \/ Abort(c) \/ Rewrap(c) \/ Refuse(c) \/ Lapse(c)
  \/ Forget \/ RewriteExpiry \/ Tick

Spec == Init /\ [][Next]_vars
=============================================================================
