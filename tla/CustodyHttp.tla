----------------------------- MODULE CustodyHttp -----------------------------
(***************************************************************************)
(* The handlers of crates/secrets-http in front of the SecretStore port    *)
(* (Custody).  A handler asks an authority whom the bearer token stands    *)
(* for, checks the route's action and the addressed tenant, on the user    *)
(* routes lists the caller's secrets to see that it owns the one it names, *)
(* and only then calls the store: each await is a step, and other requests *)
(* run in between.                                                         *)
(***************************************************************************)
EXTENDS Integers, Sequences

CONSTANTS
  Call, Ref, Batch, Lifetime, MalformedRef, TenantOf, NoRow, NoValue,
  Token,        \* bearer tokens
  Authority,    \* [side -> [Token -> principal]]: what each authority answers
  NoPrincipal,  \* a token the authority refuses
  NoOwner,      \* an empty owner_subject
  Requests,     \* the requests clients send
  MaxCalls,     \* bound: requests sent
  MaxClock      \* bound: the clock

\* The mutations that batches are made of.
Mutation ==
  UNION {{rq.muts[i] : i \in DOMAIN rq.muts} :
         rq \in {q \in Requests : q.route = "workload_prepare"}}

VARIABLES
  store, batches, pending, since, reply, clock, \* the port, see Custody
  http,         \* the handler in each slot: its stage, its request, its principal
  answer,       \* the last status of each slot
  calls         \* requests sent, for the bound

Port == INSTANCE Custody WITH Requests <- {}

port == <<store, batches, pending, since, reply, clock>>
vars == <<port, http, answer, calls>>

UserRoute == {"user_revoke", "user_delete"}
BatchRoute == {"workload_prepare", "workload_commit", "workload_abort"}
Side(route) == IF route \in UserRoute THEN "user" ELSE "workload"

Route ==
  UserRoute \cup BatchRoute \cup {"workload_put", "workload_get", "workload_delete"}

ASSUME HttpAssumption ==
  /\ \A rq \in Requests :
       /\ rq.route \in Route
       /\ IF rq.route \in BatchRoute THEN rq.batch \in Batch ELSE rq.ref \in Ref
       /\ rq.route = "workload_prepare" => rq.muts \in Seq(Mutation)
  /\ \A m \in Mutation : m.ref \in Ref /\ m.kind \in {"put", "delete"}

\* The action each handler names.
ActionOf ==
  [user_revoke |-> "secret:revoke", user_delete |-> "secret:delete",
   workload_put |-> "secret:write", workload_get |-> "secret:read_value",
   workload_delete |-> "secret:delete", workload_prepare |-> "secret:prepare",
   workload_commit |-> "secret:commit", workload_abort |-> "secret:abort"]

\* Principal::permits.
permits(principal, action) == principal.actions \cap {action, "*"} # {}

\* The tenant a request addresses: of its reference, or in its path.
Addressed(rq) == TenantOf[IF rq.route \in BatchRoute THEN rq.batch ELSE rq.ref]
AnyTenant(principal, rq) == TRUE  \* mutant
tenant_match(principal, rq) == principal.tenant = Addressed(rq)

\* The store call a handler makes.
StoreCall(rq, principal) ==
  CASE rq.route = "workload_put" ->
         [op |-> "put",
          muts |-> <<[kind |-> "put", ref |-> rq.ref, disclosure |-> rq.disclosure,
                      value |-> rq.value,
                      owner |-> IF rq.owner = NoOwner THEN principal.subject ELSE rq.owner]>>]
    [] rq.route = "workload_get" -> [op |-> "get", ref |-> rq.ref]
    [] rq.route \in {"user_delete", "workload_delete"} ->
         [op |-> "delete", muts |-> <<[kind |-> "delete", ref |-> rq.ref]>>]
    [] rq.route = "user_revoke" ->
         [op |-> "revoke", muts |-> <<[kind |-> "revoke", ref |-> rq.ref]>>]
    [] rq.route = "workload_prepare" ->
         [op |-> "prepare", batch |-> rq.batch, muts |-> rq.muts]
    [] rq.route = "workload_commit" -> [op |-> "commit", batch |-> rq.batch]
    [] rq.route = "workload_abort" -> [op |-> "abort", batch |-> rq.batch]

\* From<StoreError>: the outcome a client is told.
Outcome(code) ==
  CASE code = "Ok" -> "ok"
    [] code = "NotFound" -> "not-found"
    [] code = "DeleteTargetMissing" -> "delete-target-missing"
    [] code = "Conflict" -> "duplicate"
    [] code = "Invalid" -> "invalid"
    [] code \in {"Unavailable", "Crypto"} -> "unavailable"

NoHandler == [stage |-> "idle"]
Handler(stage, rq, principal) == [stage |-> stage, request |-> rq, principal |-> principal]

Init ==
  /\ Port!Init
  /\ http = [c \in Call |-> NoHandler]
  /\ answer = [c \in Call |-> "none"]
  /\ calls = 0

Finish(c, outcome) ==
  /\ http' = [http EXCEPT ![c] = NoHandler]
  /\ answer' = [answer EXCEPT ![c] = outcome]
  /\ UNCHANGED calls
Go(c, stage, principal) ==
  /\ http' = [http EXCEPT ![c] = Handler(stage, @.request, principal)]
  /\ UNCHANGED <<answer, calls>>

Receive(c) ==
  /\ http[c].stage = "idle"
  /\ calls < MaxCalls
  /\ \E rq \in Requests : http' = [http EXCEPT ![c] = Handler("verify", rq, NoPrincipal)]
  /\ answer' = [answer EXCEPT ![c] = "none"]
  /\ calls' = calls + 1
  /\ UNCHANGED port

\* authorize and authorize_ref: 401, then the action, then the tenant.
Authorize(c) ==
  LET rq == http[c].request
      principal == Authority[Side(rq.route)][rq.token]
  IN  /\ http[c].stage = "verify"
      /\ \/ principal = NoPrincipal /\ Finish(c, "unauthorized")
         \/ /\ principal # NoPrincipal
            /\ \/ ~permits(principal, ActionOf[rq.route]) /\ Finish(c, "missing-action")
               \/ /\ permits(principal, ActionOf[rq.route])
                  /\ \/ ~tenant_match(principal, rq) /\ Finish(c, "forbidden")
                     \/ /\ tenant_match(principal, rq)
                        /\ Go(c, IF rq.route \in UserRoute THEN "owner" ELSE "call", principal)
      /\ UNCHANGED port
AuthorityUnavailable(c) ==
  /\ http[c].stage = "verify"
  /\ Finish(c, "unavailable")
  /\ UNCHANGED port

\* The reference is among what list(tenant, Some(subject)) answers.
ListedForAnyOwner(principal, r) ==  \* mutant
  store[r] # NoRow /\ TenantOf[r] = principal.tenant
Listed(principal, r) ==
  store[r] # NoRow /\ TenantOf[r] = principal.tenant /\ store[r].owner = principal.subject

\* assert_owner.
AssertOwner(c) ==
  /\ http[c].stage = "owner"
  /\ LET principal == http[c].principal
         r == http[c].request.ref
     IN  \/ Listed(principal, r) /\ Go(c, "call", principal)
         \/ ~Listed(principal, r) /\ Finish(c, "not-owned")
  /\ UNCHANGED port
ListUnavailable(c) ==
  /\ http[c].stage = "owner"
  /\ Finish(c, "unavailable")
  /\ UNCHANGED port

CallStore(c) ==
  /\ http[c].stage = "call"
  /\ Port!Ask(c, StoreCall(http[c].request, http[c].principal))
  /\ Go(c, "store", http[c].principal)
Respond(c) ==
  /\ http[c].stage = "store"
  /\ pending[c] = Port!NoRequest
  /\ Finish(c, Outcome(reply[c].code))
  /\ UNCHANGED port

Next ==
  \/ \E c \in Call : \/ Receive(c) \/ Authorize(c) \/ AuthorityUnavailable(c)
                     \/ AssertOwner(c) \/ ListUnavailable(c) \/ CallStore(c) \/ Respond(c)
  \/ /\ \/ \E c \in Call :
              \/ Port!Restamp(c) \/ Port!Mutate(c) \/ Port!Get(c) \/ Port!Prepare(c)
              \/ Port!Commit(c) \/ Port!Abort(c) \/ Port!Refuse(c) \/ Port!Lapse(c)
        \/ Port!Forget
        \/ clock < MaxClock /\ Port!Tick
     /\ UNCHANGED <<http, answer, calls>>

Spec == Init /\ [][Next]_vars

-----------------------------------------------------------------------------
(* Properties *)

\* The store call of c ends in this step.
Ends(c) == pending[c] # Port!NoRequest /\ pending'[c] = Port!NoRequest
Changes(r) == store'[r] # store[r]

\* A secret changes only through a request whose token the authority of that
\* side vouches for, with the action of the route, in the tenant of the very
\* secret that changes: also when the mutation was prepared by one request,
\* sealed, and committed by another.
EffectsAuthorized ==
  [][\A r \in Ref : Changes(r) =>
       \E c \in Call :
         /\ Ends(c)
         /\ LET rq == http[c].request
                principal == Authority[Side(rq.route)][rq.token]
            IN  /\ principal # NoPrincipal
                /\ permits(principal, ActionOf[rq.route])
                /\ principal.tenant = TenantOf[r]]_vars
=============================================================================
