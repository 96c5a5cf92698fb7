--------------------------- MODULE CustodyHttpProofs ---------------------------
(***************************************************************************)
(* The properties of CustodyHttp and CustodyHttpRaces, for every set of    *)
(* requests and tokens, whatever the authorities answer and however the    *)
(* requests interleave.                                                    *)
(***************************************************************************)
EXTENDS CustodyHttpRaces, WellFoundedInduction, TLAPS

LEMMA LeastOf ==
  ASSUME NEW S \in SUBSET Nat, S # {}
  PROVE  \E m \in S : \A n \in S : m <= n
<1>1. PICK m \in S : \A n \in S : <<n, m>> \notin OpToRel(<, Nat)
  BY NatLessThanWellFounded, WFMin
<1>2. \A n \in S : ~(n < m)
  BY <1>1, Zenon DEF OpToRel
<1> QED BY <1>2

-----------------------------------------------------------------------------
(* The stores a batch goes through *)

After(f, st, muts, k) ==
  f = [n \in 0 .. k |-> IF n = 0 THEN st ELSE Port!ApplyOne(f[n - 1], muts[n])]

LEMMA AfterExists ==
  ASSUME NEW st, NEW muts
  PROVE  \A k \in Nat : \E f : After(f, st, muts, k)
<1> DEFINE without == {k \in Nat : ~ \E f : After(f, st, muts, k)}
<1> SUFFICES ASSUME without # {} PROVE FALSE
  OBVIOUS
<1>1. PICK k \in without : \A n \in without : k <= n
  BY LeastOf
<1>2. CASE k = 0
  <2>1. After([n \in 0 .. 0 |-> st], st, muts, 0)
    BY DEF After
  <2> QED BY <1>1, <1>2, <2>1
<1>3. CASE k # 0
  <2>1. k - 1 \in Nat /\ k - 1 \notin without
    BY <1>1, <1>3
  <2>2. PICK f : After(f, st, muts, k - 1)
    BY <2>1
  <2> DEFINE g == [n \in 0 .. k |-> IF n \in 0 .. k - 1 THEN f[n]
                                    ELSE Port!ApplyOne(f[k - 1], muts[k])]
  <2>3. \A n \in 0 .. k :
          g[n] = IF n = 0 THEN st ELSE Port!ApplyOne(g[n - 1], muts[n])
    <3> SUFFICES ASSUME NEW n \in 0 .. k
                 PROVE  g[n] = IF n = 0 THEN st ELSE Port!ApplyOne(g[n - 1], muts[n])
      OBVIOUS
    <3>1. CASE n \in 0 .. k - 1
      <4>1. f[n] = IF n = 0 THEN st ELSE Port!ApplyOne(f[n - 1], muts[n])
        BY <2>2, <3>1 DEF After
      <4>2. n # 0 => g[n - 1] = f[n - 1]
        BY <1>1, <3>1
      <4> QED BY <3>1, <4>1, <4>2
    <3>2. CASE n \notin 0 .. k - 1
      <4>1. n = k /\ g[n - 1] = f[k - 1]
        BY <1>1, <1>3, <3>2
      <4> QED BY <1>3, <3>2, <4>1
    <3> QED BY <3>1, <3>2
  <2> DEFINE h == [n \in 0 .. k |-> IF n = 0 THEN st ELSE Port!ApplyOne(g[n - 1], muts[n])]
  <2>4. g = h
    BY <2>3
  <2>5. After(g, st, muts, k)
    BY <2>4 DEF After
  <2> QED BY <1>1, <2>5
<1> QED BY <1>2, <1>3

\* Stages is the function its recursive equation defines.
LEMMA StagesUnfold ==
  ASSUME NEW st, NEW muts, Len(muts) \in Nat
  PROVE  After(Port!Stages(st, muts), st, muts, Len(muts))
<1> DEFINE h == CHOOSE f : f = [n \in 0 .. Len(muts) |->
                    IF n = 0 THEN st ELSE Port!ApplyOne(f[n - 1], muts[n])]
<1>1. Port!Stages(st, muts) = h
  BY Zenon DEF Port!Stages
<1>2. \E f : f = [n \in 0 .. Len(muts) |->
                    IF n = 0 THEN st ELSE Port!ApplyOne(f[n - 1], muts[n])]
  <2>1. PICK f : After(f, st, muts, Len(muts))
    BY AfterExists
  <2> QED BY <2>1 DEF After
<1>3. h = [n \in 0 .. Len(muts) |-> IF n = 0 THEN st ELSE Port!ApplyOne(h[n - 1], muts[n])]
  BY <1>2, Zenon
<1> HIDE DEF h
<1> QED BY <1>1, <1>3 DEF After

LEMMA StagesAt ==
  ASSUME NEW st, NEW muts, Len(muts) \in Nat
  PROVE  /\ Port!Stages(st, muts)[0] = st
         /\ \A n \in 1 .. Len(muts) :
              Port!Stages(st, muts)[n] = Port!ApplyOne(Port!Stages(st, muts)[n - 1], muts[n])
BY StagesUnfold DEF After

\* A batch leaves alone every secret that none of its mutations names.
LEMMA ApplyAllFrame ==
  ASSUME NEW st, NEW muts, Len(muts) \in Nat, DOMAIN st = Ref, NEW r \in Ref,
         \A n \in 1 .. Len(muts) : muts[n].ref # r
  PROVE  Port!ApplyAll(st, muts)[r] = st[r]
<1> DEFINE after == Port!Stages(st, muts)
           bad == {n \in 0 .. Len(muts) : ~(DOMAIN after[n] = Ref /\ after[n][r] = st[r])}
<1>1. /\ after[0] = st
      /\ \A n \in 1 .. Len(muts) : after[n] = Port!ApplyOne(after[n - 1], muts[n])
  BY StagesAt
<1> HIDE DEF after
<1>2. bad = {}
  <2> SUFFICES ASSUME bad # {} PROVE FALSE
    OBVIOUS
  <2> bad \in SUBSET Nat
    OBVIOUS
  <2>1. PICK n \in bad : \A m \in bad : n <= m
    BY LeastOf
  <2>2. n # 0
    BY <1>1, <2>1
  <2>3. n \in 1 .. Len(muts) /\ n - 1 \in 0 .. Len(muts) /\ n - 1 \notin bad
    BY <2>1, <2>2
  <2>4. DOMAIN after[n - 1] = Ref /\ after[n - 1][r] = st[r]
    BY <2>3
  <2>5. DOMAIN after[n] = Ref /\ after[n][r] = after[n - 1][r]
    BY <1>1, <2>3, <2>4 DEF Port!ApplyOne
  <2> QED BY <2>1, <2>4, <2>5
<1>3. after[Len(muts)][r] = st[r]
  BY <1>2
<1> QED BY <1>3 DEF after, Port!ApplyAll

LEMMA ApplyAllDomain ==
  ASSUME NEW st, NEW muts, Len(muts) \in Nat, DOMAIN st = Ref
  PROVE  DOMAIN Port!ApplyAll(st, muts) = Ref
<1> DEFINE after == Port!Stages(st, muts)
           bad == {n \in 0 .. Len(muts) : DOMAIN after[n] # Ref}
<1>1. /\ after[0] = st
      /\ \A n \in 1 .. Len(muts) : after[n] = Port!ApplyOne(after[n - 1], muts[n])
  BY StagesAt
<1> HIDE DEF after
<1>2. bad = {}
  <2> SUFFICES ASSUME bad # {} PROVE FALSE
    OBVIOUS
  <2> bad \in SUBSET Nat
    OBVIOUS
  <2>1. PICK n \in bad : \A m \in bad : n <= m
    BY LeastOf
  <2>2. n # 0
    BY <1>1, <2>1
  <2>3. n \in 1 .. Len(muts) /\ n - 1 \in 0 .. Len(muts) /\ n - 1 \notin bad
    BY <2>1, <2>2
  <2> QED BY <1>1, <2>1, <2>3 DEF Port!ApplyOne
<1> QED BY <1>2 DEF after, Port!ApplyAll

-----------------------------------------------------------------------------
(* The handlers *)

\* A request that has been admitted to its route, and by whom.
AdmittedBy(rq, principal) ==
  /\ rq \in Requests
  /\ principal = Authority[Side(rq.route)][rq.token] /\ principal # NoPrincipal
  /\ permits(principal, ActionOf[rq.route])
  /\ tenant_match(principal, rq)

Staged ==
  /\ DOMAIN http = Call
  /\ \A c \in Call :
       /\ http[c].stage \in {"idle", "verify", "owner", "call", "store"}
       /\ http[c].stage = "verify" => http[c].request \in Requests
       /\ http[c].stage \in {"owner", "call", "store"} =>
            AdmittedBy(http[c].request, http[c].principal)

\* The store works on a call only while its handler waits for it.
Waiting ==
  /\ DOMAIN pending = Call
  /\ \A c \in Call : pending[c] # Port!NoRequest =>
       /\ http[c].stage = "store"
       /\ pending[c] = StoreCall(http[c].request, http[c].principal)

\* What was sealed is of the tenant it was prepared under.
Sealed ==
  /\ DOMAIN store = Ref /\ DOMAIN batches = Batch
  /\ \A b \in Batch : batches[b] # NoRow =>
       /\ batches[b].muts \in Seq(Mutation)
       /\ \A n \in 1 .. Len(batches[b].muts) : TenantOf[batches[b].muts[n].ref] = TenantOf[b]

HttpInv == Staged /\ Waiting /\ Sealed

\* The store call of each route.
LEMMA StoreCallOf ==
  ASSUME NEW rq, NEW principal
  PROVE  LET call == StoreCall(rq, principal)
         IN  /\ rq.route = "workload_put" =>
                  call = [op |-> "put",
                          muts |-> <<[kind |-> "put", ref |-> rq.ref,
                                      disclosure |-> rq.disclosure, value |-> rq.value,
                                      owner |-> IF rq.owner = NoOwner THEN principal.subject
                                                ELSE rq.owner]>>]
             /\ rq.route = "workload_get" => call = [op |-> "get", ref |-> rq.ref]
             /\ rq.route \in {"user_delete", "workload_delete"} =>
                  call = [op |-> "delete", muts |-> <<[kind |-> "delete", ref |-> rq.ref]>>]
             /\ rq.route = "user_revoke" =>
                  call = [op |-> "revoke", muts |-> <<[kind |-> "revoke", ref |-> rq.ref]>>]
             /\ rq.route = "workload_prepare" =>
                  call = [op |-> "prepare", batch |-> rq.batch, muts |-> rq.muts]
             /\ rq.route = "workload_commit" => call = [op |-> "commit", batch |-> rq.batch]
             /\ rq.route = "workload_abort" => call = [op |-> "abort", batch |-> rq.batch]
<1>1. CASE rq.route = "workload_put"
  BY <1>1 DEF StoreCall
<1>2. CASE rq.route = "workload_get"
  BY <1>2 DEF StoreCall
<1>3. CASE rq.route \in {"user_delete", "workload_delete"}
  BY <1>3 DEF StoreCall
<1>4. CASE rq.route = "user_revoke"
  BY <1>4 DEF StoreCall
<1>5. CASE rq.route = "workload_prepare"
  BY <1>5 DEF StoreCall
<1>6. CASE rq.route = "workload_commit"
  BY <1>6 DEF StoreCall
<1>7. CASE rq.route = "workload_abort"
  BY <1>7 DEF StoreCall
<1> QED BY <1>1, <1>2, <1>3, <1>4, <1>5, <1>6, <1>7

\* What the store call of a handler can be.
LEMMA StoreCallIs ==
  ASSUME HttpInv, NEW c \in Call, pending[c] # Port!NoRequest
  PROVE  LET rq == http[c].request
             call == pending[c]
         IN  /\ AdmittedBy(rq, http[c].principal) /\ rq.route \in Route
             /\ call.op \in {"put", "get", "delete", "revoke", "prepare", "commit", "abort"}
             /\ call.op \in {"put", "delete", "revoke"} =>
                  /\ Len(call.muts) = 1 /\ call.muts[1].ref = rq.ref
                  /\ rq.ref \in Ref /\ rq.route \notin BatchRoute
             /\ call.op = "prepare" =>
                  /\ rq.route = "workload_prepare"
                  /\ call.batch = rq.batch /\ call.muts = rq.muts /\ rq.muts \in Seq(Mutation)
             /\ call.op \in {"prepare", "commit", "abort"} =>
                  /\ rq.route \in BatchRoute
                  /\ call.batch = rq.batch /\ rq.batch \in Batch
<1> DEFINE rq == http[c].request
           principal == http[c].principal
<1>1. /\ pending[c] = StoreCall(rq, principal)
      /\ AdmittedBy(rq, principal)
  BY SMTT(30) DEF HttpInv, Staged, Waiting
<1>2. /\ rq \in Requests /\ rq.route \in Route
      /\ IF rq.route \in BatchRoute THEN rq.batch \in Batch ELSE rq.ref \in Ref
      /\ rq.route = "workload_prepare" => rq.muts \in Seq(Mutation)
  BY <1>1, HttpAssumption DEF AdmittedBy
<1>3. CASE rq.route = "workload_put"
  <2> DEFINE put == [kind |-> "put", ref |-> rq.ref, disclosure |-> rq.disclosure,
                     value |-> rq.value,
                     owner |-> IF rq.owner = NoOwner THEN principal.subject ELSE rq.owner]
  <2>1. pending[c] = [op |-> "put", muts |-> <<put>>]
    BY <1>1, <1>3 DEF StoreCall
  <2>2. put.ref = rq.ref /\ rq.ref \in Ref /\ rq.route \notin BatchRoute
    BY <1>2, <1>3 DEF BatchRoute
  <2> HIDE DEF put
  <2> QED BY <1>1, <1>2, <1>3, <2>1, <2>2
<1>4. CASE rq.route = "workload_get"
  <2>1. pending[c] = [op |-> "get", ref |-> rq.ref]
    BY <1>1, <1>4 DEF StoreCall
  <2> QED BY <1>1, <1>2, <2>1
<1>5. CASE rq.route \in {"user_delete", "workload_delete"}
  <2> DEFINE delete == [kind |-> "delete", ref |-> rq.ref]
  <2>1. pending[c] = [op |-> "delete", muts |-> <<delete>>]
    BY <1>1, <1>5 DEF StoreCall
  <2>2. delete.ref = rq.ref /\ rq.ref \in Ref /\ rq.route \notin BatchRoute
    BY <1>2, <1>5 DEF BatchRoute
  <2> HIDE DEF delete
  <2> QED BY <1>1, <1>2, <1>5, <2>1, <2>2
<1>6. CASE rq.route = "user_revoke"
  <2> DEFINE revoke == [kind |-> "revoke", ref |-> rq.ref]
  <2>1. pending[c] = [op |-> "revoke", muts |-> <<revoke>>]
    BY <1>1, <1>6 DEF StoreCall
  <2>2. revoke.ref = rq.ref /\ rq.ref \in Ref /\ rq.route \notin BatchRoute
    BY <1>2, <1>6 DEF BatchRoute
  <2> HIDE DEF revoke
  <2> QED BY <1>1, <1>2, <1>6, <2>1, <2>2
<1>7. CASE rq.route = "workload_prepare"
  <2>1. pending[c] = [op |-> "prepare", batch |-> rq.batch, muts |-> rq.muts]
    BY <1>1, <1>7 DEF StoreCall
  <2>2. rq.route \in BatchRoute /\ rq.batch \in Batch /\ rq.muts \in Seq(Mutation)
    BY <1>2, <1>7 DEF BatchRoute
  <2> QED BY <1>1, <1>2, <1>7, <2>1, <2>2
<1>8. CASE rq.route \in {"workload_commit", "workload_abort"}
  <2>1. /\ pending[c].op \in {"commit", "abort"} /\ pending[c].batch = rq.batch
    BY <1>1, <1>8, StoreCallOf
  <2>2. rq.route \in BatchRoute /\ rq.batch \in Batch
    BY <1>2, <1>8 DEF BatchRoute
  <2> QED BY <1>1, <1>2, <2>1, <2>2
<1> QED BY <1>2, <1>3, <1>4, <1>5, <1>6, <1>7, <1>8 DEF Route, UserRoute, BatchRoute

-----------------------------------------------------------------------------
(* The invariant *)

LEMMA InitHttp == Init => HttpInv
<1> SUFFICES ASSUME Init PROVE HttpInv
  OBVIOUS
<1>1. Staged
  BY DEF Init, NoHandler, Staged
<1>2. Waiting
  BY DEF Init, Port!Init, Waiting
<1>3. Sealed
  BY DEF Init, Port!Init, Sealed
<1> QED BY <1>1, <1>2, <1>3 DEF HttpInv

\* What a handler is made of.
LEMMA HandlerFields ==
  ASSUME NEW stage, NEW rq, NEW principal
  PROVE  /\ Handler(stage, rq, principal).stage = stage
         /\ Handler(stage, rq, principal).request = rq
         /\ Handler(stage, rq, principal).principal = principal
BY DEF Handler

\* Staged is kept when one handler moves and stays well staged.
LEMMA StagedIn ==
  ASSUME Staged, NEW c \in Call,
         DOMAIN http' = Call, \A d \in Call \ {c} : http'[d] = http[d],
         http'[c].stage \in {"idle", "verify", "owner", "call", "store"},
         http'[c].stage = "verify" => http'[c].request \in Requests,
         http'[c].stage \in {"owner", "call", "store"} =>
           AdmittedBy(http'[c].request, http'[c].principal)
  PROVE  Staged'
<1>1. \A d \in Call \ {c} : http'[d] = http[d] /\ d \in Call
  OBVIOUS
<1> SUFFICES ASSUME NEW d \in Call
             PROVE  /\ http'[d].stage \in {"idle", "verify", "owner", "call", "store"}
                    /\ http'[d].stage = "verify" => http'[d].request \in Requests
                    /\ http'[d].stage \in {"owner", "call", "store"} =>
                         AdmittedBy(http'[d].request, http'[d].principal)
  BY DEF Staged, AdmittedBy
<1> QED BY <1>1 DEF Staged

\* A handler that stops, or goes on with the principal it has been admitted as.
LEMMA HandlerStep ==
  ASSUME HttpInv, NEW c \in Call,
         Receive(c) \/ Authorize(c) \/ AuthorityUnavailable(c) \/ AssertOwner(c)
           \/ ListUnavailable(c) \/ CallStore(c) \/ Respond(c)
  PROVE  HttpInv'
<1>1. /\ DOMAIN http = Call /\ DOMAIN pending = Call
      /\ http[c].stage # "store" => pending[c] = Port!NoRequest
  BY DEF HttpInv, Staged, Waiting
<1>2. ASSUME NEW outcome, Finish(c, outcome), UNCHANGED port, pending[c] = Port!NoRequest
      PROVE  HttpInv'
  <2>1. http' = [http EXCEPT ![c] = NoHandler] /\ UNCHANGED <<pending, store, batches>>
    BY <1>2 DEF Finish, port
  <2>2. Staged'
    BY <1>1, <2>1 DEF HttpInv, Staged, NoHandler
  <2>3. Waiting'
    BY <1>1, <1>2, <2>1 DEF HttpInv, Waiting
  <2> QED BY <2>1, <2>2, <2>3 DEF HttpInv, Sealed
<1>3. ASSUME NEW stage \in {"owner", "call"}, NEW principal, Go(c, stage, principal),
             UNCHANGED port, pending[c] = Port!NoRequest,
             AdmittedBy(http[c].request, principal)
      PROVE  HttpInv'
  <2>1. /\ http' = [http EXCEPT ![c] = Handler(stage, http[c].request, principal)]
        /\ UNCHANGED <<pending, store, batches>>
    BY <1>1, <1>3 DEF Go, port
  <2>2. /\ http'[c].stage = stage /\ http'[c].principal = principal
        /\ http'[c].request = http[c].request
        /\ DOMAIN http' = Call /\ \A d \in Call \ {c} : http'[d] = http[d]
    <3>1. http'[c] = Handler(stage, http[c].request, principal)
      BY <1>1, <2>1
    <3>2. DOMAIN http' = Call /\ \A d \in Call \ {c} : http'[d] = http[d]
      BY <1>1, <2>1
    <3> QED BY <3>1, <3>2, HandlerFields
  <2>3. Staged'
    <3>1. /\ http'[c].stage \in {"idle", "verify", "owner", "call", "store"}
          /\ http'[c].stage = "verify" => http'[c].request \in Requests
      BY <1>3, <2>2
    <3>2. http'[c].stage \in {"owner", "call", "store"} =>
            AdmittedBy(http'[c].request, http'[c].principal)
      BY <1>3, <2>2
    <3>3. Staged
      BY DEF HttpInv
    <3> QED BY <2>2, <3>1, <3>2, <3>3, StagedIn, Zenon
  <2>4. Waiting'
    BY <1>1, <1>3, <2>1, <2>2 DEF HttpInv, Waiting
  <2> QED BY <2>1, <2>3, <2>4 DEF HttpInv, Sealed
<1>4. CASE Receive(c)
  <2>1. PICK rq \in Requests : http' = [http EXCEPT ![c] = Handler("verify", rq, NoPrincipal)]
    BY <1>4 DEF Receive
  <2>2. /\ http'[c].stage = "verify" /\ http'[c].request = rq
        /\ DOMAIN http' = Call /\ \A d \in Call \ {c} : http'[d] = http[d]
    <3>1. http'[c] = Handler("verify", rq, NoPrincipal)
      BY <1>1, <2>1
    <3>2. DOMAIN http' = Call /\ \A d \in Call \ {c} : http'[d] = http[d]
      BY <1>1, <2>1
    <3> QED BY <3>1, <3>2, HandlerFields
  <2>3. http[c].stage = "idle" /\ UNCHANGED <<pending, store, batches>>
    BY <1>4 DEF Receive, port
  <2>4. Staged'
    <3>1. /\ http'[c].stage \in {"idle", "verify", "owner", "call", "store"}
          /\ http'[c].stage = "verify" => http'[c].request \in Requests
      BY <2>2
    <3>2. http'[c].stage \in {"owner", "call", "store"} =>
            AdmittedBy(http'[c].request, http'[c].principal)
      BY <2>2
    <3>3. Staged
      BY DEF HttpInv
    <3> QED BY <2>2, <3>1, <3>2, <3>3, StagedIn, Zenon
  <2>5. Waiting'
    BY <1>1, <2>2, <2>3, SMTT(30) DEF HttpInv, Waiting
  <2> QED BY <2>3, <2>4, <2>5 DEF HttpInv, Sealed
<1>5. CASE Authorize(c)
  <2> DEFINE rq == http[c].request
             principal == Authority[Side(rq.route)][rq.token]
  <2>1. rq \in Requests /\ pending[c] = Port!NoRequest /\ UNCHANGED port
    <3>1. http[c].stage = "verify" /\ UNCHANGED port
      BY <1>5, Zenon DEF Authorize
    <3>2. Staged
      BY DEF HttpInv
    <3> QED BY <1>1, <3>1, <3>2 DEF Staged
  <2>2. \/ \E outcome : Finish(c, outcome)
        \/ /\ principal # NoPrincipal /\ permits(principal, ActionOf[rq.route])
           /\ tenant_match(principal, rq)
           /\ \E stage \in {"owner", "call"} : Go(c, stage, principal)
    BY <1>5 DEF Authorize
  <2>3. CASE \E outcome : Finish(c, outcome)
    BY <1>2, <2>1, <2>3, Zenon
  <2>4. CASE /\ principal # NoPrincipal /\ permits(principal, ActionOf[rq.route])
             /\ tenant_match(principal, rq)
             /\ \E stage \in {"owner", "call"} : Go(c, stage, principal)
    <3>1. AdmittedBy(rq, principal)
      BY <2>1, <2>4, Zenon DEF AdmittedBy
    <3> QED BY <1>3, <2>1, <2>4, <3>1, Zenon
  <2> QED BY <2>2, <2>3, <2>4, Zenon
<1>6. CASE AuthorityUnavailable(c)
  BY <1>1, <1>2, <1>6 DEF AuthorityUnavailable
<1>7. CASE AssertOwner(c)
  <2>1. AdmittedBy(http[c].request, http[c].principal)
    BY <1>7 DEF AssertOwner, HttpInv, Staged
  <2> QED BY <1>1, <1>2, <1>3, <1>7, <2>1 DEF AssertOwner
<1>8. CASE ListUnavailable(c)
  BY <1>1, <1>2, <1>8 DEF ListUnavailable
<1>9. CASE CallStore(c)
  <2> DEFINE rq == http[c].request
             principal == http[c].principal
  <2>1. /\ http[c].stage = "call" /\ AdmittedBy(rq, principal)
        /\ pending' = [pending EXCEPT ![c] = StoreCall(rq, principal)]
        /\ http' = [http EXCEPT ![c] = Handler("store", rq, principal)]
        /\ UNCHANGED <<store, batches>>
    BY <1>1, <1>9 DEF CallStore, Port!Ask, Go, HttpInv, Staged
  <2>2. /\ http'[c].stage = "store" /\ http'[c].principal = principal /\ http'[c].request = rq
        /\ DOMAIN http' = Call /\ \A d \in Call \ {c} : http'[d] = http[d]
    <3>1. http'[c] = Handler("store", rq, principal)
      BY <1>1, <2>1
    <3>2. DOMAIN http' = Call /\ \A d \in Call \ {c} : http'[d] = http[d]
      BY <1>1, <2>1
    <3> QED BY <3>1, <3>2, HandlerFields
  <2>3. Staged'
    <3>1. /\ http'[c].stage \in {"idle", "verify", "owner", "call", "store"}
          /\ http'[c].stage = "verify" => http'[c].request \in Requests
      BY <2>1, <2>2
    <3>2. http'[c].stage \in {"owner", "call", "store"} =>
            AdmittedBy(http'[c].request, http'[c].principal)
      BY <2>1, <2>2
    <3>3. Staged
      BY DEF HttpInv
    <3> QED BY <2>2, <3>1, <3>2, <3>3, StagedIn, Zenon
  <2>4. Waiting'
    BY <1>1, <2>1, <2>2 DEF HttpInv, Waiting
  <2> QED BY <2>1, <2>3, <2>4 DEF HttpInv, Sealed
<1>10. CASE Respond(c)
  BY <1>2, <1>10 DEF Respond
<1> QED BY <1>4, <1>5, <1>6, <1>7, <1>8, <1>9, <1>10

\* Handlers stand still while the store works.
LEMMA StoreKeeps ==
  ASSUME HttpInv, UNCHANGED http, Sealed',
         DOMAIN pending' = Call,
         \A c \in Call : pending'[c] \in {pending[c], Port!NoRequest}
  PROVE  HttpInv'
BY DEF HttpInv, Staged, Waiting, AdmittedBy

LEMMA ReturnKeeps ==
  ASSUME HttpInv, NEW c \in Call, NEW r, Port!Return(c, r), UNCHANGED http, Sealed'
  PROVE  HttpInv'
<1>1. /\ DOMAIN pending' = Call
      /\ \A d \in Call : pending'[d] \in {pending[d], Port!NoRequest}
  BY DEF Port!Return, HttpInv, Waiting
<1> QED BY <1>1, StoreKeeps

\* Taking batches away leaves what stays sealed.
LEMMA WithoutSealed ==
  ASSUME Sealed, UNCHANGED store, NEW gone, batches' = Port!Without(gone)
  PROVE  Sealed'
BY DEF Sealed, Port!Without

LEMMA StoreStep ==
  ASSUME HttpInv, UNCHANGED <<http, answer, calls>>,
         \/ \E c \in Call :
              \/ Port!Restamp(c) \/ Port!Mutate(c) \/ Port!Get(c) \/ Port!Prepare(c)
              \/ Port!Commit(c) \/ Port!Abort(c) \/ Port!Refuse(c) \/ Port!Lapse(c)
         \/ Port!Forget
         \/ Port!Tick
  PROVE  HttpInv'
<1>1. Sealed
  BY DEF HttpInv
<1>2. ASSUME UNCHANGED <<store, batches, pending>>
      PROVE  HttpInv'
  BY <1>1, <1>2, StoreKeeps DEF Sealed, HttpInv, Waiting
<1>3. ASSUME NEW c \in Call, Port!Restamp(c)
      PROVE  HttpInv'
  BY <1>2, <1>3 DEF Port!Restamp
<1>4. ASSUME NEW c \in Call, Port!Mutate(c)
      PROVE  HttpInv'
  <2>1. PICK r : Port!Return(c, r)
    <3>1. PICK version : Port!Done(c, version)
      BY <1>4, ZenonT(40) DEF Port!Mutate
    <3> QED BY <3>1, Zenon DEF Port!Done
  <2>2. pending[c] # Port!NoRequest /\ pending[c].op \in {"put", "delete", "revoke"}
    <3>1. pending[c].op \in {"put", "delete", "revoke"}
      BY <1>4, Zenon DEF Port!Mutate
    <3> QED BY <3>1 DEF Port!NoRequest
  <2>3. Len(pending[c].muts) = 1
    BY <2>2, StoreCallIs, SMTT(30)
  <2>4. store' = Port!ApplyAll(store, pending[c].muts) /\ batches' = batches
    BY <1>4 DEF Port!Mutate
  <2>5. DOMAIN store' = Ref
    BY <1>1, <2>3, <2>4, ApplyAllDomain DEF Sealed
  <2>6. Sealed'
    BY <1>1, <2>4, <2>5, SMTT(30) DEF Sealed
  <2> QED BY <2>1, <2>6, ReturnKeeps, Zenon
<1>5. ASSUME NEW c \in Call, Port!Get(c)
      PROVE  HttpInv'
  <2>1. PICK r : Port!Return(c, r)
    BY <1>5, Zenon DEF Port!Get
  <2>2. Sealed'
    BY <1>1, <1>5 DEF Sealed, Port!Get
  <2> QED BY <2>1, <2>2, ReturnKeeps
<1>6. ASSUME NEW c \in Call, Port!Prepare(c)
      PROVE  HttpInv'
  <2> DEFINE b == pending[c].batch
             muts == pending[c].muts
             row == [column |-> since[c] + Lifetime, sealed |-> since[c] + Lifetime,
                     muts |-> muts]
  <2>1. PICK r : Port!Return(c, r)
    BY <1>6 DEF Port!Prepare, Port!Done
  <2>2. pending[c] # Port!NoRequest /\ pending[c].op = "prepare"
    BY <1>6 DEF Port!Prepare, Port!NoRequest
  <2>3. b \in Batch /\ muts \in Seq(Mutation)
    BY <2>2, StoreCallIs
  <2>4. \A n \in 1 .. Len(muts) : TenantOf[muts[n].ref] = TenantOf[b]
    BY <1>6, <2>3 DEF Port!Prepare, Port!SameTenant
  <2>5. batches' = [batches EXCEPT ![b] = row] /\ store' = store
    BY <1>6 DEF Port!Prepare
  <2>6. Sealed'
    BY <1>1, <2>3, <2>4, <2>5 DEF Sealed
  <2> QED BY <2>1, <2>6, ReturnKeeps
<1>7. ASSUME NEW c \in Call, Port!Commit(c)
      PROVE  HttpInv'
  <2> DEFINE b == pending[c].batch
  <2>1. PICK r : Port!Return(c, r)
    BY <1>7 DEF Port!Commit, Port!Done
  <2>2. pending[c] # Port!NoRequest /\ pending[c].op = "commit" /\ batches[b] # NoRow
    <3>1. pending[c].op = "commit" /\ batches[b] # NoRow
      BY <1>7, Zenon DEF Port!Commit
    <3> QED BY <3>1 DEF Port!NoRequest
  <2>3. b \in Batch
    BY <2>2, StoreCallIs
  <2>4. Len(batches[b].muts) \in Nat
    BY <1>1, <2>2, <2>3 DEF Sealed
  <2>5. /\ store' = Port!ApplyAll(store, batches[b].muts)
        /\ batches' = [batches EXCEPT ![b] = NoRow]
    BY <1>7 DEF Port!Commit
  <2>6. DOMAIN store' = Ref
    BY <1>1, <2>4, <2>5, ApplyAllDomain DEF Sealed
  <2>7. Sealed'
    BY <1>1, <2>5, <2>6 DEF Sealed
  <2> QED BY <2>1, <2>7, ReturnKeeps
<1>8. ASSUME NEW c \in Call, Port!Abort(c)
      PROVE  HttpInv'
  <2>1. PICK r : Port!Return(c, r)
    BY <1>8 DEF Port!Abort, Port!Done
  <2>2. Sealed'
    BY <1>1, <1>8 DEF Sealed, Port!Abort
  <2> QED BY <2>1, <2>2, ReturnKeeps
<1>9. ASSUME NEW c \in Call, Port!Refuse(c)
      PROVE  HttpInv'
  <2>1. PICK r : Port!Return(c, r)
    BY <1>9 DEF Port!Refuse
  <2>2. Sealed'
    BY <1>1, <1>9 DEF Sealed, Port!Refuse
  <2> QED BY <2>1, <2>2, ReturnKeeps
<1>10. ASSUME NEW c \in Call, Port!Lapse(c)
      PROVE  HttpInv'
  <2>1. PICK r : Port!Return(c, r)
    BY <1>10 DEF Port!Lapse
  <2>2. Sealed'
    BY <1>1, <1>10, WithoutSealed DEF Port!Lapse
  <2> QED BY <2>1, <2>2, ReturnKeeps
<1>11. ASSUME Port!Forget
      PROVE  HttpInv'
  <2>1. Sealed'
    BY <1>1, <1>11, WithoutSealed DEF Port!Forget
  <2> QED BY <1>11, <2>1, StoreKeeps DEF Port!Forget, HttpInv, Waiting
<1>12. ASSUME Port!Tick
      PROVE  HttpInv'
  BY <1>2, <1>12 DEF Port!Tick
<1> QED BY <1>3, <1>4, <1>5, <1>6, <1>7, <1>8, <1>9, <1>10, <1>11, <1>12

LEMMA HttpStep == HttpInv /\ [Next]_vars => HttpInv'
<1> SUFFICES ASSUME HttpInv, [Next]_vars PROVE HttpInv'
  OBVIOUS
<1>1. CASE UNCHANGED vars
  BY <1>1, SMTT(30) DEF HttpInv, Staged, Waiting, Sealed, AdmittedBy, vars, port
<1> QED BY <1>1, HandlerStep, StoreStep DEF Next

-----------------------------------------------------------------------------
(* Whose requests change secrets *)

\* A handler's step leaves the store alone, and so does every step of the
\* store but a mutation and a commit.
LEMMA ChangedBy ==
  ASSUME HttpInv, Next, store' # store
  PROVE  \E c \in Call : Port!Mutate(c) \/ Port!Commit(c)
BY DEF Next, Receive, Authorize, AuthorityUnavailable, AssertOwner, ListUnavailable, CallStore,
       Respond, port, Port!Ask, Port!Restamp, Port!Get, Port!Prepare, Port!Abort, Port!Refuse,
       Port!Lapse, Port!Forget, Port!Tick

LEMMA MutateChanges ==
  ASSUME HttpInv, NEW c \in Call, Port!Mutate(c), NEW r \in Ref, store'[r] # store[r]
  PROVE  /\ Ends(c) /\ http[c].request.ref = r /\ http[c].request.route \notin BatchRoute
         /\ AdmittedBy(http[c].request, http[c].principal)
<1> DEFINE muts == pending[c].muts
<1>1. pending[c] # Port!NoRequest /\ pending[c].op \in {"put", "delete", "revoke"}
  BY DEF Port!Mutate, Port!NoRequest
<1>2. /\ Len(muts) = 1 /\ muts[1].ref = http[c].request.ref
      /\ http[c].request.route \notin BatchRoute
      /\ AdmittedBy(http[c].request, http[c].principal)
  BY <1>1, StoreCallIs
<1>3. store' = Port!ApplyAll(store, muts)
  BY DEF Port!Mutate
<1>4. \E n \in 1 .. Len(muts) : muts[n].ref = r
  BY <1>2, <1>3, ApplyAllFrame DEF HttpInv, Sealed
<1>5. pending'[c] = Port!NoRequest
  BY SMTT(30) DEF Port!Mutate, Port!Done, Port!Return, HttpInv, Waiting
<1> QED BY <1>1, <1>2, <1>4, <1>5 DEF Ends

LEMMA CommitChanges ==
  ASSUME HttpInv, NEW c \in Call, Port!Commit(c), NEW r \in Ref, store'[r] # store[r]
  PROVE  /\ Ends(c) /\ http[c].request.route \in BatchRoute
         /\ TenantOf[http[c].request.batch] = TenantOf[r]
         /\ AdmittedBy(http[c].request, http[c].principal)
<1> DEFINE b == pending[c].batch
           muts == batches[b].muts
<1>1. pending[c] # Port!NoRequest /\ pending[c].op = "commit" /\ batches[b] # NoRow
  BY DEF Port!Commit, Port!NoRequest
<1>2. /\ b = http[c].request.batch /\ b \in Batch
      /\ http[c].request.route \in BatchRoute
      /\ AdmittedBy(http[c].request, http[c].principal)
  BY <1>1, StoreCallIs, SMTT(30)
<1>3. /\ muts \in Seq(Mutation)
      /\ \A n \in 1 .. Len(muts) : TenantOf[muts[n].ref] = TenantOf[b]
  BY <1>1, <1>2 DEF HttpInv, Sealed
<1>4. store' = Port!ApplyAll(store, muts)
  BY DEF Port!Commit
<1>5. Len(muts) \in Nat
  BY <1>3
<1>6. \E n \in 1 .. Len(muts) : muts[n].ref = r
  BY <1>4, <1>5, ApplyAllFrame DEF HttpInv, Sealed
<1>7. pending'[c] = Port!NoRequest
  BY SMTT(30) DEF Port!Commit, Port!Done, Port!Return, HttpInv, Waiting
<1> QED BY <1>1, <1>2, <1>3, <1>6, <1>7 DEF Ends

(***************************************************************************)
(* Whatever requests are sent and however they interleave, a secret        *)
(* changes only through a request that the authority of its side admitted, *)
(* with the action of its route and in the secret's own tenant, whoever    *)
(* prepared what a commit applies.                                         *)
(***************************************************************************)
THEOREM ChangesAuthorized == Spec => EffectsAuthorized
<1>1. HttpInv /\ [Next]_vars =>
        [\A r \in Ref : Changes(r) =>
           \E c \in Call :
             /\ Ends(c)
             /\ LET rq == http[c].request
                    principal == Authority[Side(rq.route)][rq.token]
                IN  /\ principal # NoPrincipal
                    /\ permits(principal, ActionOf[rq.route])
                    /\ principal.tenant = TenantOf[r]]_vars
  <2> SUFFICES ASSUME HttpInv, Next, NEW r \in Ref, store'[r] # store[r]
               PROVE  \E c \in Call :
                        /\ Ends(c)
                        /\ LET rq == http[c].request
                               principal == Authority[Side(rq.route)][rq.token]
                           IN  /\ principal # NoPrincipal
                               /\ permits(principal, ActionOf[rq.route])
                               /\ principal.tenant = TenantOf[r]
    BY DEF Changes
  <2>1. PICK c \in Call : Port!Mutate(c) \/ Port!Commit(c)
    BY ChangedBy
  <2>2. /\ Ends(c) /\ AdmittedBy(http[c].request, http[c].principal)
        /\ Addressed(http[c].request) = TenantOf[r]
    BY <2>1, MutateChanges, CommitChanges DEF Addressed
  <2> QED BY <2>2 DEF AdmittedBy, tenant_match
<1> QED BY <1>1, InitHttp, HttpStep, PTL DEF Spec, EffectsAuthorized

-----------------------------------------------------------------------------
(* Users and the secrets they own *)

\* r has an owner if it is stored, and it is this one if `known`.
Owned(st, r, known, subject) ==
  /\ DOMAIN st = Ref
  /\ st[r] # NoRow => "owner" \in DOMAIN st[r] /\ (known => st[r].owner = subject)
\* What assert_owner has seen stays so, unless a workload puts the secret for
\* another owner.
OwnerInv ==
  /\ HttpInv
  /\ \A r \in Ref : Owned(store, r, FALSE, NoOwner)
  /\ \A c \in Call :
       Acting(c) => c \in reowned \/ Owned(store, http[c].request.ref, TRUE, http[c].principal.subject)

LEMMA ApplyOneOwned ==
  ASSUME NEW r \in Ref, NEW known \in BOOLEAN, NEW subject, NEW st, Owned(st, r, known, subject),
         NEW m, m.ref \in Ref, m.kind \in {"put", "delete", "revoke"},
         known /\ m.kind = "put" /\ m.ref = r => m.owner = subject,
         m.kind = "revoke" => st[m.ref] # NoRow
  PROVE  Owned(Port!ApplyOne(st, m), r, known, subject)
<1> DEFINE next == Port!ApplyOne(st, m)
<1>1. DOMAIN next = Ref /\ (r # m.ref => next[r] = st[r])
  BY DEF Owned, Port!ApplyOne
<1>2. CASE m.kind = "put"
  <2>1. "owner" \in DOMAIN next[m.ref] /\ next[m.ref].owner = m.owner
    BY <1>2 DEF Owned, Port!ApplyOne
  <2> QED BY <1>1, <1>2, <2>1 DEF Owned
<1>3. CASE m.kind = "delete"
  <2>1. next[m.ref] = NoRow
    BY <1>3 DEF Owned, Port!ApplyOne
  <2> QED BY <1>1, <2>1 DEF Owned
<1>4. CASE m.kind = "revoke"
  <2>1. next[m.ref] = [st[m.ref] EXCEPT !.state = "revoked"]
    BY <1>4 DEF Owned, Port!ApplyOne
  <2>2. CASE r = m.ref
    <3>1. "owner" \in DOMAIN st[r] /\ (known => st[r].owner = subject)
      BY <1>4, <2>2 DEF Owned
    <3>2. "owner" \in DOMAIN next[r] /\ next[r].owner = st[r].owner
      BY <2>1, <2>2, <3>1
    <3> QED BY <1>1, <3>1, <3>2 DEF Owned
  <2> QED BY <1>1, <2>2 DEF Owned
<1> QED BY <1>2, <1>3, <1>4

\* A batch holds puts and deletes only.
LEMMA BatchOwned ==
  ASSUME NEW r \in Ref, NEW known \in BOOLEAN, NEW subject, NEW st, Owned(st, r, known, subject),
         NEW muts \in Seq(Mutation),
         known => \A n \in 1 .. Len(muts) :
                    muts[n].kind = "put" /\ muts[n].ref = r => muts[n].owner = subject
  PROVE  Owned(Port!ApplyAll(st, muts), r, known, subject)
<1> DEFINE after == Port!Stages(st, muts)
           bad == {n \in 0 .. Len(muts) : ~Owned(after[n], r, known, subject)}
<1>1. /\ after[0] = st
      /\ \A n \in 1 .. Len(muts) : after[n] = Port!ApplyOne(after[n - 1], muts[n])
  BY StagesAt
<1> HIDE DEF after
<1>2. bad = {}
  <2> SUFFICES ASSUME bad # {} PROVE FALSE
    OBVIOUS
  <2> bad \in SUBSET Nat
    OBVIOUS
  <2>1. PICK n \in bad : \A m \in bad : n <= m
    BY LeastOf
  <2>2. n # 0
    BY <1>1, <2>1
  <2>3. n \in 1 .. Len(muts) /\ n - 1 \in 0 .. Len(muts) /\ n - 1 \notin bad
    BY <2>1, <2>2
  <2>4. Owned(after[n - 1], r, known, subject)
    BY <2>3
  <2>5. /\ muts[n].ref \in Ref /\ muts[n].kind \in {"put", "delete"}
        /\ known /\ muts[n].kind = "put" /\ muts[n].ref = r => muts[n].owner = subject
    <3>1. muts[n] \in Mutation
      BY <2>3
    <3> QED BY <2>3, <3>1, HttpAssumption
  <2>6. Owned(Port!ApplyOne(after[n - 1], muts[n]), r, known, subject)
    BY <2>4, <2>5, ApplyOneOwned
  <2> QED BY <1>1, <2>1, <2>3, <2>6
<1> QED BY <1>2 DEF after, Port!ApplyAll

\* The one mutation of a put, delete or revoke.
LEMMA OneMutation ==
  ASSUME HttpInv, NEW c \in Call, Port!Mutate(c)
  PROVE  LET m == pending[c].muts[1]
         IN  /\ DOMAIN pending[c].muts = {1} /\ Mutations(c) = pending[c].muts
             /\ m.ref = http[c].request.ref /\ m.ref \in Ref
             /\ m.kind \in {"put", "delete", "revoke"}
             /\ m.kind = "put" <=> http[c].request.route = "workload_put"
             /\ m.kind # "put" => store[m.ref] # NoRow
             /\ store' = Port!ApplyOne(store, m)
<1> DEFINE muts == pending[c].muts
           rq == http[c].request
           principal == http[c].principal
<1>1. pending[c] # Port!NoRequest /\ pending[c].op \in {"put", "delete", "revoke"}
  BY DEF Port!Mutate, Port!NoRequest
<1>2. /\ Len(muts) = 1 /\ muts[1].ref = rq.ref /\ rq.ref \in Ref /\ rq.route \in Route
  BY <1>1, StoreCallIs
<1>3. pending[c] = StoreCall(rq, principal)
  BY <1>1 DEF HttpInv, Waiting
<1>4. /\ DOMAIN muts = {1} /\ muts[1].kind \in {"put", "delete", "revoke"}
      /\ muts[1].kind = "put" <=> rq.route = "workload_put"
  <2>1. CASE rq.route = "workload_put"
    <3> DEFINE put == [kind |-> "put", ref |-> rq.ref, disclosure |-> rq.disclosure,
                       value |-> rq.value,
                       owner |-> IF rq.owner = NoOwner THEN principal.subject ELSE rq.owner]
    <3>1. muts = <<put>>
      BY <1>3, <2>1, StoreCallOf
    <3>2. put.kind = "put"
      OBVIOUS
    <3> HIDE DEF put
    <3> QED BY <2>1, <3>1, <3>2
  <2>2. CASE rq.route \in {"user_delete", "workload_delete"}
    <3>1. muts = <<[kind |-> "delete", ref |-> rq.ref]>>
      BY <1>3, <2>2, StoreCallOf
    <3> QED BY <2>2, <3>1
  <2>3. CASE rq.route = "user_revoke"
    <3>1. muts = <<[kind |-> "revoke", ref |-> rq.ref]>>
      BY <1>3, <2>3, StoreCallOf
    <3> QED BY <2>3, <3>1
  <2>4. CASE rq.route \in {"workload_get", "workload_prepare", "workload_commit", "workload_abort"}
    BY <1>1, <1>3, <2>4, StoreCallOf
  <2> QED BY <1>2, <2>1, <2>2, <2>3, <2>4 DEF Route, UserRoute, BatchRoute
<1>5. Port!AllApply(store, muts) /\ store' = Port!ApplyAll(store, muts)
  BY DEF Port!Mutate
<1>6. muts[1].kind # "put" => store[rq.ref] # NoRow
  <2>1. Port!Applies(Port!Stages(store, SubSeq(muts, 1, 0))[0], muts[1])
    BY <1>4, <1>5 DEF Port!AllApply
  <2>2. Len(SubSeq(muts, 1, 0)) = 0
    OBVIOUS
  <2>3. Port!Stages(store, SubSeq(muts, 1, 0))[0] = store
    BY <2>2, StagesAt
  <2> QED BY <1>2, <2>1, <2>3 DEF Port!Applies
<1>7. store' = Port!ApplyOne(store, muts[1])
  BY <1>2, <1>5, StagesAt DEF Port!ApplyAll
<1>8. Mutations(c) = muts
  BY <1>1 DEF Mutations
<1> QED BY <1>2, <1>4, <1>6, <1>7, <1>8

\* Only a call that puts the secret for another owner gives it one.
LEMMA StoreOwned ==
  ASSUME HttpInv, NEW d \in Call, Port!Mutate(d) \/ Port!Commit(d),
         NEW r \in Ref, NEW known \in BOOLEAN, NEW subject, Owned(store, r, known, subject),
         known => ~PutsForOther(d, r, subject)
  PROVE  Owned(store', r, known, subject)
<1>1. CASE store'[r] = store[r]
  <2>1. DOMAIN store' = Ref
    <3>1. CASE Port!Mutate(d)
      <4>1. store' = Port!ApplyOne(store, pending[d].muts[1])
        BY <3>1, OneMutation
      <4> QED BY <4>1 DEF Port!ApplyOne, HttpInv, Sealed
    <3>2. CASE Port!Commit(d)
      <4> DEFINE muts == batches[pending[d].batch].muts
      <4>1. pending[d].op = "commit" /\ batches[pending[d].batch] # NoRow
            /\ store' = Port!ApplyAll(store, muts)
        BY <3>2 DEF Port!Commit
      <4>2. pending[d].batch \in Batch
        BY <4>1, StoreCallIs DEF Port!NoRequest
      <4>3. muts \in Seq(Mutation)
        BY <4>1, <4>2 DEF HttpInv, Sealed
      <4>4. Len(muts) \in Nat
        BY <4>3
      <4> QED BY <4>1, <4>4, ApplyAllDomain DEF HttpInv, Sealed
    <3> QED BY <3>1, <3>2
  <2> QED BY <1>1, <2>1 DEF Owned
<1>2. CASE store'[r] # store[r] /\ Port!Mutate(d)
  <2> DEFINE m == pending[d].muts[1]
  <2>1. /\ DOMAIN pending[d].muts = {1} /\ Mutations(d) = pending[d].muts
        /\ m.ref \in Ref /\ m.kind \in {"put", "delete", "revoke"}
        /\ m.kind = "put" => http[d].request.route = "workload_put"
        /\ m.kind = "revoke" => store[m.ref] # NoRow
        /\ store' = Port!ApplyOne(store, m)
    BY <1>2, OneMutation
  <2>2. Ends(d)
    BY <1>2, MutateChanges
  <2>3. known /\ m.kind = "put" /\ m.ref = r => m.owner = subject
    <3>1. m.kind = "put" => Side(http[d].request.route) = "workload"
      BY <2>1 DEF Side, UserRoute
    <3> QED BY <1>2, <2>1, <2>2, <3>1 DEF PutsForOther, Changes
  <2> QED BY <2>1, <2>3, ApplyOneOwned
<1>3. CASE store'[r] # store[r] /\ Port!Commit(d)
  <2> DEFINE b == pending[d].batch
             muts == batches[b].muts
  <2>1. pending[d] # Port!NoRequest /\ pending[d].op = "commit" /\ batches[b] # NoRow
    BY <1>3 DEF Port!Commit, Port!NoRequest
  <2>2. b \in Batch
    BY <2>1, StoreCallIs
  <2>3. muts \in Seq(Mutation) /\ store' = Port!ApplyAll(store, muts)
    BY <1>3, <2>1, <2>2 DEF HttpInv, Sealed, Port!Commit
  <2>4. Ends(d) /\ Side(http[d].request.route) = "workload"
    BY <1>3, CommitChanges DEF Side, UserRoute, BatchRoute
  <2>5. Mutations(d) = muts /\ DOMAIN muts = 1 .. Len(muts)
    BY <2>1, <2>3 DEF Mutations
  <2>6. known => \A n \in 1 .. Len(muts) :
                    muts[n].kind = "put" /\ muts[n].ref = r => muts[n].owner = subject
    BY <1>3, <2>4, <2>5, Zenon DEF PutsForOther, Changes
  <2> QED BY <2>3, <2>6, BatchOwned
<1> QED BY <1>1, <1>2, <1>3

LEMMA StaysOwned ==
  ASSUME HttpInv, Next, NEW r \in Ref, NEW known \in BOOLEAN, NEW subject, Owned(store, r, known, subject),
         known => \A d \in Call : ~PutsForOther(d, r, subject)
  PROVE  Owned(store', r, known, subject)
<1>1. CASE store' = store
  BY <1>1
<1>2. CASE store' # store
  BY <1>2, ChangedBy, StoreOwned
<1> QED BY <1>1, <1>2

\* How a handler comes to act for a user.
LEMMA ActingStep ==
  ASSUME HttpInv, Next, NEW c \in Call, Acting(c)'
  PROVE  /\ http'[c].request = http[c].request /\ http'[c].principal = http[c].principal
         /\ \/ Acting(c)
            \/ /\ Listed(http[c].principal, http[c].request.ref) /\ UNCHANGED store
               /\ http[c].request.ref \in Ref
<1>1. DOMAIN http = Call
  BY DEF HttpInv, Staged
<1>2. CASE http'[c] = http[c]
  BY <1>2 DEF Acting
<1>3. CASE http'[c] # http[c]
  <2>1. ASSUME NEW d \in Call, NEW outcome, Finish(d, outcome)
        PROVE  FALSE
    BY <1>1, <1>3, <2>1 DEF Finish, NoHandler, Acting
  <2>2. ASSUME NEW d \in Call, NEW stage, NEW principal, Go(d, stage, principal)
        PROVE  /\ d = c /\ http'[c].stage = stage /\ http'[c].principal = principal
               /\ http'[c].request = http[c].request
    BY <1>1, <1>3, <2>2 DEF Go, Handler
  <2>3. ASSUME NEW d \in Call, Receive(d)
        PROVE  FALSE
    BY <1>1, <1>3, <2>3 DEF Receive, Handler, Acting
  <2>4. ASSUME NEW d \in Call, Authorize(d)
        PROVE  FALSE
    <3> DEFINE rq == http[d].request
               principal == Authority[Side(rq.route)][rq.token]
    <3>1. \/ \E outcome : Finish(d, outcome)
          \/ Go(d, IF rq.route \in UserRoute THEN "owner" ELSE "call", principal)
      BY <2>4 DEF Authorize
    <3> QED BY <2>1, <2>2, <3>1 DEF Acting
  <2>5. ASSUME NEW d \in Call, AssertOwner(d)
        PROVE  /\ http'[c].request = http[c].request /\ http'[c].principal = http[c].principal
               /\ Listed(http[c].principal, http[c].request.ref) /\ UNCHANGED store
               /\ http[c].request.ref \in Ref
    <3>1. /\ Go(d, "call", http[d].principal) /\ Listed(http[d].principal, http[d].request.ref)
          /\ http[d].stage = "owner" /\ UNCHANGED store
      BY <2>1, <2>5 DEF AssertOwner, port
    <3>2. d = c /\ http'[c].principal = http[c].principal /\ http'[c].request = http[c].request
      BY <2>2, <3>1
    <3>3. http[c].request \in Requests
      BY <3>1, <3>2 DEF HttpInv, Staged, AdmittedBy
    <3>4. http[c].request.ref \in Ref
      BY <3>2, <3>3, HttpAssumption DEF Acting, UserRoute, BatchRoute
    <3> QED BY <3>1, <3>2, <3>4
  <2>6. ASSUME NEW d \in Call, CallStore(d)
        PROVE  /\ http'[c].request = http[c].request /\ http'[c].principal = http[c].principal
               /\ Acting(c)
    <3>1. Go(d, "store", http[d].principal) /\ http[d].stage = "call"
      BY <2>6 DEF CallStore
    <3>2. d = c /\ http'[c].principal = http[c].principal /\ http'[c].request = http[c].request
      BY <2>2, <3>1
    <3> QED BY <3>1, <3>2 DEF Acting
  <2>7. http' = http \/ \E d \in Call : \/ \E outcome : Finish(d, outcome)
                                        \/ Receive(d) \/ Authorize(d) \/ AssertOwner(d)
                                        \/ CallStore(d)
    BY DEF Next, AuthorityUnavailable, ListUnavailable, Respond
  <2> QED BY <1>3, <2>1, <2>3, <2>4, <2>5, <2>6, <2>7
<1> QED BY <1>2, <1>3

LEMMA ActingRef ==
  ASSUME HttpInv, NEW c \in Call, Acting(c)
  PROVE  http[c].request.ref \in Ref
<1>1. http[c].request \in Requests
  BY DEF HttpInv, Staged, AdmittedBy, Acting
<1> QED BY <1>1, HttpAssumption DEF Acting, UserRoute, BatchRoute

LEMMA OwnerStep == OwnerInv /\ [RaceNext]_raceVars => OwnerInv'
<1> SUFFICES ASSUME OwnerInv, [RaceNext]_raceVars PROVE OwnerInv'
  OBVIOUS
<1>1. HttpInv'
  BY HttpStep DEF OwnerInv, RaceNext, raceVars
<1>2. CASE UNCHANGED raceVars
  BY <1>1, <1>2 DEF OwnerInv, Owned, Acting, raceVars, vars, port
<1>3. CASE RaceNext
  <2>1. HttpInv /\ Next
    BY <1>3 DEF OwnerInv, RaceNext
  <2>2. ASSUME NEW r \in Ref PROVE Owned(store', r, FALSE, NoOwner)
    BY <2>1, StaysOwned DEF OwnerInv
  <2>3. ASSUME NEW c \in Call, Acting(c)', c \notin reowned'
        PROVE  Owned(store', http'[c].request.ref, TRUE, http'[c].principal.subject)
    <3> DEFINE r == http[c].request.ref
               subject == http[c].principal.subject
    <3>1. /\ http'[c].request = http[c].request /\ http'[c].principal = http[c].principal
          /\ Acting(c) \/ (Listed(http[c].principal, r) /\ UNCHANGED store /\ r \in Ref)
      BY <2>1, <2>3, ActingStep
    <3>2. CASE Acting(c)
      <4>1. c \notin reowned /\ ~Reowns(c)
        BY <1>3, <2>3 DEF RaceNext, Acting
      <4>2. Owned(store, r, TRUE, subject) /\ r \in Ref
        BY <2>1, <3>2, <4>1, ActingRef DEF OwnerInv
      <4>3. \A d \in Call : ~PutsForOther(d, r, subject)
        BY <3>2, <4>1 DEF Reowns
      <4>4. Owned(store', r, TRUE, subject)
        BY <2>1, <4>2, <4>3, StaysOwned
      <4> QED BY <3>1, <4>4
    <3>3. CASE Listed(http[c].principal, r) /\ UNCHANGED store /\ r \in Ref
      <4>1. Owned(store, r, FALSE, NoOwner)
        BY <3>3 DEF OwnerInv
      <4> QED BY <3>1, <3>3, <4>1 DEF Owned, Listed
    <3> QED BY <3>1, <3>2, <3>3
  <2> QED BY <1>1, <2>2, <2>3 DEF OwnerInv
<1> QED BY <1>2, <1>3

LEMMA OwnerInit == RaceInit => OwnerInv
  BY InitHttp DEF RaceInit, Init, Port!Init, NoHandler, OwnerInv, Owned, Acting

(***************************************************************************)
(* However requests interleave between assert_owner and the store call, a  *)
(* user route changes a secret its caller does not own only if a workload  *)
(* has put it for another owner in between, in a put or in a batch.        *)
(***************************************************************************)
THEOREM UsersActOnTheirOwn == RaceSpec => UserActsOnlyOnOwned
<1>1. OwnerInv /\ [RaceNext]_raceVars =>
        [\A c \in Call, r \in Ref :
           Ends(c) /\ Changes(r) /\ http[c].request.route \in UserRoute =>
             c \in reowned \/ store[r].owner = http[c].principal.subject]_raceVars
  <2> SUFFICES ASSUME OwnerInv, Next, NEW c \in Call, NEW r \in Ref, Ends(c),
                      store'[r] # store[r], http[c].request.route \in UserRoute, c \notin reowned
               PROVE  store[r].owner = http[c].principal.subject
    BY DEF Changes, RaceNext
  <2>1. HttpInv
    BY DEF OwnerInv
  <2>2. PICK d \in Call : Port!Mutate(d) \/ Port!Commit(d)
    BY <2>1, ChangedBy
  <2>3. d = c
    <3>1. \A e \in Call \ {d} : pending'[e] = pending[e]
      BY <2>1, <2>2 DEF Port!Mutate, Port!Commit, Port!Done, Port!Return, HttpInv, Waiting
    <3> QED BY <3>1 DEF Ends
  <2>4. http[c].request.ref = r /\ Port!Mutate(c)
    BY <2>1, <2>2, <2>3, MutateChanges, CommitChanges DEF UserRoute, BatchRoute
  <2>5. Acting(c)
    BY <2>1 DEF Ends, HttpInv, Waiting, Acting
  <2>6. Owned(store, r, TRUE, http[c].principal.subject)
    BY <2>4, <2>5 DEF OwnerInv
  <2>7. store[r] # NoRow
    BY <2>1, <2>4, OneMutation DEF UserRoute
  <2> QED BY <2>6, <2>7 DEF Owned
<1> QED BY <1>1, OwnerInit, OwnerStep, PTL DEF RaceSpec, UserActsOnlyOnOwned
=============================================================================
