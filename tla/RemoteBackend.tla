---------------------------- MODULE RemoteBackend ----------------------------
(***************************************************************************)
(* RemoteBackend (crates/secrets-remote) over the client (secrets-client): *)
(* the storage port as requests to the custody service.  Each request is   *)
(* sent, takes effect in the service as Custody says, and is answered, and *)
(* the answer may be lost.  A rename is five requests, its effect one      *)
(* prepared batch.  Users revoke their secrets through routes of their own.*)
(***************************************************************************)
EXTENDS Integers, Sequences

CONSTANTS
  Client,      \* callers of the port, one command in flight each
  Name,        \* the names of one scope; reference maps each to a key of its own
  Batch,       \* the ids Uuid::now_v7 draws
  Requests, NoCommand,
  TenantOf, Lifetime, NoRow, NoValue,
  MaxCalls,    \* bound: commands
  MaxRefusals, \* bound: requests the service refuses (401, 403, 413)
  MaxRevokes,  \* bound: revocations
  MaxClock     \* bound: the clock

VARIABLES
  store, batches, pending, since, reply, clock, \* the service, see Custody
  pc, request,
  sent,     \* whether the request of this place has been sent
  carried,  \* the value a rename moves, and its batch
  outcome,  \* the code a rename answers once it has tried to abort
  answer,
  used,     \* ids drawn
  calls, refusals, revokes

Port == INSTANCE Custody
  WITH Call <- Client, Ref <- Name, MalformedRef <- {}, Requests <- {}

port == <<store, batches, pending, since, reply, clock>>
local == <<pc, request, sent, carried, outcome, answer, used>>
bounds == <<calls, refusals, revokes>>
vars == <<port, local, bounds>>

Value == 1 .. MaxCalls
\* What a backend is asked, and a secret as its puts make it.
Request ==
       [op : {"read", "write", "delete"}, name : Name]
  \cup [op : {"rename"}, name : Name, new_name : Name]
  \cup [op : {"list"}]
Secret ==
  [owner : {"user"}, disclosure : {"WorkloadOnly"}, state : {"active", "revoked"},
   values : Seq(Value)]

ASSUME RemoteAssumption ==
  /\ Requests \subseteq Request
  /\ NoRow \notin Secret /\ NoValue \notin Int
  /\ MaxCalls \in Nat /\ MaxRefusals \in Nat /\ MaxRevokes \in Nat

Codes == {"none", "Ok", "Created", "Replaced", "NotFound", "Denied", "Conflict", "Unavailable"}
Answer(code) == [code |-> code, value |-> NoValue]
Nothing == [value |-> NoValue, batch |-> NoRow]

TypeOK ==
  /\ store \in [Name -> Secret \cup {NoRow}]
  /\ pc \in [Client -> {"idle", "get", "put", "delete", "fetch", "exists", "prepare",
                        "commit", "abort", "list"}]
  /\ request \in [Client -> Requests \cup {NoCommand}]
  /\ sent \in [Client -> BOOLEAN]
  /\ carried \in [Client -> [value : Value \cup {NoValue}, batch : Batch \cup {NoRow}]]
  /\ \A c \in Client :
       pc[c] \in {"exists", "prepare", "commit", "abort"} => carried[c].value # NoValue
  /\ outcome \in [Client -> Codes]
  /\ answer \in [Client -> [code : Codes, value : Value \cup {NoValue}]]
  /\ used \subseteq Batch
  /\ calls \in 0 .. MaxCalls /\ refusals \in 0 .. MaxRefusals /\ revokes \in 0 .. MaxRevokes

Init ==
  /\ Port!Init
  /\ pc = [c \in Client |-> "idle"]
  /\ request = [c \in Client |-> NoCommand]
  /\ sent = [c \in Client |-> FALSE]
  /\ carried = [c \in Client |-> Nothing]
  /\ outcome = [c \in Client |-> "none"]
  /\ answer = [c \in Client |-> Answer("none")]
  /\ used = {} /\ calls = 0 /\ refusals = 0 /\ revokes = 0

\* The status the service answers with, as classify and refusal tell it.
RefusalFlat(code) ==  \* mutant
  CASE code \in {"NotFound", "DeleteTargetMissing", "Unavailable", "Crypto"} -> "NotFound"
    [] code \in {"Conflict", "Invalid"} -> "Denied"
    [] code = "Ok" -> "Ok"
refusal(code) ==
  CASE code \in {"NotFound", "DeleteTargetMissing"} -> "NotFound"
    [] code \in {"Conflict", "Invalid"} -> "Denied"
    [] code \in {"Unavailable", "Crypto"} -> "Unavailable"
    [] code = "Ok" -> "Ok"

Goes(c, label) ==
  /\ pc' = [pc EXCEPT ![c] = label]
  /\ sent' = [sent EXCEPT ![c] = FALSE]
EndsWith(c, a) ==
  /\ Goes(c, "idle")
  /\ request' = [request EXCEPT ![c] = NoCommand]
  /\ carried' = [carried EXCEPT ![c] = Nothing]
  /\ outcome' = [outcome EXCEPT ![c] = "none"]
  /\ answer' = [answer EXCEPT ![c] = a]
  /\ UNCHANGED used
Ends(c, code) == EndsWith(c, Answer(code))
Continues(c, label) == Goes(c, label) /\ UNCHANGED <<request, carried, outcome, answer, used>>

\* A write carries a value nothing else was written with.
Start(c, rq) ==
  /\ pc[c] = "idle" /\ calls < MaxCalls
  /\ calls' = calls + 1
  /\ request' = [request EXCEPT ![c] = rq]
  /\ Goes(c, CASE rq.op = "read" -> "get" [] rq.op = "write" -> "put"
               [] rq.op = "rename" -> "fetch" [] OTHER -> rq.op)
  /\ carried' = [carried EXCEPT ![c] =
                   IF rq.op = "write" THEN [Nothing EXCEPT !.value = calls + 1] ELSE Nothing]
  /\ UNCHANGED <<port, outcome, answer, used, refusals, revokes>>

Put(name, value) ==
  [kind |-> "put", ref |-> name, value |-> value, owner |-> "user", disclosure |-> "WorkloadOnly"]
Delete(name) == [kind |-> "delete", ref |-> name]
BatchKeepingSource(c) ==  \* mutant
  <<Put(request[c].new_name, carried[c].value)>>
BatchOf(c) == <<Put(request[c].new_name, carried[c].value), Delete(request[c].name)>>
Body(c) ==
  CASE pc[c] \in {"get", "fetch"} -> [op |-> "get", ref |-> request[c].name]
    [] pc[c] = "put" -> [op |-> "put", muts |-> <<Put(request[c].name, carried[c].value)>>]
    [] pc[c] = "delete" -> [op |-> "delete", muts |-> <<Delete(request[c].name)>>]
    [] pc[c] = "prepare" -> [op |-> "prepare", batch |-> carried[c].batch, muts |-> BatchOf(c)]
    [] pc[c] \in {"commit", "abort"} -> [op |-> pc[c], batch |-> carried[c].batch]
Send(c) ==
  /\ pc[c] \notin {"idle", "exists", "list"} /\ ~sent[c]
  /\ Port!Ask(c, Body(c))
  /\ sent' = [sent EXCEPT ![c] = TRUE]
  /\ UNCHANGED <<pc, request, carried, outcome, answer, used, bounds>>

\* The answer to the request of place label has come: what it says.
Told(c, label) == pc[c] = label /\ sent[c] /\ pending[c] = Port!NoRequest
Code(c) == refusal(reply[c].code)
Here == UNCHANGED <<port, bounds>>

Read(c) ==
  /\ Told(c, "get")
  /\ EndsWith(c, [code |-> Code(c), value |-> reply[c].value])
  /\ Here
Write(c) ==
  /\ Told(c, "put")
  /\ Ends(c, IF Code(c) # "Ok" THEN Code(c)
             ELSE IF reply[c].version = 1 THEN "Created" ELSE "Replaced")
  /\ Here
DeleteTold(c) == Told(c, "delete") /\ Ends(c, Code(c)) /\ Here

\* rename: get, exists, prepare, commit and, when the commit fails, abort.
FetchedAnyway(c) ==  \* mutant
  /\ Told(c, "fetch")
  /\ Goes(c, "exists")
  /\ carried' = [carried EXCEPT ![c].value = reply[c].value]
  /\ UNCHANGED <<request, outcome, answer, used>>
  /\ Here
Fetched(c) ==
  /\ Told(c, "fetch")
  /\ \/ Code(c) # "Ok" /\ Ends(c, Code(c))
     \/ /\ Code(c) = "Ok"
        /\ Goes(c, "exists")
        /\ carried' = [carried EXCEPT ![c].value = reply[c].value]
        /\ UNCHANGED <<request, outcome, answer, used>>
  /\ Here
Active(name) == store[name] # NoRow /\ store[name].state = "active"
ExistsSkipped(c) ==  \* mutant
  /\ pc[c] = "exists"
  /\ \E b \in Batch \ used :
       /\ Goes(c, "prepare")
       /\ carried' = [carried EXCEPT ![c].batch = b]
       /\ used' = used \cup {b}
       /\ UNCHANGED <<request, outcome, answer>>
  /\ Here
Exists(c) ==
  /\ pc[c] = "exists"
  /\ \/ Active(request[c].new_name) /\ Ends(c, "Conflict")
     \/ Ends(c, "Unavailable")
     \/ \E b \in Batch \ used :
          /\ ~Active(request[c].new_name)
          /\ Goes(c, "prepare")
          /\ carried' = [carried EXCEPT ![c].batch = b]
          /\ used' = used \cup {b}
          /\ UNCHANGED <<request, outcome, answer>>
  /\ Here
Prepared(c) ==
  /\ Told(c, "prepare")
  /\ \/ Code(c) # "Ok" /\ Ends(c, Code(c))
     \/ Code(c) = "Ok" /\ Continues(c, "commit")
  /\ Here
Committed(c) ==
  /\ Told(c, "commit")
  /\ \/ Code(c) = "Ok" /\ Ends(c, "Ok")
     \/ /\ Code(c) # "Ok"
        /\ Goes(c, "abort")
        /\ outcome' = [outcome EXCEPT ![c] = Code(c)]
        /\ UNCHANGED <<request, carried, answer, used>>
  /\ Here
Aborted(c) == Told(c, "abort") /\ Ends(c, outcome[c]) /\ Here

\* list changes nothing; its rows are the active secrets of the scope.
List(c) ==
  /\ pc[c] = "list"
  /\ \E code \in {"Ok", "Unavailable"} : Ends(c, code)
  /\ Here

\* The service refuses a request before its store is called: the token was
\* revoked, or a body is too large.
Refused(c) ==
  /\ pc[c] # "idle" /\ ~sent[c] /\ refusals < MaxRefusals
  /\ refusals' = refusals + 1
  /\ \/ pc[c] \notin {"commit", "abort"} /\ Ends(c, "Denied")
     \/ pc[c] = "abort" /\ Ends(c, outcome[c])
     \/ /\ pc[c] = "commit"
        /\ Goes(c, "abort")
        /\ outcome' = [outcome EXCEPT ![c] = "Denied"]
        /\ UNCHANGED <<request, carried, answer, used>>
  /\ UNCHANGED <<port, calls, revokes>>

\* A user revokes a secret of theirs through the user routes.
Revoke(name) ==
  /\ Active(name) /\ revokes < MaxRevokes
  /\ revokes' = revokes + 1
  /\ store' = Port!ApplyOne(store, [kind |-> "revoke", ref |-> name])
  /\ UNCHANGED <<batches, pending, since, reply, clock, local, calls, refusals>>

Service ==
  /\ \/ \E c \in Client :
          \/ Port!Restamp(c) \/ Port!Mutate(c) \/ Port!Get(c) \/ Port!Prepare(c)
          \/ Port!Commit(c) \/ Port!Abort(c) \/ Port!Refuse(c) \/ Port!Lapse(c)
     \/ Port!Forget
     \/ clock < MaxClock /\ Port!Tick
  /\ UNCHANGED <<local, bounds>>

Next ==
  \/ \E c \in Client :
       \/ \E rq \in Requests : Start(c, rq)
       \/ Send(c) \/ Read(c) \/ Write(c) \/ DeleteTold(c) \/ Fetched(c) \/ Exists(c)
       \/ Prepared(c) \/ Committed(c) \/ Aborted(c) \/ List(c) \/ Refused(c)
  \/ \E name \in Name : Revoke(name)
  \/ Service
Spec == Init /\ [][Next]_vars

-----------------------------------------------------------------------------
\* What a read of the name would answer now.
Newest(name) ==
  IF Active(name) THEN store[name].values[Len(store[name].values)] ELSE NoValue
=============================================================================
