------------------------- MODULE RemoteBackendProofs -------------------------
(***************************************************************************)
(* The properties of RemoteBackend and RemoteRaces, for any number of      *)
(* callers, and any names, commands, lost answers, refusals and            *)
(* revocations.  A rename acts on a value that it read earlier, and        *)
(* nothing keeps another caller from changing it meanwhile: what a rename  *)
(* may count on is said of those that nobody has overtaken.                *)
(***************************************************************************)
EXTENDS RemoteRaces, TLAPS

\* The command each request belongs to.
OpAt ==
  [get |-> "read", put |-> "write", delete |-> "delete", list |-> "list", fetch |-> "rename",
   exists |-> "rename", prepare |-> "rename", commit |-> "rename", abort |-> "rename"]
Label == {"get", "put", "delete", "fetch", "exists", "prepare", "commit", "abort", "list"}
Labelled ==
  \A c \in Client : pc[c] # "idle" => request[c] \in Requests /\ request[c].op = OpAt[pc[c]]

ReplyCode ==
  {"Ok", "Unavailable", "NotFound", "Crypto", "Invalid", "Conflict", "DeleteTargetMissing"}
ReplyType == [code : ReplyCode, version : Nat, value : Value \cup {NoValue}]

\* A secret that is there has a value.
Valued == \A n \in Name : store[n] # NoRow => store[n].values # <<>>
\* What a rename may have prepared.
Moves == {<<Put(m, v), Delete(n)>> : n \in Name, m \in Name, v \in Value}
Sealed == DOMAIN batches = Batch /\ \A b \in Batch : batches[b] # NoRow => batches[b].muts \in Moves
\* The service works on the request that its caller waits for.
InFlight ==
  /\ DOMAIN pending = Client
  /\ \A c \in Client : pending[c] # Port!NoRequest =>
       sent[c] /\ pc[c] \notin {"idle", "exists", "list"} /\ pending[c] = Body(c)
Replies ==
  /\ reply \in [Client -> ReplyType]
  /\ \A c \in Client : Told(c, "fetch") /\ reply[c].code = "Ok" => reply[c].value # NoValue
\* What a request carries has been chosen.
Chosen ==
  \A c \in Client :
    /\ pc[c] \in {"put", "exists", "prepare", "commit", "abort"} => carried[c].value # NoValue
    /\ pc[c] \in {"prepare", "commit", "abort"} => carried[c].batch \in used
Shape == TypeOK /\ Labelled /\ Valued /\ Sealed /\ InFlight /\ Replies /\ Chosen

LEMMA NamesAt ==
  ASSUME Shape, NEW c \in Client
  PROVE  /\ pc[c] \notin {"idle", "list"} => request[c].name \in Name
         /\ pc[c] \in {"fetch", "exists", "prepare", "commit", "abort"} =>
              request[c].new_name \in Name
<1> SUFFICES ASSUME pc[c] \notin {"idle", "list"}
             PROVE  /\ request[c].name \in Name
                    /\ pc[c] \in {"fetch", "exists", "prepare", "commit", "abort"} =>
                         request[c].new_name \in Name
  BY DEF Shape, Labelled
<1>1. pc[c] \in Label
  BY DEF Shape, TypeOK, Label
<1>2. request[c] \in Request /\ request[c].op = OpAt[pc[c]]
  BY RemoteAssumption DEF Shape, Labelled
<1> QED BY <1>1, <1>2 DEF Request, OpAt, Label

LEMMA AnswerTyped ==
  ASSUME NEW code \in ReplyCode
  PROVE  /\ Port!Answer(code) \in ReplyType
         /\ Port!Answer(code).code = code /\ Port!Answer(code).value = NoValue
BY DEF Port!Answer, ReplyType

LEMMA RefusalTyped ==
  ASSUME NEW code \in ReplyCode
  PROVE  /\ refusal(code) \in Codes
         /\ refusal(code) = "Ok" <=> code = "Ok"
         /\ refusal(code) = "Unavailable" <=> code \in {"Unavailable", "Crypto"}
BY DEF refusal, ReplyCode, Codes

-----------------------------------------------------------------------------
(* What mutations do to the store *)

LEMMA AppliedOnce ==
  ASSUME NEW st, NEW m
  PROVE  Port!ApplyAll(st, <<m>>) = Port!ApplyOne(st, m)
<1> DEFINE after == Port!Stages(st, <<m>>)
           g == [n \in 0 .. 1 |-> IF n = 0 THEN st ELSE Port!ApplyOne(st, m)]
           eq(f) == f = [n \in 0 .. 1 |-> IF n = 0 THEN st ELSE Port!ApplyOne(f[n - 1], <<m>>[n])]
<1>1. eq(g)
  <2>1. g[0] = st
    OBVIOUS
  <2>2. \A n \in 0 .. 1 :
          (IF n = 0 THEN st ELSE Port!ApplyOne(st, m)) =
          (IF n = 0 THEN st ELSE Port!ApplyOne(g[n - 1], <<m>>[n]))
    <3> SUFFICES ASSUME NEW n \in 0 .. 1, n # 0
                 PROVE  Port!ApplyOne(st, m) = Port!ApplyOne(g[n - 1], <<m>>[n])
      OBVIOUS
    <3>1. n = 1 /\ n - 1 = 0
      OBVIOUS
    <3>2. g[n - 1] = st /\ <<m>>[n] = m
      BY <2>1, <3>1
    <3> QED BY <3>2
  <2> HIDE DEF g
  <2>3. g = [n \in 0 .. 1 |-> IF n = 0 THEN st ELSE Port!ApplyOne(st, m)]
    BY DEF g
  <2> QED BY <2>2, <2>3
<1>2. Len(<<m>>) = 1
  OBVIOUS
<1>3. after = CHOOSE f : eq(f)
  BY <1>2, Zenon DEF Port!Stages
<1> HIDE DEF g, after
<1>4. eq(after)
  <2> HIDE DEF eq
  <2> QED BY <1>1, <1>3
<1>5. after[0] = st
  BY <1>4
<1>6. after[1] = Port!ApplyOne(after[0], m)
  BY <1>4
<1> QED BY <1>2, <1>5, <1>6 DEF after, Port!ApplyAll

LEMMA AppliedTwice ==
  ASSUME NEW st, NEW m1, NEW m2
  PROVE  Port!ApplyAll(st, <<m1, m2>>) = Port!ApplyOne(Port!ApplyOne(st, m1), m2)
<1> DEFINE muts == <<m1, m2>>
           after == Port!Stages(st, muts)
           first == Port!ApplyOne(st, m1)
           both == Port!ApplyOne(first, m2)
           g == [n \in 0 .. 2 |-> IF n = 0 THEN st ELSE IF n = 1 THEN first ELSE both]
           eq(f) == f = [n \in 0 .. 2 |-> IF n = 0 THEN st ELSE Port!ApplyOne(f[n - 1], muts[n])]
<1>1. Len(muts) = 2 /\ muts[1] = m1 /\ muts[2] = m2
  OBVIOUS
<1>2. eq(g)
  <2>1. g[0] = st /\ g[1] = first /\ g[2] = both
    OBVIOUS
  <2> HIDE DEF g, muts
  <2>2. \A n \in 0 .. 2 :
          (IF n = 0 THEN st ELSE IF n = 1 THEN first ELSE both) =
          (IF n = 0 THEN st ELSE Port!ApplyOne(g[n - 1], muts[n]))
    <3> SUFFICES ASSUME NEW n \in 0 .. 2, n # 0
                 PROVE  (IF n = 1 THEN first ELSE both) = Port!ApplyOne(g[n - 1], muts[n])
      OBVIOUS
    <3>1. n = 1 \/ n = 2
      OBVIOUS
    <3>2. 1 - 1 = 0 /\ 2 - 1 = 1
      OBVIOUS
    <3> QED BY <1>1, <2>1, <3>1, <3>2
  <2>3. g = [n \in 0 .. 2 |-> IF n = 0 THEN st ELSE IF n = 1 THEN first ELSE both]
    BY DEF g
  <2> QED BY <2>2, <2>3
<1> HIDE DEF muts
<1>3. after = CHOOSE f : eq(f)
  BY <1>1, Zenon DEF Port!Stages
<1> HIDE DEF g, after
<1>4. eq(after)
  <2> HIDE DEF eq
  <2> QED BY <1>2, <1>3
<1>5. after[0] = st
  BY <1>4
<1>6. after[1] = Port!ApplyOne(after[0], m1)
  BY <1>1, <1>4
<1>7. after[2] = Port!ApplyOne(after[1], m2)
  BY <1>1, <1>4
<1> QED BY <1>1, <1>5, <1>6, <1>7 DEF after, muts, Port!ApplyAll

Rows(st) ==
  /\ st \in [Name -> Secret \cup {NoRow}]
  /\ \A n \in Name : st[n] # NoRow => st[n].values # <<>>
Latest(st, n) ==
  IF st[n] # NoRow /\ st[n].state = "active" THEN st[n].values[Len(st[n].values)] ELSE NoValue

\* The value of a secret, revoked or not.
Last(st, n) == IF st[n] = NoRow THEN NoValue ELSE st[n].values[Len(st[n].values)]

LEMMA LatestTyped ==
  ASSUME NEW st, Rows(st), NEW n \in Name
  PROVE  /\ Last(st, n) \in Value \cup {NoValue}
         /\ Latest(st, n) \in {Last(st, n), NoValue}
<1> SUFFICES ASSUME st[n] # NoRow PROVE st[n].values[Len(st[n].values)] \in Value
  BY DEF Latest, Last
<1> DEFINE values == st[n].values
<1>1. values \in Seq(Value) /\ values # <<>>
  BY DEF Rows, Secret
<1> HIDE DEF values
<1>2. Len(values) \in 1 .. Len(values)
  BY <1>1
<1>3. values[Len(values)] \in Value
  BY <1>1, <1>2
<1> QED BY <1>3 DEF values

LEMMA PutApplied ==
  ASSUME NEW st, Rows(st), NEW n \in Name, NEW v \in Value
  PROVE  LET next == Port!ApplyOne(st, Put(n, v))
         IN  /\ Rows(next) /\ Latest(next, n) = v /\ Last(next, n) = v
             /\ \A k \in Name \ {n} : next[k] = st[k]
<1> DEFINE next == Port!ApplyOne(st, Put(n, v))
           values == IF st[n] = NoRow THEN <<v>> ELSE Append(st[n].values, v)
           row == [owner |-> "user", disclosure |-> "WorkloadOnly", state |-> "active",
                   values |-> values]
<1>1. st[n] # NoRow => st[n].values \in Seq(Value)
  BY DEF Rows, Secret
<1>2. values \in Seq(Value) /\ values # <<>> /\ values[Len(values)] = v
  <2>1. CASE st[n] = NoRow
    BY <2>1
  <2>2. CASE st[n] # NoRow
    <3> DEFINE old == st[n].values
    <3> HIDE DEF old
    <3>1. old \in Seq(Value)
      BY <1>1, <2>2 DEF old
    <3>2. /\ Append(old, v) \in Seq(Value) /\ Len(Append(old, v)) = Len(old) + 1
          /\ Append(old, v)[Len(old) + 1] = v /\ Append(old, v) # <<>>
      BY <3>1
    <3> QED BY <2>2, <3>2 DEF old
  <2> QED BY <2>1, <2>2
<1>3. next = [st EXCEPT ![n] = row]
  BY DEF Port!ApplyOne, Put
<1> HIDE DEF values
<1>4. /\ row \in Secret /\ row # NoRow
      /\ row.state = "active" /\ row.values = values
  BY <1>2, RemoteAssumption DEF Secret
<1> HIDE DEF row, next
<1>5. /\ next \in [Name -> Secret \cup {NoRow}] /\ next[n] = row
      /\ \A k \in Name \ {n} : next[k] = st[k]
  BY <1>3, <1>4 DEF Rows
<1>6. Rows(next)
  BY <1>2, <1>4, <1>5 DEF Rows
<1>7. Latest(next, n) = v /\ Last(next, n) = v
  BY <1>2, <1>4, <1>5 DEF Latest, Last
<1> QED BY <1>5, <1>6, <1>7 DEF next

LEMMA DeleteApplied ==
  ASSUME NEW st, Rows(st), NEW n \in Name
  PROVE  LET next == Port!ApplyOne(st, Delete(n))
         IN  /\ Rows(next) /\ Latest(next, n) = NoValue /\ Last(next, n) = NoValue
             /\ \A k \in Name \ {n} : next[k] = st[k]
<1> DEFINE next == Port!ApplyOne(st, Delete(n))
<1>1. next = [st EXCEPT ![n] = NoRow]
  BY DEF Port!ApplyOne, Delete
<1> HIDE DEF next
<1>2. /\ next \in [Name -> Secret \cup {NoRow}] /\ next[n] = NoRow
      /\ \A k \in Name \ {n} : next[k] = st[k]
  BY <1>1 DEF Rows
<1>3. Rows(next)
  BY <1>2 DEF Rows
<1> QED BY <1>2, <1>3 DEF next, Latest, Last

LEMMA RevokeApplied ==
  ASSUME NEW st, Rows(st), NEW n \in Name, st[n] # NoRow
  PROVE  LET next == Port!ApplyOne(st, [kind |-> "revoke", ref |-> n])
         IN  /\ Rows(next) /\ next[n].state = "revoked" /\ Last(next, n) = Last(st, n)
             /\ \A k \in Name \ {n} : next[k] = st[k]
<1> DEFINE next == Port!ApplyOne(st, [kind |-> "revoke", ref |-> n])
           row == [st[n] EXCEPT !.state = "revoked"]
<1>1. next = [st EXCEPT ![n] = row]
  BY DEF Port!ApplyOne
<1>2. st[n] \in Secret /\ st[n].values # <<>>
  BY DEF Rows
<1>3. row \in Secret /\ row.state = "revoked" /\ row.values = st[n].values
  BY <1>2 DEF Secret
<1> HIDE DEF next, row
<1>4. /\ next \in [Name -> Secret \cup {NoRow}] /\ next[n] = row
      /\ \A k \in Name \ {n} : next[k] = st[k]
  BY <1>1, <1>3 DEF Rows
<1>5. Rows(next)
  BY <1>2, <1>3, <1>4 DEF Rows
<1>6. next[n].state = "revoked" /\ Last(next, n) = Last(st, n)
  BY <1>2, <1>3, <1>4, RemoteAssumption DEF Last
<1> QED BY <1>4, <1>5, <1>6 DEF next

\* The batch of a rename, at one instant.
LEMMA MoveApplied ==
  ASSUME NEW st, Rows(st), NEW n \in Name, NEW m \in Name, NEW v \in Value
  PROVE  LET next == Port!ApplyAll(st, <<Put(m, v), Delete(n)>>)
         IN  /\ Rows(next) /\ Latest(next, n) = NoValue /\ Last(next, n) = NoValue
             /\ m # n => Latest(next, m) = v /\ Last(next, m) = v
             /\ \A k \in Name \ {n, m} : next[k] = st[k]
<1> DEFINE half == Port!ApplyOne(st, Put(m, v))
           next == Port!ApplyOne(half, Delete(n))
<1>1. /\ Rows(half) /\ Latest(half, m) = v /\ Last(half, m) = v
      /\ \A k \in Name \ {m} : half[k] = st[k]
  BY PutApplied
<1> HIDE DEF half
<1>2. /\ Rows(next) /\ Latest(next, n) = NoValue /\ Last(next, n) = NoValue
      /\ \A k \in Name \ {n} : next[k] = half[k]
  BY <1>1, DeleteApplied
<1>3. Port!ApplyAll(st, <<Put(m, v), Delete(n)>>) = next
  BY AppliedTwice DEF half
<1> HIDE DEF next
<1>4. m # n => Latest(next, m) = v /\ Last(next, m) = v
  BY <1>1, <1>2 DEF Latest, Last
<1>5. \A k \in Name \ {n, m} : next[k] = st[k]
  BY <1>1, <1>2
<1> QED BY <1>2, <1>3, <1>4, <1>5

-----------------------------------------------------------------------------
(* Types *)

Carried == [value : Value \cup {NoValue}, batch : Batch \cup {NoRow}]
Counted ==
  calls \in 0 .. MaxCalls /\ refusals \in 0 .. MaxRefusals /\ revokes \in 0 .. MaxRevokes

\* The caller c goes on by itself: the service and the other callers do not.
Leaves(c) ==
  /\ UNCHANGED port
  /\ pending[c] = Port!NoRequest /\ ~sent'[c]
  /\ \A d \in Client \ {c} :
       /\ pc'[d] = pc[d] /\ request'[d] = request[d] /\ sent'[d] = sent[d]
       /\ carried'[d] = carried[d]

LEMMA LeavesTyped ==
  ASSUME Shape, NEW c \in Client, Leaves(c),
         pc' \in [Client -> Label \cup {"idle"}],
         request' \in [Client -> Requests \cup {NoCommand}],
         sent' \in [Client -> BOOLEAN], carried' \in [Client -> Carried],
         outcome' \in [Client -> Codes],
         answer' \in [Client -> [code : Codes, value : Value \cup {NoValue}]],
         used \subseteq used', used' \subseteq Batch, Counted',
         pc'[c] # "idle" => request'[c] \in Requests /\ request'[c].op = OpAt[pc'[c]],
         pc'[c] \in {"put", "exists", "prepare", "commit", "abort"} => carried'[c].value # NoValue,
         pc'[c] \in {"prepare", "commit", "abort"} => carried'[c].batch \in used'
  PROVE  Shape'
<1>1. Chosen'
  BY DEF Shape, Chosen, Leaves
<1>2. TypeOK'
  BY <1>1 DEF Shape, TypeOK, Chosen, Label, Carried, Counted, Leaves, port
<1>3. Labelled'
  BY DEF Shape, Labelled, Leaves
<1>4. InFlight'
  <2> SUFFICES ASSUME NEW d \in Client, pending[d] # Port!NoRequest
               PROVE  /\ sent'[d] /\ pc'[d] \notin {"idle", "exists", "list"}
                      /\ pending[d] = Body(d)'
    BY DEF InFlight, Shape, Leaves, port
  <2>1. d # c /\ sent[d] /\ pc[d] \notin {"idle", "exists", "list"} /\ pending[d] = Body(d)
    BY DEF InFlight, Shape, Leaves
  <2>2. Body(d)' = Body(d)
    BY <2>1 DEF Body, BatchOf, Leaves
  <2> QED BY <2>1, <2>2 DEF Leaves
<1>5. Replies'
  BY DEF Shape, Replies, Told, Leaves, port
<1> QED BY <1>1, <1>2, <1>3, <1>4, <1>5 DEF Shape, Valued, Sealed, Leaves, port

\* At rest, or with the answer that it waited for.
LEMMA Awaited ==
  ASSUME Shape, NEW c \in Client, ~sent[c] \/ pc[c] \in {"idle", "exists", "list"}
  PROVE  pending[c] = Port!NoRequest
BY DEF Shape, InFlight

LEMMA EndsTyped ==
  ASSUME Shape, NEW c \in Client, UNCHANGED port, pending[c] = Port!NoRequest,
         NEW a \in [code : Codes, value : Value \cup {NoValue}], EndsWith(c, a), Counted'
  PROVE  Shape'
<1>1. Leaves(c) /\ pc'[c] = "idle"
  BY DEF EndsWith, Goes, Leaves, Shape, TypeOK
<1>2. /\ pc' \in [Client -> Label \cup {"idle"}] /\ sent' \in [Client -> BOOLEAN]
  BY DEF EndsWith, Goes, Shape, TypeOK, Label
<1>3. /\ request' \in [Client -> Requests \cup {NoCommand}] /\ carried' \in [Client -> Carried]
      /\ outcome' \in [Client -> Codes]
      /\ answer' \in [Client -> [code : Codes, value : Value \cup {NoValue}]]
      /\ used' = used /\ used' \subseteq Batch
  BY DEF EndsWith, Shape, TypeOK, Codes, Carried, Nothing
<1> QED BY <1>1, <1>2, <1>3, LeavesTyped

LEMMA CodeTyped ==
  ASSUME Shape, NEW c \in Client
  PROVE  /\ Code(c) \in Codes
         /\ Code(c) = "Ok" <=> reply[c].code = "Ok"
         /\ reply[c].code \in ReplyCode /\ reply[c].value \in Value \cup {NoValue}
<1>1. reply[c] \in ReplyType
  BY DEF Shape, Replies
<1>2. reply[c].code \in ReplyCode /\ reply[c].value \in Value \cup {NoValue}
  BY <1>1 DEF ReplyType
<1> QED BY <1>2, RefusalTyped DEF Code

LEMMA EndsCodeTyped ==
  ASSUME Shape, NEW c \in Client, UNCHANGED port, pending[c] = Port!NoRequest,
         NEW code \in Codes, Ends(c, code), Counted'
  PROVE  Shape'
<1>1. Answer(code) \in [code : Codes, value : Value \cup {NoValue}]
  BY DEF Answer
<1> QED BY <1>1, EndsTyped DEF Ends

\* The caller goes on at another label of the same command.
LEMMA GoesTyped ==
  ASSUME Shape, NEW c \in Client, UNCHANGED port, pending[c] = Port!NoRequest,
         pc[c] # "idle", NEW label \in Label, Goes(c, label), OpAt[label] = OpAt[pc[c]],
         UNCHANGED <<request, answer>>, Counted',
         NEW w \in Carried, carried' = [carried EXCEPT ![c] = w],
         label \in {"put", "exists", "prepare", "commit", "abort"} => w.value # NoValue,
         label \in {"prepare", "commit", "abort"} => w.batch \in used',
         outcome' \in [Client -> Codes], used \subseteq used', used' \subseteq Batch
  PROVE  Shape'
<1>1. /\ pc' \in [Client -> Label \cup {"idle"}] /\ sent' \in [Client -> BOOLEAN]
      /\ pc'[c] = label /\ ~sent'[c]
      /\ \A d \in Client \ {c} : pc'[d] = pc[d] /\ sent'[d] = sent[d]
  BY DEF Goes, Shape, TypeOK, Label
<1>2. /\ carried \in [Client -> Carried] /\ request' \in [Client -> Requests \cup {NoCommand}]
      /\ answer' \in [Client -> [code : Codes, value : Value \cup {NoValue}]]
  BY DEF Shape, TypeOK, Carried
<1>3. carried' \in [Client -> Carried] /\ carried'[c] = w
      /\ \A d \in Client \ {c} : carried'[d] = carried[d]
  BY <1>2
<1>4. Leaves(c)
  BY <1>1, <1>3 DEF Leaves
<1>5. request'[c] \in Requests /\ request'[c].op = OpAt[label]
  BY DEF Shape, Labelled
<1> QED BY <1>1, <1>2, <1>3, <1>4, <1>5, LeavesTyped

LEMMA StartTyped ==
  ASSUME Shape, NEW c \in Client, NEW rq \in Requests, Start(c, rq)
  PROVE  Shape'
<1> DEFINE label == CASE rq.op = "read" -> "get" [] rq.op = "write" -> "put"
                      [] rq.op = "rename" -> "fetch" [] OTHER -> rq.op
           w == IF rq.op = "write" THEN [Nothing EXCEPT !.value = calls + 1] ELSE Nothing
<1>1. rq.op \in {"read", "write", "delete", "rename", "list"}
  BY RemoteAssumption DEF Request
<1>2. label \in {"get", "put", "delete", "fetch", "list"} /\ OpAt[label] = rq.op
  BY <1>1 DEF OpAt
<1>3. label = "put" <=> rq.op = "write"
  BY <1>1
<1>4. calls \in 0 .. MaxCalls /\ calls < MaxCalls /\ calls' = calls + 1
  BY DEF Start, Shape, TypeOK
<1>5. calls + 1 \in Value /\ calls + 1 # NoValue /\ Counted'
  BY <1>4, RemoteAssumption DEF Start, Shape, TypeOK, Counted, Value
<1>6. w \in Carried /\ (label = "put" => w.value # NoValue)
  BY <1>3, <1>5 DEF Nothing, Carried
<1>7. Goes(c, label) /\ carried' = [carried EXCEPT ![c] = w]
  BY DEF Start
<1> HIDE DEF label, w
<1>8. /\ pc' \in [Client -> Label \cup {"idle"}] /\ sent' \in [Client -> BOOLEAN]
      /\ pc'[c] = label /\ ~sent'[c]
      /\ \A d \in Client \ {c} : pc'[d] = pc[d] /\ sent'[d] = sent[d]
  BY <1>2, <1>7 DEF Goes, Shape, TypeOK, Label
<1>9. carried \in [Client -> Carried]
  BY DEF Shape, TypeOK, Carried
<1>10. /\ carried' \in [Client -> Carried] /\ carried'[c] = w
       /\ \A d \in Client \ {c} : carried'[d] = carried[d]
  BY <1>6, <1>7, <1>9
<1>11. /\ request' \in [Client -> Requests \cup {NoCommand}] /\ request'[c] = rq
       /\ \A d \in Client \ {c} : request'[d] = request[d]
  BY DEF Start, Shape, TypeOK
<1>12. /\ outcome' \in [Client -> Codes] /\ used' = used /\ used' \subseteq Batch
       /\ answer' \in [Client -> [code : Codes, value : Value \cup {NoValue}]]
  BY DEF Start, Shape, TypeOK
<1>13. Leaves(c)
  BY <1>8, <1>10, <1>11, Awaited DEF Leaves, Start
<1> QED BY <1>2, <1>5, <1>6, <1>8, <1>10, <1>11, <1>12, <1>13, LeavesTyped

LEMMA SendTyped ==
  ASSUME Shape, NEW c \in Client, Send(c)
  PROVE  Shape'
<1>1. /\ pc[c] \notin {"idle", "exists", "list"} /\ ~sent[c]
      /\ UNCHANGED <<pc, request, carried, outcome, answer, used, calls, refusals, revokes>>
      /\ UNCHANGED <<store, batches, reply>>
  BY DEF Send, Port!Ask, bounds
<1>2. /\ sent' \in [Client -> BOOLEAN] /\ sent'[c]
      /\ \A d \in Client \ {c} : sent'[d] = sent[d]
  BY DEF Send, Shape, TypeOK
<1>3. /\ DOMAIN pending' = Client /\ pending'[c] = Body(c)
      /\ \A d \in Client \ {c} : pending'[d] = pending[d]
  BY DEF Send, Port!Ask, Shape, InFlight
<1>4. \A d \in Client : Body(d)' = Body(d)
  BY <1>1 DEF Body, BatchOf
<1>5. Body(c).op # "none"
  BY <1>1 DEF Body, Shape, TypeOK
<1>6. pending'[c] # Port!NoRequest
  BY <1>3, <1>5 DEF Port!NoRequest
<1>7. InFlight'
  BY <1>1, <1>2, <1>3, <1>4 DEF Shape, InFlight
<1>8. Replies'
  BY <1>1, <1>2, <1>3, <1>6 DEF Shape, Replies, Told
<1>9. TypeOK'
  BY <1>1, <1>2 DEF Shape, TypeOK
<1>10. (Labelled /\ Valued /\ Sealed /\ Chosen)'
  BY <1>1 DEF Shape, Labelled, Valued, Sealed, Chosen
<1> QED BY <1>7, <1>8, <1>9, <1>10 DEF Shape

LEMMA CallerTyped ==
  ASSUME Shape, NEW c \in Client,
         \/ Read(c) \/ Write(c) \/ DeleteTold(c) \/ Fetched(c) \/ Exists(c)
         \/ Prepared(c) \/ Committed(c) \/ Aborted(c) \/ List(c) \/ Refused(c)
  PROVE  Shape'
<1>1. /\ Code(c) \in Codes /\ outcome[c] \in Codes
      /\ reply[c].value \in Value \cup {NoValue}
      /\ carried[c] \in Carried /\ carried \in [Client -> Carried]
      /\ used \subseteq Batch /\ outcome \in [Client -> Codes]
      /\ Counted
  BY CodeTyped DEF Shape, TypeOK, Carried, Counted
<1>2. /\ Here => UNCHANGED port /\ Counted'
      /\ \A label : Told(c, label) =>
           pc[c] = label /\ sent[c] /\ pending[c] = Port!NoRequest
  BY <1>1 DEF Here, Told, bounds, Counted
<1>3. CASE Read(c)
  BY <1>1, <1>2, <1>3, EndsTyped DEF Read
<1>4. CASE Write(c)
  <2>1. PICK code \in Codes : Ends(c, code)
    BY <1>1, <1>4 DEF Write, Codes
  <2> QED BY <1>2, <1>4, <2>1, EndsCodeTyped DEF Write
<1>5. CASE DeleteTold(c)
  BY <1>1, <1>2, <1>5, EndsCodeTyped DEF DeleteTold
<1>6. CASE Fetched(c)
  <2>1. CASE Ends(c, Code(c))
    BY <1>1, <1>2, <1>6, <2>1, EndsCodeTyped DEF Fetched
  <2>2. CASE /\ Code(c) = "Ok" /\ Goes(c, "exists")
             /\ carried' = [carried EXCEPT ![c].value = reply[c].value]
             /\ UNCHANGED <<request, outcome, answer, used>>
    <3> DEFINE w == [carried[c] EXCEPT !.value = reply[c].value]
    <3>1. Told(c, "fetch") /\ reply[c].value # NoValue
      BY <1>6, <2>2, CodeTyped DEF Fetched, Shape, Replies
    <3>2. w \in Carried /\ w.value # NoValue /\ carried' = [carried EXCEPT ![c] = w]
      BY <1>1, <2>2, <3>1 DEF Carried
    <3> HIDE DEF w
    <3>3. OpAt["exists"] = OpAt["fetch"] /\ "exists" \in Label
      BY DEF OpAt, Label
    <3>4. pc[c] = "fetch" /\ pending[c] = Port!NoRequest /\ UNCHANGED port /\ Counted'
      BY <1>2, <1>6 DEF Fetched
    <3>5. /\ used' = used /\ used' \subseteq Batch /\ outcome' \in [Client -> Codes]
          /\ Goes(c, "exists") /\ UNCHANGED <<request, answer>>
      BY <1>1, <2>2
    <3> QED BY <3>2, <3>3, <3>4, <3>5, GoesTyped
  <2> QED BY <1>6, <2>1, <2>2 DEF Fetched
<1>7. CASE Exists(c)
  <2>0. pending[c] = Port!NoRequest /\ pc[c] = "exists" /\ UNCHANGED port /\ Counted'
    BY <1>2, <1>7, Awaited DEF Exists
  <2>1. CASE Ends(c, "Conflict") \/ Ends(c, "Unavailable")
    BY <2>0, <2>1, EndsCodeTyped DEF Codes
  <2>2. CASE \E b \in Batch \ used :
               /\ Goes(c, "prepare")
               /\ carried' = [carried EXCEPT ![c].batch = b]
               /\ used' = used \cup {b}
               /\ UNCHANGED <<request, outcome, answer>>
    <3>1. PICK b \in Batch \ used :
               /\ Goes(c, "prepare")
               /\ carried' = [carried EXCEPT ![c].batch = b]
               /\ used' = used \cup {b}
               /\ UNCHANGED <<request, outcome, answer>>
      BY <2>2
    <3> DEFINE w == [carried[c] EXCEPT !.batch = b]
    <3>2. carried[c].value # NoValue
      BY <2>0 DEF Shape, Chosen
    <3>3. /\ w \in Carried /\ w.value # NoValue /\ w.batch = b
          /\ carried' = [carried EXCEPT ![c] = w]
      BY <1>1, <3>1, <3>2 DEF Carried
    <3> HIDE DEF w
    <3>4. OpAt["exists"] = OpAt["prepare"] /\ "prepare" \in Label
      BY DEF OpAt, Label
    <3>5. used \subseteq used' /\ used' \subseteq Batch /\ b \in used'
          /\ outcome' \in [Client -> Codes]
      BY <1>1, <3>1
    <3> QED BY <2>0, <3>1, <3>3, <3>4, <3>5, GoesTyped
  <2> QED BY <1>7, <2>1, <2>2 DEF Exists
<1>8. CASE Prepared(c)
  <2>1. CASE Ends(c, Code(c))
    BY <1>1, <1>2, <1>8, <2>1, EndsCodeTyped DEF Prepared
  <2>2. CASE Continues(c, "commit")
    <3>1. /\ pc[c] = "prepare" /\ pending[c] = Port!NoRequest /\ UNCHANGED port /\ Counted'
      BY <1>2, <1>8 DEF Prepared
    <3>2. carried[c].value # NoValue /\ carried[c].batch \in used
      BY <3>1 DEF Shape, Chosen
    <3>3. OpAt["prepare"] = OpAt["commit"] /\ "commit" \in Label
      BY DEF OpAt, Label
    <3>4. carried' = [carried EXCEPT ![c] = carried[c]]
      BY <1>1, <2>2 DEF Continues
    <3>5. used' = used /\ outcome' \in [Client -> Codes] /\ Goes(c, "commit")
          /\ UNCHANGED <<request, answer>>
      BY <1>1, <2>2 DEF Continues
    <3> QED BY <1>1, <3>1, <3>2, <3>3, <3>4, <3>5, GoesTyped
  <2> QED BY <1>8, <2>1, <2>2 DEF Prepared
<1>9. ASSUME pc[c] = "commit", pending[c] = Port!NoRequest, UNCHANGED port, Counted',
             Goes(c, "abort"), NEW code \in Codes, outcome' = [outcome EXCEPT ![c] = code],
             UNCHANGED <<request, carried, answer, used>>
      PROVE  Shape'
  <2>1. carried[c].value # NoValue /\ carried[c].batch \in used
    BY <1>9 DEF Shape, Chosen
  <2>2. OpAt["abort"] = OpAt["commit"] /\ "abort" \in Label
    BY DEF OpAt, Label
  <2>3. carried' = [carried EXCEPT ![c] = carried[c]]
    BY <1>1, <1>9
  <2>4. used' = used /\ outcome' \in [Client -> Codes] /\ UNCHANGED <<request, answer>>
    BY <1>1, <1>9
  <2> QED BY <1>1, <1>9, <2>1, <2>2, <2>3, <2>4, GoesTyped
<1>10. CASE Committed(c)
  <2>1. CASE Ends(c, "Ok")
    BY <1>2, <1>10, <2>1, EndsCodeTyped DEF Committed, Codes
  <2>2. CASE /\ Goes(c, "abort") /\ outcome' = [outcome EXCEPT ![c] = Code(c)]
             /\ UNCHANGED <<request, carried, answer, used>>
    BY <1>1, <1>2, <1>9, <1>10, <2>2 DEF Committed
  <2> QED BY <1>10, <2>1, <2>2 DEF Committed
<1>11. CASE Aborted(c)
  BY <1>1, <1>2, <1>11, EndsCodeTyped DEF Aborted
<1>12. CASE List(c)
  <2>1. PICK code \in Codes : Ends(c, code)
    BY <1>12 DEF List, Codes
  <2>2. pending[c] = Port!NoRequest
    BY <1>12, Awaited DEF List
  <2> QED BY <1>2, <1>12, <2>1, <2>2, EndsCodeTyped DEF List
<1>13. CASE Refused(c)
  <2>1. /\ pending[c] = Port!NoRequest /\ UNCHANGED port
        /\ refusals' = refusals + 1 /\ refusals < MaxRefusals
        /\ calls' = calls /\ revokes' = revokes
    BY <1>13, Awaited DEF Refused
  <2>2. Counted'
    BY <1>1, <2>1, RemoteAssumption DEF Counted
  <2>3. CASE Ends(c, "Denied")
    BY <2>1, <2>2, <2>3, EndsCodeTyped DEF Codes
  <2>4. CASE Ends(c, outcome[c])
    BY <1>1, <2>1, <2>2, <2>4, EndsCodeTyped
  <2>5. CASE /\ pc[c] = "commit" /\ Goes(c, "abort")
             /\ outcome' = [outcome EXCEPT ![c] = "Denied"]
             /\ UNCHANGED <<request, carried, answer, used>>
    <3>1. "Denied" \in Codes
      BY DEF Codes
    <3> QED BY <1>9, <2>1, <2>2, <2>5, <3>1
  <2> QED BY <1>13, <2>3, <2>4, <2>5 DEF Refused
<1> QED BY <1>3, <1>4, <1>5, <1>6, <1>7, <1>8, <1>10, <1>11, <1>12, <1>13

-----------------------------------------------------------------------------
(* The service *)

\* What a request in flight is, by its operation.
LEMMA RequestIs ==
  ASSUME Shape, NEW c \in Client, pending[c].op # "none"
  PROVE  /\ pending[c] # Port!NoRequest /\ sent[c] /\ request[c].name \in Name
         /\ \/ /\ pc[c] \in {"get", "fetch"} /\ pending[c].op = "get"
               /\ pending[c].ref = request[c].name
            \/ /\ pc[c] = "put" /\ pending[c].op = "put" /\ carried[c].value \in Value
               /\ pending[c].muts = <<Put(request[c].name, carried[c].value)>>
            \/ /\ pc[c] = "delete" /\ pending[c].op = "delete"
               /\ pending[c].muts = <<Delete(request[c].name)>>
            \/ /\ pc[c] = "prepare" /\ pending[c].op = "prepare"
               /\ pending[c].muts = BatchOf(c) /\ BatchOf(c) \in Moves
               /\ pending[c].batch = carried[c].batch /\ carried[c].batch \in Batch
            \/ /\ pc[c] \in {"commit", "abort"} /\ pending[c].op = pc[c]
               /\ pending[c].batch = carried[c].batch /\ carried[c].batch \in Batch
<1>1. pending[c] # Port!NoRequest
  BY DEF Port!NoRequest
<1>2. /\ sent[c] /\ pc[c] \notin {"idle", "exists", "list"} /\ pending[c] = Body(c)
      /\ pc[c] \in Label
  BY <1>1 DEF Shape, InFlight, TypeOK, Label
<1>3. /\ request[c].name \in Name
      /\ pc[c] \in {"fetch", "exists", "prepare", "commit", "abort"} =>
           request[c].new_name \in Name
  BY <1>2, NamesAt
<1>4. pc[c] \in {"put", "prepare"} => carried[c].value \in Value
  BY DEF Shape, TypeOK, Chosen
<1>5. pc[c] \in {"prepare", "commit", "abort"} => carried[c].batch \in Batch
  BY DEF Shape, TypeOK, Chosen
<1>6. pc[c] = "prepare" => BatchOf(c) \in Moves
  BY <1>3, <1>4 DEF BatchOf, Moves
<1>7. CASE pc[c] \in {"get", "fetch"}
  BY <1>1, <1>2, <1>3, <1>7 DEF Body
<1>8. CASE pc[c] = "put"
  BY <1>1, <1>2, <1>3, <1>4, <1>8 DEF Body
<1>9. CASE pc[c] = "delete"
  BY <1>1, <1>2, <1>3, <1>9 DEF Body
<1>10. CASE pc[c] = "prepare"
  BY <1>1, <1>2, <1>3, <1>5, <1>6, <1>10 DEF Body
<1>11. CASE pc[c] \in {"commit", "abort"}
  BY <1>1, <1>2, <1>3, <1>5, <1>11 DEF Body
<1> QED BY <1>2, <1>7, <1>8, <1>9, <1>10, <1>11 DEF Label

\* The service answers: nothing but its own state changes.
LEMMA ReturnTyped ==
  ASSUME Shape, NEW c \in Client, NEW r \in ReplyType, Port!Return(c, r),
         pc[c] = "fetch" /\ r.code = "Ok" => r.value # NoValue,
         Rows(store'), Sealed', UNCHANGED <<local, bounds>>
  PROVE  Shape'
<1>1. /\ DOMAIN pending' = Client
      /\ \A d \in Client : pending'[d] = IF d = c THEN Port!NoRequest ELSE pending[d]
  BY DEF Port!Return, Shape, InFlight
<1>2. /\ reply' \in [Client -> ReplyType]
      /\ \A d \in Client : reply'[d] = IF d = c THEN r ELSE reply[d]
  BY DEF Port!Return, Shape, Replies
<1>3. \A d \in Client : Body(d)' = Body(d)
  BY DEF Body, BatchOf, local
<1>4. InFlight'
  BY <1>1, <1>3 DEF Shape, InFlight, local
<1>5. Replies'
  <2> SUFFICES ASSUME NEW d \in Client, Told(d, "fetch")', reply'[d].code = "Ok"
               PROVE  reply'[d].value # NoValue
    BY <1>2 DEF Replies
  <2>1. CASE d = c
    BY <1>2, <2>1 DEF Told, local
  <2>2. CASE d # c
    BY <1>1, <1>2, <2>2 DEF Told, local, Shape, Replies
  <2> QED BY <2>1, <2>2
<1>6. (TypeOK /\ Valued)'
  BY DEF Rows, Shape, TypeOK, Valued, local, bounds
<1>7. (Labelled /\ Chosen)'
  BY DEF Shape, Labelled, Chosen, local
<1> QED BY <1>4, <1>5, <1>6, <1>7 DEF Shape

\* The service goes on without an answer.
LEMMA QuietTyped ==
  ASSUME Shape, UNCHANGED <<pending, reply, local>>, Rows(store'), Sealed', Counted'
  PROVE  Shape'
<1>1. \A d \in Client : Body(d)' = Body(d)
  BY DEF Body, BatchOf, local
<1>2. InFlight'
  BY <1>1 DEF Shape, InFlight, local
<1>3. (TypeOK /\ Valued)'
  BY DEF Rows, Shape, TypeOK, Valued, local, Counted
<1>4. (Labelled /\ Chosen /\ Replies)'
  BY DEF Shape, Labelled, Chosen, Replies, Told, local
<1> QED BY <1>2, <1>3, <1>4 DEF Shape

LEMMA DoneReturns ==
  ASSUME NEW c, NEW n \in Nat, Port!Done(c, n)
  PROVE  \E r \in ReplyType : /\ Port!Return(c, r) /\ r.code \in {"Ok", "Unavailable"}
                              /\ r.value = NoValue
<1>1. "Ok" \in ReplyCode /\ "Unavailable" \in ReplyCode
  BY DEF ReplyCode
<1>2. PICK r \in {[Port!Answer("Ok") EXCEPT !.version = n], Port!Answer("Unavailable")} :
        Port!Return(c, r)
  BY DEF Port!Done
<1>3. r \in ReplyType /\ r.code \in {"Ok", "Unavailable"} /\ r.value = NoValue
  <2>1. CASE r = Port!Answer("Unavailable")
    BY <1>1, <2>1, AnswerTyped
  <2>2. CASE r = [Port!Answer("Ok") EXCEPT !.version = n]
    BY <2>2 DEF Port!Answer, ReplyType, ReplyCode
  <2> QED BY <1>2, <2>1, <2>2
<1> QED BY <1>2, <1>3

LEMMA RowsOfShape ==
  ASSUME Shape
  PROVE  /\ Rows(store)
         /\ \A n \in Name : /\ Last(store, n) \in Value \cup {NoValue}
                              /\ Latest(store, n) \in {Last(store, n), NoValue}
<1>1. Rows(store)
  BY DEF Shape, TypeOK, Valued, Rows
<1> QED BY <1>1, LatestTyped

\* put and delete.
LEMMA MutateIs ==
  ASSUME Shape, NEW c \in Client, Port!Mutate(c)
  PROVE  /\ pc[c] \in {"put", "delete"} /\ sent[c] /\ request[c].name \in Name
         /\ pc[c] = "put" => /\ carried[c].value \in Value
                             /\ store' =
                                  Port!ApplyOne(store, Put(request[c].name, carried[c].value))
         /\ pc[c] = "delete" => store' = Port!ApplyOne(store, Delete(request[c].name))
         /\ Rows(store') /\ UNCHANGED batches /\ pending[c] # Port!NoRequest
         /\ \E r \in ReplyType : /\ Port!Return(c, r) /\ r.code \in {"Ok", "Unavailable"}
                                 /\ r.value = NoValue
<1>1. pending[c].op \in {"put", "delete", "revoke"}
  BY DEF Port!Mutate
<1>2. /\ pc[c] \in {"put", "delete"} /\ sent[c] /\ request[c].name \in Name
      /\ pending[c] # Port!NoRequest
      /\ pc[c] = "put" => /\ carried[c].value \in Value
                          /\ pending[c].muts = <<Put(request[c].name, carried[c].value)>>
      /\ pc[c] = "delete" => pending[c].muts = <<Delete(request[c].name)>>
  BY <1>1, RequestIs
<1>3. /\ pc[c] = "put" =>
           store' = Port!ApplyOne(store, Put(request[c].name, carried[c].value))
      /\ pc[c] = "delete" => store' = Port!ApplyOne(store, Delete(request[c].name))
  BY <1>2, AppliedOnce DEF Port!Mutate
<1>4. Rows(store')
  BY <1>2, <1>3, RowsOfShape, PutApplied, DeleteApplied
<1>5. pending[c].muts[1].ref = request[c].name
  BY <1>2 DEF Put, Delete
<1> DEFINE n == IF store'[request[c].name] = NoRow THEN 0 ELSE Len(store'[request[c].name].values)
<1>6. n \in Nat
  BY <1>2, <1>4 DEF Rows, Secret
<1>7. Port!Done(c, n)
  BY <1>5 DEF Port!Mutate
<1> HIDE DEF n
<1> QED BY <1>2, <1>3, <1>4, <1>6, <1>7, DoneReturns DEF Port!Mutate

\* The batch of a rename, whole.
LEMMA CommitIs ==
  ASSUME Shape, NEW c \in Client, Port!Commit(c)
  PROVE  /\ pc[c] = "commit" /\ sent[c] /\ carried[c].batch \in Batch
         /\ pending[c] # Port!NoRequest /\ batches[carried[c].batch] # NoRow
         /\ batches[carried[c].batch].muts \in Moves
         /\ store' = Port!ApplyAll(store, batches[carried[c].batch].muts)
         /\ batches' = [batches EXCEPT ![carried[c].batch] = NoRow]
         /\ Rows(store')
         /\ \E r \in ReplyType : /\ Port!Return(c, r) /\ r.code \in {"Ok", "Unavailable"}
                                 /\ r.value = NoValue
<1>1. /\ pc[c] = "commit" /\ sent[c] /\ pending[c] # Port!NoRequest
      /\ pending[c].batch = carried[c].batch /\ carried[c].batch \in Batch
  BY RequestIs DEF Port!Commit
<1> DEFINE muts == batches[carried[c].batch].muts
<1>2. /\ batches[carried[c].batch] # NoRow /\ store' = Port!ApplyAll(store, muts)
      /\ batches' = [batches EXCEPT ![carried[c].batch] = NoRow]
      /\ Port!Done(c, 0)
  BY <1>1 DEF Port!Commit
<1>3. muts \in Moves
  BY <1>1, <1>2 DEF Shape, Sealed
<1>4. Rows(store')
  <2>1. PICK n \in Name, m \in Name, v \in Value : muts = <<Put(m, v), Delete(n)>>
    BY <1>3 DEF Moves
  <2> HIDE DEF muts
  <2> QED BY <1>2, <2>1, RowsOfShape, MoveApplied
<1>5. 0 \in Nat
  OBVIOUS
<1> HIDE DEF muts
<1>6. \E r \in ReplyType : /\ Port!Return(c, r) /\ r.code \in {"Ok", "Unavailable"}
                           /\ r.value = NoValue
  BY <1>2, <1>5, DoneReturns
<1> QED BY <1>1, <1>2, <1>3, <1>4, <1>6 DEF muts

LEMMA WithoutTyped ==
  ASSUME Shape, NEW gone, batches' = Port!Without(gone)
  PROVE  Sealed' /\ \A b \in Batch : batches'[b] \in {batches[b], NoRow}
BY DEF Shape, Sealed, Port!Without

\* The other requests leave the store alone, and give no batch to whoever has none.
Other(c) ==
  \/ Port!Get(c) \/ Port!Prepare(c) \/ Port!Abort(c) \/ Port!Refuse(c) \/ Port!Lapse(c)
LEMMA OtherIs ==
  ASSUME Shape, NEW c \in Client, Other(c)
  PROVE  /\ UNCHANGED store /\ Sealed' /\ pending[c] # Port!NoRequest /\ sent[c]
         /\ \A b \in Batch : \/ batches'[b] \in {batches[b], NoRow}
                             \/ /\ pc[c] = "prepare" /\ b = carried[c].batch
                                /\ batches'[b].muts = BatchOf(c)
         /\ \E r \in ReplyType :
              /\ Port!Return(c, r)
              /\ r.value # NoValue =>
                   /\ pc[c] \in {"get", "fetch"} /\ r.code = "Ok"
                   /\ r.value = Latest(store, request[c].name)
              /\ pc[c] = "fetch" /\ r.code = "Ok" => r.value # NoValue
              /\ pc[c] = "commit" => r.code # "Ok"
<1> DEFINE Says(r) ==
             /\ Port!Return(c, r)
             /\ r.value # NoValue =>
                  /\ pc[c] \in {"get", "fetch"} /\ r.code = "Ok"
                  /\ r.value = Latest(store, request[c].name)
             /\ pc[c] = "fetch" /\ r.code = "Ok" => r.value # NoValue
             /\ pc[c] = "commit" => r.code # "Ok"
<1>1. ASSUME NEW code \in ReplyCode \ {"Ok"}, Port!Return(c, Port!Answer(code))
      PROVE  \E r \in ReplyType : Says(r)
  <2>1. /\ Port!Answer(code) \in ReplyType
        /\ Port!Answer(code).code = code /\ Port!Answer(code).value = NoValue
    BY AnswerTyped
  <2> QED BY <1>1, <2>1
<1>2. ASSUME Port!Done(c, 0), pc[c] \in {"prepare", "abort"}
      PROVE  \E r \in ReplyType : Says(r)
  <2>1. 0 \in Nat
    OBVIOUS
  <2> QED BY <1>2, <2>1, DoneReturns
<1>3. CASE Port!Get(c)
  <2>1. /\ pc[c] \in {"get", "fetch"} /\ sent[c] /\ pending[c] # Port!NoRequest
        /\ pending[c].ref = request[c].name /\ request[c].name \in Name
    BY <1>3, RequestIs DEF Port!Get
  <2> DEFINE s == store[request[c].name]
  <2>2. UNCHANGED <<store, batches>>
    BY <1>3 DEF Port!Get
  <2>3. CASE s # NoRow /\ s.state = "active" /\ Port!Return(c, Port!Newest(s))
    <3> DEFINE r == [code |-> "Ok", version |-> Len(s.values), value |-> s.values[Len(s.values)]]
    <3>1. Latest(store, request[c].name) = s.values[Len(s.values)]
      BY <2>3 DEF Latest
    <3>2. s \in Secret /\ s.values # <<>> /\ s.values \in Seq(Value)
      BY <2>1, <2>3 DEF Shape, TypeOK, Valued, Secret
    <3> DEFINE values == s.values
    <3>3. values \in Seq(Value) /\ values # <<>>
      BY <3>2
    <3> HIDE DEF values
    <3>4. Len(values) \in 1 .. Len(values)
      BY <3>3
    <3>5. values[Len(values)] \in Value /\ Len(values) \in Nat
      BY <3>3, <3>4
    <3>6. /\ r \in ReplyType /\ r.code = "Ok" /\ r.value = Latest(store, request[c].name)
          /\ r.value \in Value
      BY <3>1, <3>5 DEF values, ReplyType, ReplyCode
    <3>7. Port!Return(c, r) /\ r.value # NoValue
      BY <2>3, <3>6, RemoteAssumption DEF Value, Port!Newest
    <3> HIDE DEF r
    <3>8. Says(r)
      BY <2>1, <3>6, <3>7
    <3> QED BY <2>1, <2>2, <3>6, <3>8 DEF Shape, Sealed
  <2>4. CASE Port!Return(c, Port!Answer("NotFound"))
    <3>1. "NotFound" \in ReplyCode \ {"Ok"}
      BY DEF ReplyCode
    <3>2. \E r \in ReplyType : Says(r)
      BY <1>1, <2>4, <3>1
    <3> QED BY <2>1, <2>2, <3>2 DEF Shape, Sealed
  <2>5. \/ s # NoRow /\ s.state = "active" /\ Port!Return(c, Port!Newest(s))
        \/ Port!Return(c, Port!Answer("NotFound"))
    BY <1>3, <2>1, Zenon DEF Port!Get
  <2> QED BY <2>3, <2>4, <2>5
<1>4. CASE Port!Prepare(c)
  <2>1. /\ pc[c] = "prepare" /\ sent[c] /\ pending[c] # Port!NoRequest
        /\ pending[c].batch = carried[c].batch /\ carried[c].batch \in Batch
        /\ pending[c].muts = BatchOf(c) /\ BatchOf(c) \in Moves
    BY <1>4, RequestIs DEF Port!Prepare
  <2>2. PICK expiry :
          batches' = [batches EXCEPT ![carried[c].batch] =
                        [column |-> expiry, sealed |-> expiry, muts |-> BatchOf(c)]]
    BY <1>4, <2>1 DEF Port!Prepare
  <2>3. /\ DOMAIN batches' = Batch
        /\ \A b \in Batch : \/ batches'[b] = batches[b]
                            \/ b = carried[c].batch /\ batches'[b].muts = BatchOf(c)
    BY <2>2 DEF Shape, Sealed
  <2>4. Sealed'
    BY <2>1, <2>3 DEF Shape, Sealed
  <2>5. UNCHANGED store /\ Port!Done(c, 0)
    BY <1>4 DEF Port!Prepare
  <2>6. \E r \in ReplyType : Says(r)
    BY <1>2, <2>1, <2>5
  <2> QED BY <2>1, <2>3, <2>4, <2>5, <2>6
<1>5. CASE Port!Abort(c)
  <2>1. /\ pc[c] = "abort" /\ sent[c] /\ pending[c] # Port!NoRequest
        /\ pending[c].batch = carried[c].batch /\ carried[c].batch \in Batch
    BY <1>5, RequestIs DEF Port!Abort
  <2>2. /\ batches' = [batches EXCEPT ![carried[c].batch] = NoRow]
        /\ UNCHANGED store /\ Port!Done(c, 0)
    BY <1>5, <2>1 DEF Port!Abort
  <2>3. Sealed' /\ \A b \in Batch : batches'[b] \in {batches[b], NoRow}
    BY <2>2 DEF Shape, Sealed
  <2>4. \E r \in ReplyType : Says(r)
    BY <1>2, <2>1, <2>2
  <2> QED BY <2>1, <2>2, <2>3, <2>4
<1>6. CASE Port!Refuse(c)
  <2>1. PICK code \in {"Unavailable", "NotFound", "Crypto", "Invalid", "Conflict",
                       "DeleteTargetMissing"} : Port!Return(c, Port!Answer(code))
    BY <1>6 DEF Port!Refuse
  <2>2. code \in ReplyCode \ {"Ok"}
    BY <2>1 DEF ReplyCode
  <2>3. \E r \in ReplyType : Says(r)
    BY <1>1, <2>1, <2>2
  <2>4. pending[c] # Port!NoRequest /\ UNCHANGED <<store, batches>>
    BY <1>6 DEF Port!Refuse
  <2> QED BY <2>3, <2>4 DEF Shape, Sealed, InFlight
<1>7. CASE Port!Lapse(c)
  <2>1. pc[c] = "commit" /\ sent[c] /\ pending[c] # Port!NoRequest
    BY <1>7, RequestIs DEF Port!Lapse
  <2>2. PICK code \in {"NotFound", "Unavailable"} : Port!Return(c, Port!Answer(code))
    BY <1>7 DEF Port!Lapse
  <2>3. code \in ReplyCode \ {"Ok"}
    BY <2>2 DEF ReplyCode
  <2>4. \E r \in ReplyType : Says(r)
    BY <1>1, <2>2, <2>3
  <2>5. UNCHANGED store /\ batches' = Port!Without({pending[c].batch})
    BY <1>7 DEF Port!Lapse
  <2>6. Sealed' /\ \A b \in Batch : batches'[b] \in {batches[b], NoRow}
    BY <2>5, WithoutTyped
  <2> QED BY <2>1, <2>4, <2>5, <2>6
<1> QED BY <1>3, <1>4, <1>5, <1>6, <1>7 DEF Other

LEMMA RevokeTyped ==
  ASSUME Shape, NEW n \in Name, Revoke(n)
  PROVE  /\ Shape' /\ store'[n].state = "revoked" /\ Last(store', n) = Last(store, n)
         /\ \A k \in Name \ {n} : store'[k] = store[k]
<1>1. Rows(store) /\ store[n] # NoRow
  BY RowsOfShape DEF Revoke, Active
<1>2. /\ Rows(store') /\ store'[n].state = "revoked" /\ Last(store', n) = Last(store, n)
      /\ \A k \in Name \ {n} : store'[k] = store[k]
  BY <1>1, RevokeApplied DEF Revoke
<1>3. Counted'
  BY RemoteAssumption DEF Revoke, Counted, Shape, TypeOK
<1>4. Sealed' /\ UNCHANGED <<pending, reply, local>>
  BY DEF Revoke, Shape, Sealed
<1> QED BY <1>2, <1>3, <1>4, QuietTyped

\* The service forgets expired batches, or its clock goes on.
Idles == Port!Forget \/ Port!Tick \/ \E c \in Client : Port!Restamp(c)
LEMMA IdlesIs ==
  ASSUME Shape, Idles
  PROVE  /\ UNCHANGED <<store, pending, reply>>
         /\ Sealed' /\ \A b \in Batch : batches'[b] \in {batches[b], NoRow}
<1>1. CASE Port!Forget
  <2>1. PICK gone : batches' = Port!Without(gone)
    BY <1>1 DEF Port!Forget
  <2> QED BY <1>1, <2>1, WithoutTyped DEF Port!Forget
<1>2. CASE Port!Tick
  BY <1>2 DEF Port!Tick, Shape, Sealed
<1>3. CASE \E c \in Client : Port!Restamp(c)
  BY <1>3 DEF Port!Restamp, Shape, Sealed
<1> QED BY <1>1, <1>2, <1>3 DEF Idles

LEMMA ServiceTyped ==
  ASSUME Shape, Service
  PROVE  Shape'
<1>1. UNCHANGED <<local, bounds>>
  BY DEF Service
<1>2. ASSUME NEW c \in Client, Port!Mutate(c) PROVE Shape'
  BY <1>1, <1>2, MutateIs, ReturnTyped DEF Shape, Sealed
<1>3. ASSUME NEW c \in Client, Port!Commit(c) PROVE Shape'
  <2>1. Sealed'
    BY <1>3, CommitIs DEF Shape, Sealed
  <2> QED BY <1>1, <1>3, <2>1, CommitIs, ReturnTyped
<1>4. ASSUME NEW c \in Client, Other(c) PROVE Shape'
  <2>1. Rows(store')
    BY <1>4, OtherIs, RowsOfShape
  <2> QED BY <1>1, <1>4, <2>1, OtherIs, ReturnTyped
<1>5. CASE Idles
  <2>1. Rows(store') /\ Counted'
    BY <1>1, <1>5, IdlesIs, RowsOfShape DEF Shape, TypeOK, Counted, bounds
  <2> QED BY <1>1, <1>5, <2>1, IdlesIs, QuietTyped
<1> QED BY <1>2, <1>3, <1>4, <1>5 DEF Service, Other, Idles

LEMMA ShapeInit == Init => Shape
<1> SUFFICES ASSUME Init PROVE Shape
  OBVIOUS
<1>1. Port!Answer("Ok") \in ReplyType
  BY AnswerTyped DEF ReplyCode
<1>2. TypeOK
  BY RemoteAssumption DEF Init, Port!Init, TypeOK, Answer, Nothing, Codes
<1>3. Labelled /\ Valued /\ Sealed /\ InFlight /\ Chosen
  BY DEF Init, Port!Init, Labelled, Valued, Sealed, InFlight, Chosen
<1>4. Replies
  BY <1>1 DEF Init, Port!Init, Replies, Told
<1> QED BY <1>2, <1>3, <1>4 DEF Shape

LEMMA ShapeStep == Shape /\ [Next]_vars => Shape'
<1> SUFFICES ASSUME Shape, [Next]_vars PROVE Shape'
  OBVIOUS
<1>1. CASE UNCHANGED vars
  <2>1. Rows(store') /\ Counted' /\ Sealed' /\ UNCHANGED <<pending, reply, local>>
    BY <1>1, RowsOfShape DEF vars, port, bounds, Shape, TypeOK, Counted, Sealed
  <2> QED BY <2>1, QuietTyped
<1>2. ASSUME NEW c \in Client, NEW rq \in Requests, Start(c, rq) PROVE Shape'
  BY <1>2, StartTyped
<1>3. ASSUME NEW c \in Client, Send(c) PROVE Shape'
  BY <1>3, SendTyped
<1>4. ASSUME NEW n \in Name, Revoke(n) PROVE Shape'
  BY <1>4, RevokeTyped
<1> QED BY <1>1, <1>2, <1>3, <1>4, CallerTyped, ServiceTyped DEF Next

(***************************************************************************)
(* Whatever commands any number of callers make, and whichever of their    *)
(* requests and answers are lost, the state is well formed: among the      *)
(* rest, a rename never goes on without the value that it read.            *)
(***************************************************************************)
THEOREM RemoteTypeCorrect == Spec => []TypeOK
<1>1. Shape => TypeOK
  BY DEF Shape
<1> QED BY <1>1, ShapeInit, ShapeStep, PTL DEF Spec

-----------------------------------------------------------------------------
(* Any number of callers *)

\* The batch of a rename is as it prepared it, or is gone.
SentBatch(c) ==
  pc[c] \in {"prepare", "commit"} =>
    LET row == batches[carried[c].batch]
    IN  row = NoRow \/ row.muts = BatchOf(c)
HasBatch(c) == pc[c] \in {"prepare", "commit", "abort"}
\* A batch id that has not been drawn has no batch.
UnusedFree == \A b \in Batch \ used : batches[b] = NoRow
Apart ==
  \A c, d \in Client : (c # d /\ HasBatch(c) /\ HasBatch(d)) => carried[c].batch # carried[d].batch
Batches == UnusedFree /\ Apart /\ \A c \in Client : SentBatch(c)

\* What a rename finds that nobody has overtaken.
StillTrue(c) ==
  /\ Told(c, "fetch") /\ reply[c].code = "Ok" => Last(store, request[c].name) = reply[c].value
  /\ Undone(c) => Last(store, request[c].name) = carried[c].value
  /\ Uncommitted(c) => ~Active(request[c].new_name)
RaceInv == Shape /\ Batches /\ \A c \in Client \ overtaken : StillTrue(c)

\* A step leaves the caller d, and the service's answer to it, as they are.
Rests(d) ==
  /\ pc'[d] = pc[d] /\ request'[d] = request[d] /\ carried'[d] = carried[d]
  /\ sent'[d] = sent[d] /\ outcome'[d] = outcome[d]
  /\ pending'[d] = pending[d] /\ reply'[d] = reply[d]
CallerStep(c) ==
  \/ Read(c) \/ Write(c) \/ DeleteTold(c) \/ Fetched(c) \/ Exists(c)
  \/ Prepared(c) \/ Committed(c) \/ Aborted(c) \/ List(c) \/ Refused(c)

LEMMA NewestKept ==
  /\ \A n \in Name : Newest(n) = Latest(store, n) /\ Newest(n)' = Latest(store', n)
  /\ \A n \in Name : Kept(n) = Last(store, n) /\ Kept(n)' = Last(store', n)
  /\ \A n \in Name : ~Active(n) => Latest(store, n) = NoValue
BY DEF Newest, Latest, Kept, Last, Active

\* Only a user revokes.
LEMMA RevokeIs ==
  ASSUME Next, revokes' # revokes
  PROVE  \E n \in Name : Revoke(n)
<1>1. ASSUME NEW c \in Client,
             CallerStep(c) \/ Send(c) \/ \E rq \in Requests : Start(c, rq)
      PROVE  revokes' = revokes
  <2>1. CASE Read(c) \/ Write(c) \/ DeleteTold(c) \/ Fetched(c) \/ Exists(c)
    BY <2>1 DEF Read, Write, DeleteTold, Fetched, Exists, Here, bounds
  <2>2. CASE Prepared(c) \/ Committed(c) \/ Aborted(c) \/ List(c)
    BY <2>2 DEF Prepared, Committed, Aborted, List, Here, bounds
  <2>3. CASE Refused(c) \/ Send(c) \/ \E rq \in Requests : Start(c, rq)
    BY <2>3 DEF Refused, Send, Start, bounds
  <2> QED BY <1>1, <2>1, <2>2, <2>3 DEF CallerStep
<1>2. Service => revokes' = revokes
  BY DEF Service, bounds
<1> QED BY <1>1, <1>2 DEF Next, CallerStep

\* A rename that is at rest is overtaken, or finds what it did.
LEMMA RestsTrue ==
  ASSUME RaceInv, RaceNext, NEW d \in Client, Rests(d), d \notin overtaken'
  PROVE  StillTrue(d)'
<1>1. /\ \A label : Told(d, label)' = Told(d, label)
      /\ Uncommitted(d)' = Uncommitted(d) /\ Undone(d)' = Undone(d) /\ ~Effect(d)
  BY DEF Rests, Told, Uncommitted, Undone, Code, Effect
<1>2. Told(d, "fetch") \/ Undone(d) \/ Uncommitted(d) =>
        /\ pc[d] \in {"fetch", "exists", "prepare", "commit", "abort"}
        /\ request[d].name \in Name /\ request[d].new_name \in Name
        /\ d \notin overtaken /\ ~Overtakes(d) /\ StillTrue(d)
  <2> SUFFICES ASSUME Told(d, "fetch") \/ Undone(d) \/ Uncommitted(d)
               PROVE  /\ pc[d] \in {"fetch", "exists", "prepare", "commit", "abort"}
                      /\ request[d].name \in Name /\ request[d].new_name \in Name
                      /\ d \notin overtaken /\ ~Overtakes(d) /\ StillTrue(d)
    OBVIOUS
  <2>1. pc[d] \in {"fetch", "exists", "prepare", "commit", "abort"}
    BY DEF Told, Undone, Uncommitted
  <2>2. d \notin overtaken /\ ~Overtakes(d)
    BY <1>1, <2>1 DEF RaceNext, Rests
  <2> QED BY <2>1, <2>2, NamesAt DEF RaceInv
<1>3. ASSUME NEW n \in Name PROVE /\ ~Changes(n) => Last(store', n) = Last(store, n)
                                  /\ ~Appears(n) => (~Active(n) => ~Active(n)')
  <2>1. CASE revokes' = revokes
    BY <2>1 DEF Changes, Appears, Last
  <2>2. CASE revokes' # revokes
    <3>1. PICK m \in Name : Revoke(m)
      BY <2>2, RevokeIs DEF RaceNext
    <3>2. Last(store', m) = Last(store, m) /\ \A k \in Name \ {m} : store'[k] = store[k]
      BY <3>1, RevokeTyped DEF RaceInv
    <3> QED BY <3>2 DEF Last, Appears
  <2> QED BY <2>1, <2>2
<1>4. /\ Told(d, "fetch") \/ Undone(d) =>
           Last(store', request[d].name) = Last(store, request[d].name)
      /\ Uncommitted(d) => ~Active(request[d].new_name)'
  <2>1. Told(d, "fetch") \/ Undone(d) => ~Changes(request[d].name)
    BY <1>2 DEF Overtakes
  <2>2. Uncommitted(d) => ~Appears(request[d].new_name) /\ ~Active(request[d].new_name)
    BY <1>2 DEF Overtakes, StillTrue
  <2>3. Uncommitted(d) => ~Active(request[d].new_name)'
    BY <2>2, <1>2 DEF Appears, Rests
  <2> QED BY <1>2, <1>3, <2>1, <2>3
<1> QED BY <1>1, <1>2, <1>4 DEF StillTrue, Rests

LEMMA RestsSent ==
  ASSUME RaceInv, NEW d \in Client, Rests(d),
         HasBatch(d) => batches'[carried[d].batch] \in {batches[carried[d].batch], NoRow}
  PROVE  SentBatch(d)'
<1>1. BatchOf(d)' = BatchOf(d) /\ SentBatch(d)
  BY DEF Rests, BatchOf, RaceInv, Batches
<1> QED BY <1>1 DEF Rests, SentBatch, HasBatch

\* Callers go on one by one.
LEMMA EndsAlone ==
  ASSUME Shape, NEW c \in Client, NEW a, EndsWith(c, a), UNCHANGED port
  PROVE  used' = used /\ pc'[c] = "idle" /\ \A d \in Client \ {c} : Rests(d)
BY DEF EndsWith, Goes, Rests, Shape, TypeOK, port

LEMMA CallerAlone ==
  ASSUME Shape, NEW c \in Client,
         CallerStep(c) \/ Send(c) \/ \E rq \in Requests : Start(c, rq)
  PROVE  /\ UNCHANGED <<store, batches, reply>> /\ used \subseteq used'
         /\ \A d \in Client \ {c} : Rests(d)
<1>1. CASE \E rq \in Requests : Start(c, rq)
  BY <1>1 DEF Start, Goes, Rests, Shape, TypeOK, port
<1>2. CASE Send(c)
  <2>1. /\ UNCHANGED <<store, batches, reply, pc, request, carried, outcome, used>>
        /\ sent' = [sent EXCEPT ![c] = TRUE] /\ \E rq : pending' = [pending EXCEPT ![c] = rq]
    BY <1>2 DEF Send, Port!Ask
  <2>2. \A d \in Client \ {c} : sent'[d] = sent[d] /\ pending'[d] = pending[d]
    BY <2>1 DEF Shape, TypeOK, InFlight
  <2> QED BY <2>1, <2>2 DEF Rests
<1>3. CASE Read(c) \/ Write(c) \/ DeleteTold(c) \/ Aborted(c) \/ List(c)
  <2>1. UNCHANGED port /\ \E a : EndsWith(c, a)
    BY <1>3 DEF Read, Write, DeleteTold, Aborted, List, Ends, Here
  <2> QED BY <2>1, EndsAlone DEF port
<1>4. ASSUME NEW label, Goes(c, label), UNCHANGED <<port, request>>, used \subseteq used',
             \A d \in Client \ {c} : carried'[d] = carried[d] /\ outcome'[d] = outcome[d]
      PROVE  /\ UNCHANGED <<store, batches, reply>> /\ used \subseteq used'
             /\ \A d \in Client \ {c} : Rests(d)
  BY <1>4 DEF Goes, Rests, Shape, TypeOK, port
<1>5. CASE Fetched(c) \/ Exists(c) \/ Prepared(c) \/ Committed(c) \/ Refused(c)
  <2>1. UNCHANGED port
    BY <1>5 DEF Fetched, Exists, Prepared, Committed, Refused, Here
  <2>2. \/ \E a : EndsWith(c, a)
        \/ \E label : /\ Goes(c, label) /\ UNCHANGED request /\ used \subseteq used'
                      /\ \A d \in Client \ {c} : /\ carried'[d] = carried[d]
                                                /\ outcome'[d] = outcome[d]
    <3>1. CASE Fetched(c)
      BY <3>1 DEF Fetched, Ends, Shape, TypeOK
    <3>2. CASE Exists(c)
      BY <3>2 DEF Exists, Ends, Shape, TypeOK
    <3>3. CASE Prepared(c) \/ Committed(c) \/ Refused(c)
      BY <3>3 DEF Prepared, Committed, Refused, Ends, Continues, Shape, TypeOK
    <3> QED BY <1>5, <3>1, <3>2, <3>3
  <2> QED BY <1>4, <2>1, <2>2, EndsAlone DEF port
<1> QED BY <1>1, <1>2, <1>3, <1>5 DEF CallerStep

LEMMA CallerRaces ==
  ASSUME RaceInv, RaceNext, NEW c \in Client,
         CallerStep(c) \/ Send(c) \/ \E rq \in Requests : Start(c, rq),
         \* what the step does to c itself
         SentBatch(c)', c \notin overtaken' => StillTrue(c)',
         HasBatch(c)' => \/ HasBatch(c) /\ carried'[c].batch = carried[c].batch
                         \/ carried'[c].batch \notin used
  PROVE  RaceInv'
<1>1. /\ UNCHANGED <<store, batches, reply>> /\ used \subseteq used'
      /\ \A d \in Client \ {c} : Rests(d)
  BY CallerAlone DEF RaceInv
<1>2. Shape'
  BY ShapeStep DEF RaceInv, RaceNext
<1>3. UnusedFree'
  BY <1>1 DEF RaceInv, Batches, UnusedFree
<1>4. \A d \in Client \ {c} : SentBatch(d)' /\ (d \notin overtaken' => StillTrue(d)')
  BY <1>1, RestsTrue, RestsSent
<1>5. \A d \in Client \ {c} : /\ HasBatch(d)' = HasBatch(d) /\ carried'[d] = carried[d]
                              /\ HasBatch(d) => carried[d].batch \in used
  BY <1>1 DEF Rests, HasBatch, RaceInv, Shape, Chosen
<1>6. Apart'
  <2>1. \A d \in Client \ {c} : HasBatch(c)' /\ HasBatch(d)' =>
          carried'[c].batch # carried'[d].batch
    BY <1>5 DEF RaceInv, Batches, Apart
  <2>2. \A d, e \in Client \ {c} : d # e /\ HasBatch(d)' /\ HasBatch(e)' =>
          carried'[d].batch # carried'[e].batch
    BY <1>5 DEF RaceInv, Batches, Apart
  <2> QED BY <2>1, <2>2, Zenon DEF Apart
<1> QED BY <1>2, <1>3, <1>4, <1>6 DEF RaceInv, Batches

\* Away from its requests a rename has nothing to lose.
LEMMA AwayTrue ==
  ASSUME NEW c, pc'[c] \notin {"exists", "prepare", "commit", "abort"}, ~Told(c, "fetch")'
  PROVE  SentBatch(c)' /\ StillTrue(c)'
BY DEF SentBatch, StillTrue, Uncommitted, Undone, Told

LEMMA EndRaces ==
  ASSUME RaceInv, RaceNext, NEW c \in Client, CallerStep(c), NEW a, EndsWith(c, a)
  PROVE  RaceInv'
<1>1. pc'[c] = "idle"
  BY DEF EndsWith, Goes, RaceInv, Shape, TypeOK
<1> QED BY <1>1, AwayTrue, CallerRaces DEF HasBatch, Told

LEMMA StartRaces ==
  ASSUME RaceInv, RaceNext, NEW c \in Client, NEW rq \in Requests, Start(c, rq)
  PROVE  RaceInv'
<1>1. rq.op \in {"read", "write", "delete", "rename", "list"}
  BY RemoteAssumption DEF Request
<1>2. pc'[c] \in {"get", "put", "delete", "fetch", "list"} /\ ~sent'[c]
  BY <1>1 DEF Start, Goes, RaceInv, Shape, TypeOK
<1> QED BY <1>2, AwayTrue, CallerRaces DEF HasBatch, Told

LEMMA SendRaces ==
  ASSUME RaceInv, RaceNext, NEW c \in Client, Send(c)
  PROVE  RaceInv'
<1>1. /\ UNCHANGED <<store, batches, reply, pc, request, carried, outcome>>
      /\ pc[c] \notin {"idle", "exists"}
      /\ ~sent[c]
  BY DEF Send, Port!Ask
<1>2. \A label : ~Told(c, label) /\ ~Told(c, label)'
  <2>1. pending'[c] = Body(c) /\ Body(c).op # "none"
    BY DEF Send, Port!Ask, RaceInv, Shape, InFlight, TypeOK, Body
  <2>2. pending'[c] # Port!NoRequest
    BY <2>1 DEF Port!NoRequest
  <2> QED BY <1>1, <2>2 DEF Told
<1>3. SentBatch(c)'
  BY <1>1 DEF RaceInv, Batches, SentBatch, BatchOf
<1>4. c \notin overtaken' => StillTrue(c)'
  <2> SUFFICES ASSUME c \notin overtaken' PROVE StillTrue(c)'
    OBVIOUS
  <2>1. c \notin overtaken
    BY <1>1 DEF RaceNext
  <2>2. Uncommitted(c)' = Uncommitted(c) /\ Undone(c)' = Undone(c)
    BY <1>1, <1>2 DEF Uncommitted, Undone
  <2>3. Active(request[c].new_name)' = Active(request[c].new_name)
    BY <1>1 DEF Active
  <2> QED BY <1>1, <1>2, <2>1, <2>2, <2>3 DEF RaceInv, StillTrue
<1> QED BY <1>1, <1>3, <1>4, CallerRaces DEF HasBatch

\* A rename goes from one request to the next.
LEMMA RenameRaces ==
  ASSUME RaceInv, RaceNext, NEW c \in Client,
         Fetched(c) \/ Exists(c) \/ Prepared(c) \/ Committed(c) \/ Refused(c)
  PROVE  RaceInv'
<1>1. ASSUME NEW a, EndsWith(c, a) PROVE RaceInv'
  BY <1>1, EndRaces DEF CallerStep
<1>2. CallerStep(c) /\ UNCHANGED <<store, batches, reply>>
  BY CallerAlone DEF CallerStep, RaceInv
<1>3. \A label : Goes(c, label) => pc'[c] = label /\ ~sent'[c]
  BY DEF Goes, RaceInv, Shape, TypeOK
<1>4. /\ carried \in [Client -> Carried]
      /\ pc'[c] # "idle" /\ c \notin overtaken' => c \notin overtaken
  BY DEF RaceInv, Shape, TypeOK, Carried, RaceNext
<1>5. CASE /\ Told(c, "fetch") /\ Code(c) = "Ok" /\ Goes(c, "exists")
           /\ carried' = [carried EXCEPT ![c].value = reply[c].value]
           /\ UNCHANGED <<request, outcome, answer, used>>
  <2>1. reply[c].code = "Ok"
    BY <1>5, CodeTyped DEF RaceInv
  <2>2. carried'[c].value = reply[c].value /\ pc'[c] = "exists" /\ request' = request
    BY <1>3, <1>4, <1>5 DEF Carried
  <2>3. c \notin overtaken' => StillTrue(c)'
    <3> SUFFICES ASSUME c \notin overtaken' PROVE StillTrue(c)'
      OBVIOUS
    <3>1. Last(store, request[c].name) = reply[c].value
      BY <1>4, <1>5, <2>1, <2>2 DEF RaceInv, StillTrue
    <3> QED BY <1>2, <2>2, <3>1 DEF StillTrue, Told, Uncommitted
  <2> QED BY <1>2, <2>2, <2>3, CallerRaces DEF SentBatch, HasBatch
<1>6. ASSUME pc[c] = "exists", NEW b \in Batch \ used, ~Active(request[c].new_name),
             Goes(c, "prepare"), carried' = [carried EXCEPT ![c].batch = b],
             UNCHANGED request
      PROVE  RaceInv'
  <2>1. /\ carried'[c].value = carried[c].value /\ carried'[c].batch = b
        /\ pc'[c] = "prepare" /\ request' = request
    BY <1>3, <1>4, <1>6 DEF Carried
  <2>2. SentBatch(c)'
    BY <1>2, <1>6, <2>1 DEF RaceInv, Batches, UnusedFree, SentBatch
  <2>3. c \notin overtaken' => StillTrue(c)'
    <3> SUFFICES ASSUME c \notin overtaken' PROVE StillTrue(c)'
      OBVIOUS
    <3>1. Last(store, request[c].name) = carried[c].value
      BY <1>4, <1>6, <2>1 DEF RaceInv, StillTrue, Undone
    <3>2. ~Active(request[c].new_name)'
      BY <1>2, <1>6, <2>1 DEF Active
    <3> QED BY <1>2, <2>1, <3>1, <3>2 DEF StillTrue, Told
  <2> QED BY <1>2, <1>6, <2>1, <2>2, <2>3, CallerRaces
<1>7. CASE Told(c, "prepare") /\ Continues(c, "commit")
  <2>1. /\ carried' = carried /\ request' = request /\ pc[c] = "prepare" /\ pc'[c] = "commit"
        /\ ~sent'[c]
    BY <1>3, <1>7 DEF Continues, Told
  <2>2. SentBatch(c)'
    BY <1>2, <2>1 DEF RaceInv, Batches, SentBatch, BatchOf
  <2>3. c \notin overtaken' => StillTrue(c)'
    <3> SUFFICES ASSUME c \notin overtaken' PROVE StillTrue(c)'
      OBVIOUS
    <3>1. /\ Last(store, request[c].name) = carried[c].value
          /\ ~Active(request[c].new_name)
      BY <1>4, <2>1 DEF RaceInv, StillTrue, Undone, Uncommitted
    <3>2. ~Active(request[c].new_name)'
      BY <1>2, <2>1, <3>1 DEF Active
    <3> QED BY <1>2, <2>1, <3>1, <3>2 DEF StillTrue, Told
  <2> QED BY <1>2, <2>1, <2>2, <2>3, CallerRaces DEF HasBatch
<1>8. ASSUME pc[c] = "commit", Goes(c, "abort"), UNCHANGED <<request, carried>>,
             outcome'[c] # "Unavailable" => Undone(c)
      PROVE  RaceInv'
  <2>1. pc'[c] = "abort"
    BY <1>3, <1>8
  <2>2. c \notin overtaken' => StillTrue(c)'
    <3> SUFFICES ASSUME c \notin overtaken' PROVE StillTrue(c)'
      OBVIOUS
    <3>1. StillTrue(c)
      BY <1>4, <2>1 DEF RaceInv
    <3> QED BY <1>2, <1>8, <2>1, <3>1 DEF StillTrue, Undone, Uncommitted, Told
  <2> QED BY <1>2, <1>8, <2>1, <2>2, CallerRaces DEF HasBatch, SentBatch
<1>9. CASE Fetched(c)
  BY <1>1, <1>5, <1>9 DEF Fetched, Ends
<1>10. CASE Exists(c)
  BY <1>1, <1>6, <1>10 DEF Exists, Ends
<1>11. CASE Prepared(c)
  BY <1>1, <1>7, <1>11 DEF Prepared, Ends
<1>12. CASE Committed(c)
  <2>1. ASSUME Told(c, "commit"), Code(c) # "Ok", Goes(c, "abort"),
               outcome' = [outcome EXCEPT ![c] = Code(c)], UNCHANGED <<request, carried>>
        PROVE  RaceInv'
    <3>1. outcome'[c] = Code(c)
      BY <2>1 DEF RaceInv, Shape, TypeOK
    <3> QED BY <1>8, <2>1, <3>1 DEF Undone, Told
  <2> QED BY <1>1, <1>12, <2>1 DEF Committed, Ends
<1>13. CASE Refused(c)
  <2>1. ASSUME ~sent[c], pc[c] = "commit", Goes(c, "abort"), UNCHANGED <<request, carried>>
        PROVE  RaceInv'
    BY <1>8, <2>1 DEF Undone, Uncommitted, Told
  <2> QED BY <1>1, <1>13, <2>1 DEF Refused, Ends
<1> QED BY <1>9, <1>10, <1>11, <1>12, <1>13

\* The service works on the request of c.
LEMMA ServiceRaces ==
  ASSUME RaceInv, RaceNext, NEW c \in Client, UNCHANGED local,
         NEW r, Port!Return(c, r),
         \A b \in Batch : \/ batches'[b] \in {batches[b], NoRow}
                          \/ /\ pc[c] = "prepare" /\ b = carried[c].batch
                             /\ batches'[b].muts = BatchOf(c),
         c \notin overtaken' => StillTrue(c)'
  PROVE  RaceInv'
<1>1. \A d \in Client \ {c} : Rests(d)
  BY DEF RaceInv, Shape, InFlight, Replies, Port!Return, Rests, local
<1>2. Shape'
  BY ShapeStep DEF RaceInv, RaceNext
<1>3. \A d \in Client : HasBatch(d) => carried[d].batch \in Batch /\ carried[d].batch \in used
  BY DEF RaceInv, Shape, TypeOK, Chosen, HasBatch
<1>4. UnusedFree'
  BY <1>3 DEF RaceInv, Batches, UnusedFree, local, HasBatch
<1>5. Apart'
  BY DEF RaceInv, Batches, Apart, HasBatch, local
<1>6. \A d \in Client \ {c} : SentBatch(d)'
  <2> SUFFICES ASSUME NEW d \in Client \ {c}, HasBatch(d)
               PROVE  batches'[carried[d].batch] \in {batches[carried[d].batch], NoRow}
    BY <1>1, RestsSent
  <2>1. pc[c] = "prepare" => carried[d].batch # carried[c].batch
    BY DEF RaceInv, Batches, Apart, HasBatch
  <2> QED BY <1>3, <2>1
<1>7. SentBatch(c)'
  <2>1. BatchOf(c)' = BatchOf(c)
    BY DEF BatchOf, local
  <2> QED BY <1>3, <2>1 DEF RaceInv, Batches, SentBatch, HasBatch, local
<1>8. \A d \in Client \ {c} : d \notin overtaken' => StillTrue(d)'
  BY <1>1, RestsTrue
<1> QED BY <1>2, <1>4, <1>5, <1>6, <1>7, <1>8 DEF RaceInv, Batches

LEMMA EffectRaces ==
  ASSUME RaceInv, RaceNext, NEW c \in Client, UNCHANGED <<local, bounds>>,
         Port!Mutate(c) \/ Port!Commit(c) \/ Other(c)
  PROVE  RaceInv'
<1>1. /\ UNCHANGED <<pc, request, carried, sent, outcome>>
      /\ pc[c] # "idle" /\ c \notin overtaken' => c \notin overtaken
  BY DEF local, RaceNext
<1>2. CASE Port!Mutate(c)
  <2>1. pc[c] \in {"put", "delete"} /\ UNCHANGED batches /\ \E r : Port!Return(c, r)
    BY <1>2, MutateIs DEF RaceInv
  <2>2. StillTrue(c)'
    BY <1>1, <2>1, AwayTrue DEF Told
  <2> QED BY <2>1, <2>2, ServiceRaces
<1>3. CASE Port!Commit(c)
  <2>1. /\ pc[c] = "commit" /\ sent[c] /\ carried[c].batch \in Batch
        /\ batches' = [batches EXCEPT ![carried[c].batch] = NoRow]
        /\ \E r \in ReplyType : Port!Return(c, r) /\ r.code \in {"Ok", "Unavailable"}
    BY <1>3, CommitIs DEF RaceInv
  <2>2. pending'[c] = Port!NoRequest /\ reply'[c].code \in {"Ok", "Unavailable"}
    BY <2>1 DEF RaceInv, Shape, InFlight, Replies, Port!Return
  <2>3. StillTrue(c)'
    <3>1. Told(c, "commit")' /\ Code(c)' \in {"Ok", "Unavailable"}
      BY <1>1, <2>1, <2>2 DEF Told, Code, refusal
    <3> QED BY <1>1, <2>1, <3>1 DEF StillTrue, Told, Undone, Uncommitted
  <2>4. \A b \in Batch : batches'[b] \in {batches[b], NoRow}
    BY <2>1 DEF RaceInv, Shape, Sealed
  <2> QED BY <2>1, <2>3, <2>4, ServiceRaces
<1>4. CASE Other(c)
  <2>1. /\ UNCHANGED store /\ pending[c] # Port!NoRequest
        /\ \A b \in Batch : \/ batches'[b] \in {batches[b], NoRow}
                            \/ /\ pc[c] = "prepare" /\ b = carried[c].batch
                               /\ batches'[b].muts = BatchOf(c)
    BY <1>4, OtherIs DEF RaceInv
  <2>2. PICK r \in ReplyType :
          /\ Port!Return(c, r)
          /\ r.value # NoValue =>
               /\ pc[c] \in {"get", "fetch"} /\ r.code = "Ok"
               /\ r.value = Latest(store, request[c].name)
          /\ pc[c] = "fetch" /\ r.code = "Ok" => r.value # NoValue
    BY <1>4, OtherIs DEF RaceInv
  <2>3. reply'[c] = r /\ pending'[c] = Port!NoRequest
    BY <2>2 DEF RaceInv, Shape, InFlight, Replies, Port!Return
  <2>4. c \notin overtaken' => StillTrue(c)'
    <3> SUFFICES ASSUME c \notin overtaken' PROVE StillTrue(c)'
      OBVIOUS
    <3>1. CASE pc[c] = "fetch"
      <4>1. request[c].name \in Name
        BY <3>1, NamesAt DEF RaceInv
      <4>2. r.code = "Ok" => r.value = Last(store, request[c].name)
        BY <2>2, <3>1, <4>1, RowsOfShape DEF RaceInv
      <4> QED BY <1>1, <2>1, <2>3, <3>1, <4>2 DEF StillTrue, Uncommitted, Undone, Told
    <3>2. CASE pc[c] \in {"exists", "prepare", "commit", "abort"}
      <4>1. /\ StillTrue(c) /\ ~Told(c, "commit")
            /\ Active(request[c].new_name)' = Active(request[c].new_name)
        BY <1>1, <2>1, <3>2 DEF RaceInv, Told, Active
      <4>2. Undone(c)' => Undone(c)
        BY <1>1, <3>2, <4>1 DEF Undone, Uncommitted, Told
      <4>3. Uncommitted(c)' => Uncommitted(c)
        BY <1>1, <4>1 DEF Uncommitted
      <4> QED BY <1>1, <2>1, <3>2, <4>1, <4>2, <4>3 DEF StillTrue, Told
    <3>3. CASE pc[c] \notin {"fetch", "exists", "prepare", "commit", "abort"}
      BY <1>1, <3>3, AwayTrue DEF Told
    <3> QED BY <3>1, <3>2, <3>3
  <2> QED BY <2>1, <2>2, <2>4, ServiceRaces
<1> QED BY <1>2, <1>3, <1>4

\* Nobody's request is at work: batches expire, time passes, users revoke.
LEMMA QuietRaces ==
  ASSUME RaceInv, RaceNext, UNCHANGED <<local, pending, reply>>,
         \A b \in Batch : batches'[b] \in {batches[b], NoRow}
  PROVE  RaceInv'
<1>1. \A d \in Client : Rests(d)
  BY DEF Rests, local
<1>2. Shape'
  BY ShapeStep DEF RaceInv, RaceNext
<1>3. \A d \in Client : HasBatch(d) => carried[d].batch \in Batch
  BY DEF RaceInv, Shape, TypeOK, Chosen, HasBatch
<1>4. UnusedFree' /\ Apart'
  BY DEF RaceInv, Batches, UnusedFree, Apart, HasBatch, local
<1>5. \A d \in Client : SentBatch(d)'
  BY <1>1, <1>3, RestsSent
<1>6. \A d \in Client : d \notin overtaken' => StillTrue(d)'
  BY <1>1, RestsTrue
<1> QED BY <1>2, <1>4, <1>5, <1>6 DEF RaceInv, Batches

LEMMA RaceStep == RaceInv /\ [RaceNext]_raceVars => RaceInv'
<1> SUFFICES ASSUME RaceInv, [RaceNext]_raceVars PROVE RaceInv'
  OBVIOUS
<1>1. CASE UNCHANGED raceVars
  <2>1. Shape'
    BY <1>1, ShapeStep DEF RaceInv, raceVars
  <2>2. Batches'
    BY <1>1 DEF RaceInv, Batches, UnusedFree, Apart, HasBatch, SentBatch, BatchOf,
       raceVars, vars, port, local
  <2>3. \A c \in Client \ overtaken' : StillTrue(c)'
    <3> SUFFICES ASSUME NEW c \in Client \ overtaken PROVE StillTrue(c)'
      BY <1>1 DEF raceVars
    <3>1. /\ Told(c, "fetch")' = Told(c, "fetch") /\ Uncommitted(c)' = Uncommitted(c)
          /\ Undone(c)' = Undone(c) /\ Active(request[c].new_name)' = Active(request[c].new_name)
      BY <1>1 DEF Told, Uncommitted, Undone, Code, Active, raceVars, vars, port, local
    <3> QED BY <1>1, <3>1 DEF RaceInv, StillTrue, raceVars, vars, port, local
  <2> QED BY <2>1, <2>2, <2>3 DEF RaceInv
<1>2. ASSUME RaceNext, NEW c \in Client,
             CallerStep(c) \/ Send(c) \/ \E rq \in Requests : Start(c, rq)
      PROVE  RaceInv'
  <2>1. CASE Read(c) \/ Write(c) \/ DeleteTold(c) \/ Aborted(c) \/ List(c)
    <3>1. CallerStep(c) /\ \E a : EndsWith(c, a)
      BY <2>1 DEF Read, Write, DeleteTold, Aborted, List, Ends, CallerStep
    <3> QED BY <1>2, <3>1, EndRaces
  <2> QED BY <1>2, <2>1, StartRaces, SendRaces, RenameRaces DEF CallerStep
<1>3. ASSUME RaceNext, NEW n \in Name, Revoke(n) PROVE RaceInv'
  BY <1>3, QuietRaces DEF Revoke
<1>4. CASE RaceNext /\ Service
  <2>1. UNCHANGED <<local, bounds>>
    BY <1>4 DEF Service
  <2>2. CASE Idles
    BY <1>4, <2>1, <2>2, IdlesIs, QuietRaces DEF RaceInv
  <2> QED BY <1>4, <2>1, <2>2, EffectRaces DEF Service, Other, Idles
<1> QED BY <1>1, <1>2, <1>3, <1>4 DEF RaceNext, Next, CallerStep

LEMMA RaceInitHolds == RaceInit => RaceInv
<1> SUFFICES ASSUME RaceInit PROVE RaceInv
  OBVIOUS
<1>1. Init /\ \A c \in Client : pc[c] = "idle"
  BY DEF RaceInit, Init
<1>2. UnusedFree
  BY <1>1 DEF Init, Port!Init, UnusedFree
<1>3. \A c \in Client : ~HasBatch(c) /\ SentBatch(c) /\ StillTrue(c)
  BY <1>1 DEF HasBatch, SentBatch, StillTrue, Told, Uncommitted, Undone
<1> QED BY <1>1, <1>2, <1>3, ShapeInit DEF RaceInv, Batches, Apart

\* The only steps that take a value away.
TakesAway(n) ==
  \E c \in Client :
    \/ Effect(c) /\ pc[c] \in {"put", "delete"} /\ request[c].name = n
    \/ CommitsLate(c) /\ n \in {request[c].name, request[c].new_name}

LEMMA MutateTakes ==
  ASSUME Shape, NEW c \in Client, Port!Mutate(c), NEW n \in Name, store'[n] # store[n]
  PROVE  Effect(c) /\ pc[c] \in {"put", "delete"} /\ request[c].name = n
<1>1. /\ pc[c] \in {"put", "delete"} /\ request[c].name \in Name /\ pending[c] # Port!NoRequest
      /\ pc[c] = "put" => /\ carried[c].value \in Value
                          /\ store' = Port!ApplyOne(store, Put(request[c].name, carried[c].value))
      /\ pc[c] = "delete" => store' = Port!ApplyOne(store, Delete(request[c].name))
      /\ \E r : Port!Return(c, r)
  BY MutateIs
<1>2. Rows(store)
  BY RowsOfShape
<1>3. request[c].name = n
  <2>1. CASE pc[c] = "put"
    <3> DEFINE k == request[c].name
               v == carried[c].value
    <3>1. k \in Name /\ v \in Value /\ store' = Port!ApplyOne(store, Put(k, v))
      BY <1>1, <2>1
    <3> HIDE DEF k, v
    <3>2. \A j \in Name \ {k} : store'[j] = store[j]
      BY <1>2, <3>1, PutApplied
    <3> QED BY <3>2 DEF k
  <2>2. CASE pc[c] = "delete"
    BY <1>1, <1>2, <2>2, DeleteApplied
  <2> QED BY <1>1, <2>1, <2>2
<1>4. Effect(c)
  BY <1>1 DEF Effect, Shape, InFlight, Port!Return
<1> QED BY <1>1, <1>3, <1>4

\* The batch of a rename, and what it finds if nobody has overtaken it.
LEMMA CommitMoves ==
  ASSUME RaceInv, NEW c \in Client, Port!Commit(c)
  PROVE  LET old == request[c].name
             new == request[c].new_name
             v == carried[c].value
         IN  /\ Effect(c) /\ pc[c] = "commit"
             /\ old \in Name /\ new \in Name /\ v \in Value
             /\ store' = Port!ApplyAll(store, <<Put(new, v), Delete(old)>>)
             /\ \/ CommitsLate(c)
                \/ Last(store, old) = v /\ Latest(store, new) = NoValue
<1> DEFINE old == request[c].name
           new == request[c].new_name
           v == carried[c].value
<1>1. /\ pc[c] = "commit" /\ pending[c] # Port!NoRequest
      /\ batches[carried[c].batch] # NoRow
      /\ store' = Port!ApplyAll(store, batches[carried[c].batch].muts)
      /\ \E r \in ReplyType : Port!Return(c, r)
  BY CommitIs DEF RaceInv
<1>2. old \in Name /\ new \in Name /\ v \in Value
  BY <1>1, NamesAt DEF RaceInv, Shape, TypeOK, Chosen
<1>3. batches[carried[c].batch].muts = <<Put(new, v), Delete(old)>>
  BY <1>1 DEF RaceInv, Batches, SentBatch, BatchOf
<1>4. Effect(c)
  BY <1>1 DEF RaceInv, Effect, Shape, InFlight, Port!Return
<1>5. c \notin overtaken => Last(store, old) = v /\ ~Active(new)
  BY <1>1 DEF RaceInv, StillTrue, Undone, Uncommitted, Told
<1>6. c \notin overtaken => Latest(store, new) = NoValue
  BY <1>2, <1>5, NewestKept
<1> QED BY <1>1, <1>2, <1>3, <1>4, <1>5, <1>6 DEF CommitsLate

LEMMA CommitTakes ==
  ASSUME RaceInv, NEW c \in Client, Port!Commit(c), NEW n \in Name, Latest(store, n) # NoValue,
         \A k \in Name : Latest(store', k) # Latest(store, n)
  PROVE  CommitsLate(c) /\ n \in {request[c].name, request[c].new_name}
<1> DEFINE old == request[c].name
           new == request[c].new_name
           v == carried[c].value
<1>1. /\ old \in Name /\ new \in Name /\ v \in Value
      /\ store' = Port!ApplyAll(store, <<Put(new, v), Delete(old)>>)
      /\ CommitsLate(c) \/ (Last(store, old) = v /\ Latest(store, new) = NoValue)
  BY CommitMoves
<1> HIDE DEF old, new, v
<1>2. /\ new # old => Latest(store', new) = v
      /\ \A k \in Name \ {old, new} : Latest(store', k) = Latest(store, k)
  BY <1>1, RowsOfShape, MoveApplied DEF RaceInv, Latest
<1>3. n \in {old, new}
  BY <1>2
<1>4. CommitsLate(c)
  <2> SUFFICES ASSUME Last(store, old) = v, Latest(store, new) = NoValue PROVE FALSE
    BY <1>1
  <2>1. n = old /\ n # new /\ Latest(store, n) = v
    BY <1>3, RowsOfShape DEF RaceInv
  <2> QED BY <1>1, <1>2, <2>1
<1> QED BY <1>3, <1>4 DEF old, new

LEMMA LosesNothing ==
  ASSUME RaceInv, Next, NEW n \in Name, Latest(store, n) # NoValue,
         \A m \in Name : Latest(store', m) # Latest(store, n)
  PROVE  revokes' # revokes \/ TakesAway(n)
<1>1. CASE \E m \in Name : Revoke(m)
  BY <1>1, RemoteAssumption DEF RaceInv, Shape, TypeOK, Revoke
<1>2. store'[n] # store[n]
  BY DEF Latest
<1>3. ASSUME NEW c \in Client, Port!Mutate(c) PROVE TakesAway(n)
  BY <1>2, <1>3, MutateTakes DEF RaceInv, TakesAway
<1>4. ASSUME NEW c \in Client, Port!Commit(c) PROVE TakesAway(n)
  BY <1>4, CommitTakes DEF TakesAway
<1>5. CASE Service
  <2>1. ASSUME NEW c \in Client, Other(c) PROVE FALSE
    BY <1>2, <2>1, OtherIs DEF RaceInv
  <2>2. ~Idles
    BY <1>2, IdlesIs DEF RaceInv
  <2> QED BY <1>3, <1>4, <1>5, <2>1, <2>2 DEF Service, Other, Idles
<1>6. ASSUME NEW c \in Client, CallerStep(c) \/ Send(c) \/ \E rq \in Requests : Start(c, rq)
      PROVE  FALSE
  BY <1>2, <1>6, CallerAlone DEF RaceInv
<1> QED BY <1>1, <1>5, <1>6 DEF Next, CallerStep

(***************************************************************************)
(* However many callers put, delete and rename at once, a value goes only  *)
(* with a revocation, a put or delete of its name, or a rename that        *)
(* another caller overtook between its look-ups and its commit.            *)
(***************************************************************************)
THEOREM NoValueLost == RaceSpec => NothingLost
<1>1. RaceInv /\ [RaceNext]_raceVars =>
        [\A n \in Name : (Newest(n) # NoValue /\ \A m \in Name : Newest(m)' # Newest(n)) =>
           \/ revokes' # revokes
           \/ \E c \in Client :
                \/ Effect(c) /\ pc[c] \in {"put", "delete"} /\ request[c].name = n
                \/ CommitsLate(c) /\ n \in {request[c].name, request[c].new_name}]_raceVars
  <2> SUFFICES ASSUME RaceInv, RaceNext, NEW n \in Name, Newest(n) # NoValue,
                      \A m \in Name : Newest(m)' # Newest(n)
               PROVE  revokes' # revokes \/ TakesAway(n)
    BY DEF TakesAway
  <2>1. Latest(store, n) # NoValue /\ \A m \in Name : Latest(store', m) # Latest(store, n)
    BY NewestKept
  <2> QED BY <2>1, LosesNothing DEF RaceNext
<1> QED BY <1>1, RaceInitHolds, RaceStep, PTL DEF RaceSpec, NothingLost

(***************************************************************************)
(* Whichever requests of a rename are refused, expire or lose their        *)
(* answers, one that tells its caller that it did not happen left the      *)
(* value it read in its place, unless another caller changed it.           *)
(***************************************************************************)
THEOREM RefusedRenamesStay == RaceSpec => []RefusedRenameStays
<1>1. RaceInv => RefusedRenameStays
  <2> SUFFICES ASSUME RaceInv, NEW c \in Client \ overtaken,
                      pc[c] = "abort", outcome[c] # "Unavailable"
               PROVE  Kept(request[c].name) = carried[c].value
    BY DEF RefusedRenameStays
  <2>1. request[c].name \in Name
    BY NamesAt DEF RaceInv
  <2>2. Last(store, request[c].name) = carried[c].value
    BY DEF RaceInv, StillTrue, Undone
  <2> QED BY <2>1, <2>2, NewestKept
<1> QED BY <1>1, RaceInitHolds, RaceStep, PTL DEF RaceSpec

-----------------------------------------------------------------------------
(* Where a value is *)

\* The caller is about to put a value; until then it is seen nowhere.
Writing(c) == pc[c] = "put" /\ ~Told(c, "put")
Seen(v) ==
  \/ \E n \in Name : Last(store, n) = v
  \/ \E c \in Client : (~Writing(c) /\ carried[c].value = v) \/ reply[c].value = v
Fresh(v) == v <= calls /\ ~Seen(v)
ValueInv ==
  /\ \A v \in Value : Seen(v) => v <= calls
  /\ \A c \in Client : Writing(c) =>
       /\ Fresh(carried[c].value)
       /\ \A d \in Client \ {c} : Writing(d) => carried[d].value # carried[c].value

\* The value of a put is seen from when it took effect, or did not.
LEMMA ValuesGo ==
  ASSUME Shape, ValueInv, calls <= calls', calls' \in Int,
         \A v \in Value : Seen(v)' =>
           \/ Seen(v)
           \/ \E c \in Client : Writing(c) /\ ~Writing(c)' /\ carried[c].value = v,
         \A c \in Client : Writing(c)' => Writing(c) /\ carried'[c] = carried[c]
  PROVE  ValueInv'
<1>1. calls \in Int /\ \A c \in Client : Writing(c) => carried[c].value \in Value
  BY RemoteAssumption DEF Shape, TypeOK, Chosen, Writing
<1>2. \A v \in Value : v \in Int
  BY RemoteAssumption DEF Value
<1>3. \A v \in Value : Seen(v)' => v <= calls'
  <2> SUFFICES ASSUME NEW v \in Value, Seen(v)' PROVE v <= calls'
    OBVIOUS
  <2>1. v <= calls
    BY DEF ValueInv, Fresh
  <2> QED BY <1>1, <1>2, <2>1
<1>4. ASSUME NEW c \in Client, Writing(c)'
      PROVE  /\ Fresh(carried[c].value)'
             /\ \A d \in Client \ {c} : Writing(d)' => carried'[d].value # carried'[c].value
  <2>1. PICK v \in Value : Writing(c) /\ carried[c].value = v /\ carried'[c].value = v
    BY <1>1, <1>4
  <2>2. /\ v <= calls /\ ~Seen(v)
        /\ \A d \in Client \ {c} : Writing(d) => carried[d].value # v
    BY <2>1 DEF ValueInv, Fresh
  <2>3. \A d \in Client : Writing(d) /\ ~Writing(d)' => carried[d].value # v
    BY <1>4, <2>2
  <2>4. ~Seen(v)'
    BY <2>1, <2>2, <2>3
  <2>5. v <= calls'
    BY <1>1, <1>2, <2>1, <2>2
  <2>6. \A d \in Client \ {c} : Writing(d)' => carried'[d].value # v
    BY <2>2
  <2> QED BY <2>1, <2>4, <2>5, <2>6 DEF Fresh
<1> QED BY <1>3, <1>4 DEF ValueInv

\* Nobody moves: a value does not come to be seen.
LEMMA QuietValues ==
  ASSUME Shape, ValueInv, UNCHANGED <<local, pending, reply>>, calls' = calls,
         \A n \in Name : Last(store', n) = Last(store, n)
  PROVE  ValueInv'
<1>1. \A c \in Client : Writing(c)' = Writing(c)
  BY DEF Writing, Told, local
<1>2. \A v \in Value : Seen(v)' => Seen(v)
  BY <1>1 DEF Seen, local
<1>3. calls <= calls' /\ calls' \in Int
  BY DEF Shape, TypeOK
<1> QED BY <1>1, <1>2, <1>3, ValuesGo DEF local

\* A caller goes on with the value it had, or was told, or with none.
LEMMA CallerValues ==
  ASSUME Shape, ValueInv, NEW c \in Client, calls <= calls', calls' \in Int,
         UNCHANGED <<store, reply>>, \A d \in Client \ {c} : Rests(d),
         Writing(c)' => Writing(c) /\ carried'[c] = carried[c],
         carried'[c].value \in {NoValue, carried[c].value, reply[c].value}
  PROVE  ValueInv'
<1>1. \A d \in Client \ {c} : Writing(d)' = Writing(d) /\ carried'[d] = carried[d]
  BY DEF Rests, Writing, Told
<1>2. \A d \in Client : Writing(d)' => Writing(d) /\ carried'[d] = carried[d]
  BY <1>1
<1>3. ASSUME NEW v \in Value, Seen(v)'
      PROVE  \/ Seen(v)
             \/ \E d \in Client : Writing(d) /\ ~Writing(d)' /\ carried[d].value = v
  <2>1. CASE (\E n \in Name : Last(store', n) = v) \/ \E d \in Client : reply'[d].value = v
    BY <2>1 DEF Seen
  <2>2. ASSUME NEW d \in Client, ~Writing(d)', carried'[d].value = v
        PROVE  \/ Seen(v)
               \/ \E e \in Client : Writing(e) /\ ~Writing(e)' /\ carried[e].value = v
    <3>1. CASE d # c
      BY <1>1, <2>2, <3>1 DEF Seen
    <3>2. CASE d = c
      <4>1. v # NoValue
        BY RemoteAssumption DEF Value
      <4> QED BY <2>2, <3>2, <4>1 DEF Seen
    <3> QED BY <3>1, <3>2
  <2>3. \/ (\E n \in Name : Last(store', n) = v) \/ \E d \in Client : reply'[d].value = v
        \/ \E d \in Client : ~Writing(d)' /\ carried'[d].value = v
    BY <1>3 DEF Seen
  <2> QED BY <2>1, <2>2, <2>3
<1> QED BY <1>2, <1>3, ValuesGo

\* A write starts with a value that nothing has.
LEMMA WriteValues ==
  ASSUME Shape, ValueInv, NEW c \in Client, pc[c] = "idle", calls' = calls + 1,
         UNCHANGED <<store, reply>>, \A d \in Client \ {c} : Rests(d),
         calls + 1 \in Value, carried'[c].value = calls + 1, Writing(c)'
  PROVE  ValueInv'
<1>1. \A d \in Client \ {c} : Writing(d)' = Writing(d) /\ carried'[d] = carried[d]
  BY DEF Rests, Writing, Told
<1>2. \A v \in Value : Seen(v)' => Seen(v)
  BY <1>1 DEF Seen
<1>3. calls \in Int /\ \A d \in Client : Writing(d) => carried[d].value \in Value
  BY RemoteAssumption DEF Shape, TypeOK, Chosen, Writing
<1>4. \A v \in Value : v \in Int
  BY RemoteAssumption DEF Value
<1>5. \A v \in Value : Seen(v) => v <= calls
  BY DEF ValueInv
<1>6. \A v \in Value : Seen(v)' => v <= calls' /\ v # calls + 1
  BY <1>2, <1>3, <1>4, <1>5
<1>7. ASSUME NEW d \in Client \ {c}, Writing(d)'
      PROVE  /\ Fresh(carried[d].value)'
             /\ carried'[d].value # calls + 1
             /\ \A e \in Client \ {c, d} : Writing(e)' => carried'[e].value # carried'[d].value
  <2>1. PICK v \in Value :
          Writing(d) /\ carried[d].value = v /\ carried'[d].value = v /\ v \in Int
    BY <1>1, <1>3, <1>4, <1>7
  <2>2. /\ v <= calls /\ ~Seen(v)
        /\ \A e \in Client \ {d} : Writing(e) => carried[e].value # v
    BY <2>1 DEF ValueInv, Fresh
  <2>3. ~Seen(v)' /\ \A e \in Client \ {c, d} : Writing(e)' => carried'[e].value # v
    BY <1>1, <1>2, <2>1, <2>2
  <2>4. v <= calls' /\ v # calls + 1
    BY <1>3, <2>1, <2>2
  <2> QED BY <2>1, <2>3, <2>4 DEF Fresh
<1>8. Fresh(carried[c].value)'
  <2>1. PICK v \in Value : v = calls + 1 /\ v \in Int
    BY <1>3, <1>4 DEF Fresh
  <2> QED BY <1>3, <1>6, <2>1 DEF Fresh
<1> QED BY <1>6, <1>7, <1>8 DEF ValueInv

\* The service is done with the request of c.
LEMMA EffectValues ==
  ASSUME Shape, ValueInv, NEW c \in Client, UNCHANGED <<local, bounds>>,
         pending[c] # Port!NoRequest, NEW r \in ReplyType, Port!Return(c, r),
         r.value = NoValue \/ \E n \in Name : r.value = Last(store, n),
         \A n \in Name : Last(store', n) \in {NoValue, Last(store, n), carried[c].value}
  PROVE  ValueInv'
<1>1. /\ pending'[c] = Port!NoRequest /\ reply'[c] = r
      /\ \A d \in Client \ {c} : pending'[d] = pending[d] /\ reply'[d] = reply[d]
  BY DEF Port!Return, Shape, InFlight, Replies
<1>2. ~Writing(c)' /\ (\A d \in Client \ {c} : Writing(d)' = Writing(d)) /\ carried' = carried
  <2>1. pc[c] = "put" /\ pending[c] # Port!NoRequest => sent[c]
    BY DEF Shape, InFlight
  <2>2. ~Writing(c)'
    BY <1>1, <2>1 DEF Writing, Told, local
  <2> QED BY <1>1, <2>2 DEF Writing, Told, local
<1>3. ASSUME NEW v \in Value, Seen(v)'
      PROVE  \/ Seen(v)
             \/ \E d \in Client : Writing(d) /\ ~Writing(d)' /\ carried[d].value = v
  <2>1. v # NoValue
    BY RemoteAssumption DEF Value
  <2>2. ASSUME NEW n \in Name, Last(store', n) = v
        PROVE  Seen(v) \/ (Writing(c) /\ carried[c].value = v)
    BY <2>1, <2>2 DEF Seen
  <2>3. ASSUME NEW d \in Client, reply'[d].value = v PROVE Seen(v)
    BY <1>1, <2>1, <2>3 DEF Seen
  <2>4. ASSUME NEW d \in Client, ~Writing(d)', carried'[d].value = v
        PROVE  Seen(v) \/ (Writing(c) /\ carried[c].value = v)
    BY <1>2, <2>4 DEF Seen
  <2> QED BY <1>2, <1>3, <2>2, <2>3, <2>4 DEF Seen
<1>4. \A d \in Client : Writing(d)' => Writing(d) /\ carried'[d] = carried[d]
  BY <1>2
<1>5. calls <= calls' /\ calls' \in Int
  BY DEF Shape, TypeOK, bounds
<1> QED BY <1>3, <1>4, <1>5, ValuesGo

LEMMA StartValues ==
  ASSUME Shape, ValueInv, NEW c \in Client, NEW rq \in Requests, Start(c, rq)
  PROVE  ValueInv'
<1>1. UNCHANGED <<store, reply>> /\ \A d \in Client \ {c} : Rests(d)
  BY CallerAlone
<1>2. /\ calls \in 0 .. MaxCalls /\ calls < MaxCalls /\ calls' = calls + 1
      /\ carried \in [Client -> Carried] /\ pc \in [Client -> Label \cup {"idle"}]
      /\ sent \in [Client -> BOOLEAN]
  BY DEF Start, Shape, TypeOK, Carried, Label
<1>3. calls + 1 \in Value /\ calls <= calls' /\ calls' \in Int
  BY <1>2, RemoteAssumption DEF Value
<1>4. CASE rq.op = "write"
  <2>1. pc[c] = "idle" /\ pc'[c] = "put" /\ ~sent'[c] /\ carried'[c].value = calls + 1
    BY <1>2, <1>4 DEF Start, Goes, Nothing
  <2>2. Writing(c)'
    BY <2>1 DEF Writing, Told
  <2> QED BY <1>1, <1>2, <1>3, <2>1, <2>2, WriteValues
<1>5. CASE rq.op # "write"
  <2>1. rq.op \in {"read", "delete", "rename", "list"}
    BY <1>5, RemoteAssumption DEF Request
  <2>2. pc'[c] # "put" /\ carried'[c].value = NoValue
    BY <1>2, <2>1 DEF Start, Goes, Nothing
  <2> QED BY <1>1, <1>3, <2>2, CallerValues DEF Writing
<1> QED BY <1>4, <1>5

LEMMA StepValues ==
  ASSUME Shape, ValueInv, NEW c \in Client, CallerStep(c) \/ Send(c)
  PROVE  ValueInv'
<1>1. UNCHANGED <<store, reply>> /\ \A d \in Client \ {c} : Rests(d)
  BY CallerAlone
<1>2. calls' = calls /\ calls <= calls' /\ calls' \in Int
  <2>1. CASE Read(c) \/ Write(c) \/ DeleteTold(c) \/ Fetched(c) \/ Exists(c)
    BY <2>1 DEF Read, Write, DeleteTold, Fetched, Exists, Here, bounds, Shape, TypeOK
  <2>2. CASE Prepared(c) \/ Committed(c) \/ Aborted(c) \/ List(c)
    BY <2>2 DEF Prepared, Committed, Aborted, List, Here, bounds, Shape, TypeOK
  <2>3. CASE Refused(c) \/ Send(c)
    BY <2>3 DEF Refused, Send, bounds, Shape, TypeOK
  <2> QED BY <2>1, <2>2, <2>3 DEF CallerStep
<1>3. /\ carried \in [Client -> Carried] /\ pc \in [Client -> Label \cup {"idle"}]
  BY DEF Shape, TypeOK, Carried, Label
<1>4. ASSUME NEW a, EndsWith(c, a) PROVE ValueInv'
  <2>1. pc'[c] = "idle" /\ carried'[c].value = NoValue
    BY <1>3, <1>4 DEF EndsWith, Goes, Nothing
  <2> QED BY <1>1, <1>2, <2>1, CallerValues DEF Writing
<1>5. ASSUME NEW label, label # "put", Goes(c, label),
             carried'[c].value \in {NoValue, carried[c].value, reply[c].value}
      PROVE  ValueInv'
  <2>1. pc'[c] # "put"
    BY <1>3, <1>5 DEF Goes
  <2> QED BY <1>1, <1>2, <1>5, <2>1, CallerValues DEF Writing
<1>6. CASE Read(c) \/ Write(c) \/ DeleteTold(c) \/ Aborted(c) \/ List(c)
  <2>1. \E a : EndsWith(c, a)
    BY <1>6 DEF Read, Write, DeleteTold, Aborted, List, Ends
  <2> QED BY <1>4, <2>1
<1>7. CASE Fetched(c) \/ Exists(c)
  <2>1. \/ \E a : EndsWith(c, a)
        \/ Goes(c, "exists") /\ carried' = [carried EXCEPT ![c].value = reply[c].value]
        \/ Goes(c, "prepare") /\ \E b : carried' = [carried EXCEPT ![c].batch = b]
    BY <1>7 DEF Fetched, Exists, Ends
  <2>2. ASSUME NEW b, carried' = [carried EXCEPT ![c].batch = b]
        PROVE  carried'[c].value = carried[c].value
    BY <1>3, <2>2 DEF Carried
  <2>3. ASSUME carried' = [carried EXCEPT ![c].value = reply[c].value]
        PROVE  carried'[c].value = reply[c].value
    BY <1>3, <2>3 DEF Carried
  <2>4. "exists" # "put" /\ "prepare" # "put"
    OBVIOUS
  <2> QED BY <1>4, <1>5, <2>1, <2>2, <2>3, <2>4
<1>8. CASE Prepared(c) \/ Committed(c) \/ Refused(c)
  <2>1. \/ \E a : EndsWith(c, a)
        \/ (Goes(c, "commit") \/ Goes(c, "abort")) /\ carried' = carried
    BY <1>8 DEF Prepared, Committed, Refused, Ends, Continues
  <2>2. "commit" # "put" /\ "abort" # "put"
    OBVIOUS
  <2> QED BY <1>4, <1>5, <2>1, <2>2
<1>9. CASE Send(c)
  <2>1. UNCHANGED <<pc, carried>> /\ ~sent[c]
    BY <1>9 DEF Send
  <2>2. Writing(c)' => Writing(c) /\ carried'[c] = carried[c]
    BY <2>1 DEF Writing, Told
  <2> QED BY <1>1, <1>2, <2>1, <2>2, CallerValues
<1> QED BY <1>6, <1>7, <1>8, <1>9 DEF CallerStep

\* What a put or a delete does to the values.
LEMMA MutateValues ==
  ASSUME Shape, NEW c \in Client, Port!Mutate(c)
  PROVE  /\ \A n \in Name \ {request[c].name} : Last(store', n) = Last(store, n)
         /\ request[c].name \in Name
         /\ Last(store', request[c].name) # NoValue =>
              Writing(c) /\ Last(store', request[c].name) = carried[c].value
<1> DEFINE old == request[c].name
           v == carried[c].value
<1>1. /\ pc[c] \in {"put", "delete"} /\ old \in Name /\ pending[c] # Port!NoRequest
      /\ pc[c] = "put" => v \in Value /\ store' = Port!ApplyOne(store, Put(old, v))
      /\ pc[c] = "delete" => store' = Port!ApplyOne(store, Delete(old))
  BY MutateIs
<1>2. pc[c] = "put" => Writing(c)
  BY <1>1 DEF Writing, Told
<1> HIDE DEF old, v
<1>3. CASE pc[c] = "put"
  <2>1. Last(store', old) = v /\ \A n \in Name \ {old} : store'[n] = store[n]
    BY <1>1, <1>3, RowsOfShape, PutApplied
  <2> QED BY <1>1, <1>2, <1>3, <2>1 DEF Last, old, v
<1>4. CASE pc[c] = "delete"
  <2>1. Last(store', old) = NoValue /\ \A n \in Name \ {old} : store'[n] = store[n]
    BY <1>1, <1>4, RowsOfShape, DeleteApplied
  <2> QED BY <1>1, <2>1 DEF Last, old
<1> QED BY <1>1, <1>3, <1>4

\* What a commit does to them.
LEMMA CommitValues ==
  ASSUME RaceInv, NEW c \in Client, Port!Commit(c)
  PROVE  LET old == request[c].name
             new == request[c].new_name
             v == carried[c].value
         IN  /\ old \in Name /\ new \in Name
             /\ Last(store', old) = NoValue /\ (new # old => Last(store', new) = v)
             /\ \A n \in Name \ {old, new} : Last(store', n) = Last(store, n)
             /\ CommitsLate(c) \/ Last(store, old) = v
<1> DEFINE old == request[c].name
           new == request[c].new_name
           v == carried[c].value
<1>1. /\ old \in Name /\ new \in Name /\ v \in Value
      /\ store' = Port!ApplyAll(store, <<Put(new, v), Delete(old)>>)
      /\ CommitsLate(c) \/ Last(store, old) = v
  BY CommitMoves
<1> HIDE DEF old, new, v
<1>2. /\ Last(store', old) = NoValue /\ (new # old => Last(store', new) = v)
      /\ \A n \in Name \ {old, new} : store'[n] = store[n]
  BY <1>1, RowsOfShape, MoveApplied DEF RaceInv
<1>3. \A n \in Name \ {old, new} : Last(store', n) = Last(store, n)
  BY <1>2 DEF Last
<1> QED BY <1>1, <1>2, <1>3 DEF old, new, v

LEMMA ValueInit == Init => ValueInv
<1> SUFFICES ASSUME Init PROVE ValueInv
  OBVIOUS
<1>1. /\ \A n \in Name : Last(store, n) = NoValue
      /\ \A c \in Client : ~Writing(c) /\ carried[c].value = NoValue /\ reply[c].value = NoValue
  BY DEF Init, Port!Init, Last, Writing, Nothing, Port!Answer
<1>2. \A v \in Value : v # NoValue
  BY RemoteAssumption DEF Value
<1> QED BY <1>1, <1>2 DEF ValueInv, Seen

LEMMA ValueStep == RaceInv /\ ValueInv /\ [RaceNext]_raceVars => ValueInv'
<1> SUFFICES ASSUME RaceInv, ValueInv, [RaceNext]_raceVars PROVE ValueInv'
  OBVIOUS
<1> Shape
  BY DEF RaceInv
<1>1. CASE UNCHANGED raceVars
  BY <1>1, QuietValues DEF raceVars, vars, port, local, bounds, Last
<1>2. ASSUME NEW n \in Name, Revoke(n) PROVE ValueInv'
  <2>1. \A k \in Name : Last(store', k) = Last(store, k)
    BY <1>2, RevokeTyped DEF Last
  <2> QED BY <1>2, <2>1, QuietValues DEF Revoke
<1>3. CASE Service
  <2>1. UNCHANGED <<local, bounds>>
    BY <1>3 DEF Service
  <2>2. ASSUME NEW c \in Client, Port!Mutate(c) PROVE ValueInv'
    <3>1. \A n \in Name : Last(store', n) \in {NoValue, Last(store, n), carried[c].value}
      BY <2>2, MutateValues
    <3> QED BY <2>1, <2>2, <3>1, MutateIs, EffectValues
  <2>3. ASSUME NEW c \in Client, Port!Commit(c) PROVE ValueInv'
    <3>1. \A n \in Name : Last(store', n) \in {NoValue, Last(store, n), carried[c].value}
      BY <2>3, CommitValues
    <3> QED BY <2>1, <2>3, <3>1, CommitIs, EffectValues
  <2>4. ASSUME NEW c \in Client, Other(c) PROVE ValueInv'
    <3>1. PICK r \in ReplyType :
            /\ Port!Return(c, r)
            /\ r.value # NoValue =>
                 pc[c] \in {"get", "fetch"} /\ r.value = Latest(store, request[c].name)
      BY <2>4, OtherIs
    <3>2. UNCHANGED store /\ pending[c] # Port!NoRequest
      BY <2>4, OtherIs
    <3>3. r.value = NoValue \/ \E n \in Name : r.value = Last(store, n)
      BY <3>1, NamesAt, RowsOfShape
    <3> QED BY <2>1, <3>1, <3>2, <3>3, EffectValues
  <2>5. CASE Idles
    BY <2>1, <2>5, IdlesIs, QuietValues DEF bounds
  <2> QED BY <1>3, <2>2, <2>3, <2>4, <2>5 DEF Service, Other, Idles
<1> QED BY <1>1, <1>2, <1>3, StartValues, StepValues DEF RaceNext, Next, CallerStep

\* Only a commit that comes late puts a value under a second name.
LEMMA DoublesNothing ==
  ASSUME RaceInv, ValueInv, Next, NEW v \in Value, NEW n \in Name, NEW m \in Name, n # m,
         Last(store', n) = v, Last(store', m) = v,
         \A c \in Client : ~CommitsLate(c)
  PROVE  \E k, j \in Name : k # j /\ Last(store, k) = v /\ Last(store, j) = v
<1>1. v # NoValue
  BY RemoteAssumption DEF Value
<1>2. CASE \A k \in Name : Last(store', k) = Last(store, k)
  BY <1>2
<1>3. ASSUME NEW c \in Client, Port!Mutate(c)
      PROVE  \E k, j \in Name : k # j /\ Last(store, k) = v /\ Last(store, j) = v
  <2>1. /\ \A k \in Name \ {request[c].name} : Last(store', k) = Last(store, k)
        /\ Last(store', request[c].name) # NoValue =>
             Writing(c) /\ Last(store', request[c].name) = carried[c].value
    BY <1>3, MutateValues DEF RaceInv
  <2>2. Writing(c) => \A k \in Name : Last(store, k) # carried[c].value
    BY DEF ValueInv, Fresh, Seen
  <2>3. n # request[c].name /\ m # request[c].name
    BY <1>1, <2>1, <2>2
  <2> QED BY <2>1, <2>3
<1>4. ASSUME NEW c \in Client, Port!Commit(c)
      PROVE  \E k, j \in Name : k # j /\ Last(store, k) = v /\ Last(store, j) = v
  <2> DEFINE old == request[c].name
             new == request[c].new_name
             w == carried[c].value
  <2>1. /\ old \in Name /\ new \in Name
        /\ Last(store', old) = NoValue /\ (new # old => Last(store', new) = w)
        /\ \A k \in Name \ {old, new} : Last(store', k) = Last(store, k)
        /\ Last(store, old) = w
    BY <1>4, CommitValues
  <2> HIDE DEF old, new, w
  <2>2. n # old /\ m # old
    BY <1>1, <2>1
  <2>3. CASE n = new
    BY <2>1, <2>2, <2>3
  <2>4. CASE m = new
    BY <2>1, <2>2, <2>4
  <2>5. CASE n # new /\ m # new
    BY <2>1, <2>2, <2>5
  <2> QED BY <2>3, <2>4, <2>5
<1>5. CASE Service
  <2>1. (\E c \in Client : Other(c)) \/ Idles => UNCHANGED store
    BY OtherIs, IdlesIs DEF RaceInv
  <2>2. UNCHANGED store => \A k \in Name : Last(store', k) = Last(store, k)
    BY DEF Last
  <2> QED BY <1>2, <1>3, <1>4, <1>5, <2>1, <2>2 DEF Service, Other, Idles
<1>6. CASE \E k \in Name : Revoke(k)
  <2>1. \A k \in Name : Last(store', k) = Last(store, k)
    BY <1>6, RevokeTyped DEF RaceInv, Last
  <2> QED BY <1>2, <2>1
<1>7. CASE \E c \in Client : CallerStep(c) \/ Send(c) \/ \E rq \in Requests : Start(c, rq)
  <2>1. \A k \in Name : Last(store', k) = Last(store, k)
    BY <1>7, CallerAlone DEF RaceInv, Last
  <2> QED BY <1>2, <2>1
<1> QED BY <1>5, <1>6, <1>7 DEF Next, CallerStep

(***************************************************************************)
(* However many callers put, delete and rename at once, and whatever of    *)
(* that is lost, no rename puts a value under a second name, unless        *)
(* another caller overtook it between its look-ups and its commit.         *)
(***************************************************************************)
THEOREM ValuesInOnePlace == RaceSpec => OnePlace
<1>1. RaceInv /\ ValueInv /\ [RaceNext]_raceVars =>
        [Doubled' \subseteq Doubled \/ \E c \in Client : CommitsLate(c)]_raceVars
  <2> SUFFICES ASSUME RaceInv, ValueInv, RaceNext, \A c \in Client : ~CommitsLate(c),
                      NEW v \in Value, v \in Doubled'
               PROVE  v \in Doubled
    BY DEF Doubled
  <2>1. PICK n \in Name, m \in Name : n # m /\ Last(store', n) = v /\ Last(store', m) = v
    BY NewestKept DEF Doubled
  <2>2. \E k, j \in Name : k # j /\ Last(store, k) = v /\ Last(store, j) = v
    BY <2>1, DoublesNothing DEF RaceNext
  <2> QED BY <2>2, NewestKept DEF Doubled
<1>2. RaceInit => ValueInv
  BY ValueInit DEF RaceInit
<1> QED BY <1>1, <1>2, RaceInitHolds, RaceStep, ValueStep, PTL DEF RaceSpec, OnePlace
=============================================================================
