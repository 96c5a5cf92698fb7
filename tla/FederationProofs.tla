-------------------------- MODULE FederationProofs --------------------------
(***************************************************************************)
(* Proofs about Federation and FederationRaces, for any number of          *)
(* processes, namespaces, backends, names and failures, for any tables and *)
(* tokens the processes find, and for commands that interleave in any way: *)
(* types, that a command opens nothing before its scope is admitted        *)
(* (Admission), and which commands may strand a secret, leave a binding    *)
(* without its namespace or rename a bound name.  What a command has       *)
(* checked still holds when it acts unless another has overtaken it; the   *)
(* invariant CheckedAt says at each label what that is.                    *)
(***************************************************************************)
EXTENDS FederationRaces, TLAPS

Entered == {"idle", "admit"}  \* nothing is opened yet
Routed == {"locate", "bound_from", "bound_to", "backend", "report"}
ConfigOps == {"add", "remove", "set_mount", "bind", "unbind"}

-----------------------------------------------------------------------------
(***************************************************************************)
(* Types, and a denied command: for any interleaving.                      *)
(***************************************************************************)
\* A command has a request and nothing open until its scope was admitted.
AdmittedAt(c) ==
  /\ pc[c] = "idle" <=> request[c] = NoRequest
  /\ pc[c] \in Entered => registered[c] = {} /\ usable[c] = {} /\ mount[c] = NoBackend
  /\ pc[c] \notin Entered => Allowed(c)
  /\ pc[c] \notin Entered => \E found \in Environments : registered[c] = Registered(found)
  /\ pc[c] = "change" => request[c].op \in ConfigOps
  /\ pc[c] \in {"bindings"} => request[c].op = "remove"
  /\ pc[c] = "secrets" => request[c].op \in {"remove", "set_mount"}
  /\ pc[c] \in Routed => request[c].op \in SecretOps
  /\ pc[c] \in {"bindings", "secrets"} \cup Routed => mount[c] \in Backend
Admission == \A c \in Command : AdmittedAt(c)
TypeInv == TypeOK /\ Admission

LEMMA DocumentTypes ==
  ASSUME TypeOK
  PROVE  /\ document.namespaces \in [Namespace -> Backend \cup {NoMount, Absent}]
         /\ document.bindings \in [Address -> Locator \cup {Absent}]
         /\ document = [namespaces |-> document.namespaces, bindings |-> document.bindings]
  BY DEF TypeOK, Document

\* What the change of a command makes of the document.
LEMMA ChangeEffect ==
  ASSUME TypeOK, NEW c \in Command, request[c] \in Requests,
         request[c].op \in ConfigOps, ChangeConfig(c)
  PROVE  \/ document' = document
         \/ /\ request[c].op \in {"add", "set_mount"}
            /\ request[c].op = "add" => document.namespaces[request[c].key] = Absent
            /\ request[c].op = "set_mount" => document.namespaces[request[c].key] # Absent
            /\ document' = [namespaces |-> [document.namespaces EXCEPT ![request[c].key] = request[c].mount],
                            bindings |-> document.bindings]
         \/ /\ request[c].op = "remove"
            /\ document' = [namespaces |-> [document.namespaces EXCEPT ![request[c].key] = Absent],
                            bindings |-> document.bindings]
         \/ /\ request[c].op = "bind"
            /\ document' = [namespaces |-> document.namespaces,
                            bindings |-> [document.bindings EXCEPT ![request[c].address] = request[c].locator]]
         \/ /\ request[c].op = "unbind"
            /\ document' = [namespaces |-> document.namespaces,
                            bindings |-> [document.bindings EXCEPT ![request[c].address] = Absent]]
<1> DEFINE r == request[c]
           change == ChangeOf(r)
           ns == document.namespaces
           bs == document.bindings
<1>0. document = [namespaces |-> ns, bindings |-> bs]
  BY DocumentTypes
<1>1. CASE Verdict(document, change) # "Ok"
  BY <1>1 DEF ChangeConfig
<1>2. CASE Verdict(document, change) = "Ok"
  <2>0. document' = Apply(document, change) /\ ~Collides(document, change) /\ ~Lacks(document, change)
    BY <1>2 DEF ChangeConfig, Verdict
  <2>1. CASE r.op = "add"
    <3>1. change = [op |-> "insert_namespace", key |-> r.key, mount |-> r.mount]
      BY <2>1 DEF ChangeOf
    <3> HIDE DEF change
    <3> QED BY <1>0, <2>0, <2>1, <3>1 DEF Apply, Collides
  <2>2. CASE r.op = "remove"
    <3>1. change = [op |-> "remove_namespace", key |-> r.key]
      BY <2>2 DEF ChangeOf
    <3> HIDE DEF change
    <3> QED BY <1>0, <2>0, <2>2, <3>1 DEF Apply
  <2>3. CASE r.op = "set_mount"
    <3>1. change = [op |-> "set_mount", key |-> r.key, mount |-> r.mount]
      BY <2>3 DEF ChangeOf
    <3> HIDE DEF change
    <3> QED BY <1>0, <2>0, <2>3, <3>1 DEF Apply, Lacks
  <2>4. CASE r.op = "bind"
    <3>1. change = [op |-> "insert_binding", address |-> r.address, locator |-> r.locator]
      BY <2>4 DEF ChangeOf
    <3> HIDE DEF change
    <3> QED BY <1>0, <2>0, <2>4, <3>1 DEF Apply
  <2>5. CASE r.op = "unbind"
    <3>1. change = [op |-> "remove_binding", address |-> r.address]
      BY <2>5 DEF ChangeOf
    <3> HIDE DEF change
    <3> QED BY <1>0, <2>0, <2>5, <3>1 DEF Apply
  <2> QED BY <2>1, <2>2, <2>3, <2>4, <2>5 DEF ConfigOps
<1> QED BY <1>1, <1>2

LEMMA RequestTypes ==
  ASSUME NEW r \in Requests
  PROVE  /\ r.op \in ConfigOps \cup SecretOps
         /\ r.key \in Namespace /\ r.mount \in Backend \cup {NoMount}
         /\ r.address \in Address /\ r.new_name \in Name /\ r.locator \in Locator
         /\ r.address[1] \in Namespace /\ <<r.address[1], r.new_name>> \in Address
  BY FederationAssumption DEF ConfigOps, SecretOps, Operations, Address

LEMMA RegisteredTypes ==
  ASSUME NEW found \in Environments
  PROVE  Registered(found) \subseteq Backend /\ Usable(found) \subseteq Backend
  BY FederationAssumption, DocumentAssumption DEF Registered, Usable, Mounts

LEMMA InitTypes == Init => TypeInv
<1> SUFFICES ASSUME Init PROVE TypeInv
  OBVIOUS
<1>1. document \in Document
  BY DocumentAssumption DEF Init, Document, WithDefault, EmptyDocument
<1>2. held \in [Backend -> SUBSET Address]
  BY DEF Init
<1>3. TypeOK
  BY <1>1, <1>2, FederationAssumption DEF Init, TypeOK, Codes, Answer
<1>4. Admission
  BY DEF Init, Admission, AdmittedAt, Entered, Routed
<1> QED BY <1>3, <1>4 DEF TypeInv

\* The steps of a command leave the others alone.
LEMMA EndTypes ==
  ASSUME TypeInv, NEW c \in Command, NEW answer \in [code : Codes, backend : Backend \cup {NoBackend}],
         EndsWith(c, answer), document' \in Document, held' \in [Backend -> SUBSET Address],
         calls' = calls, faults' \in 0 .. MaxFaults
  PROVE  TypeInv'
<1>1. TypeOK'
  BY DEF TypeInv, TypeOK, EndsWith, Goto, Codes
<1>2. Admission'
  <2> SUFFICES ASSUME NEW d \in Command PROVE AdmittedAt(d)'
    BY DEF Admission
  <2>1. CASE d = c
    BY <2>1 DEF TypeInv, TypeOK, AdmittedAt, EndsWith, Goto, Entered, Routed
  <2>2. CASE d # c
    <3>1. /\ pc'[d] = pc[d] /\ request'[d] = request[d] /\ registered'[d] = registered[d]
          /\ usable'[d] = usable[d] /\ mount'[d] = mount[d]
      BY <2>2 DEF TypeInv, TypeOK, EndsWith, Goto
    <3> QED BY <3>1 DEF TypeInv, Admission, AdmittedAt, Allowed
  <2> QED BY <2>1, <2>2
<1> QED BY <1>1, <1>2 DEF TypeInv

LEMMA MoveTypes ==
  ASSUME TypeInv, NEW c \in Command, pc[c] \notin Entered,
         NEW label \in {"lookup", "bindings", "secrets", "change"} \cup Routed,
         NEW b \in Backend \cup {NoBackend},
         Goto(c, label), mount' = [mount EXCEPT ![c] = b],
         UNCHANGED <<request, registered, usable, reply>>,
         document' \in Document, held' \in [Backend -> SUBSET Address],
         calls' = calls, faults' = faults,
         label = "change" => request[c].op \in ConfigOps,
         label = "bindings" => request[c].op = "remove",
         label = "secrets" => request[c].op \in {"remove", "set_mount"},
         label \in Routed => request[c].op \in SecretOps,
         label \in {"bindings", "secrets"} \cup Routed => b \in Backend
  PROVE  TypeInv'
<1>1. TypeOK'
  BY DEF TypeInv, TypeOK, Goto, Routed
<1>2. Admission'
  <2> SUFFICES ASSUME NEW d \in Command PROVE AdmittedAt(d)'
    BY DEF Admission
  <2>1. CASE d = c
    <3>1. AdmittedAt(c) /\ pc'[c] = label /\ mount'[c] = b
      BY DEF TypeInv, TypeOK, Admission, Goto
    <3> QED BY <2>1, <3>1 DEF AdmittedAt, Allowed, Entered, Routed
  <2>2. CASE d # c
    <3>1. pc'[d] = pc[d] /\ mount'[d] = mount[d]
      BY <2>2 DEF TypeInv, TypeOK, Goto
    <3> QED BY <3>1 DEF TypeInv, Admission, AdmittedAt, Allowed
  <2> QED BY <2>1, <2>2
<1> QED BY <1>1, <1>2 DEF TypeInv

\* A step that keeps the backend it has captured.
LEMMA ContinueTypes ==
  ASSUME TypeInv, NEW c \in Command, pc[c] \notin Entered,
         NEW label \in {"lookup", "bindings", "secrets", "change"} \cup Routed,
         Continues(c, label),
         document' \in Document, held' \in [Backend -> SUBSET Address],
         calls' = calls, faults' = faults,
         label = "change" => request[c].op \in ConfigOps,
         label = "bindings" => request[c].op = "remove",
         label = "secrets" => request[c].op \in {"remove", "set_mount"},
         label \in Routed => request[c].op \in SecretOps,
         label \in {"bindings", "secrets"} \cup Routed => mount[c] \in Backend
  PROVE  TypeInv'
<1>1. mount' = [mount EXCEPT ![c] = mount[c]] /\ mount[c] \in Backend \cup {NoBackend}
  BY DEF Continues, memory, TypeInv, TypeOK
<1> QED BY <1>1, MoveTypes DEF Continues, memory

LEMMA MountTypes ==
  ASSUME TypeInv, NEW c \in Command, request[c] \in Requests, Present(c)
  PROVE  MountedOn(c) \in Backend
<1>1. Key(c) \in Namespace
  BY RequestTypes DEF Key
<1>2. document.namespaces[Key(c)] \in Backend \cup {NoMount}
  BY <1>1, DocumentTypes DEF TypeInv, Present
<1> QED BY <1>2, DocumentAssumption DEF MountedOn, EffectiveMount

LEMMA ChangeTypes ==
  ASSUME TypeInv, NEW c \in Command, request[c] \in Requests,
         request[c].op \in ConfigOps, ChangeConfig(c)
  PROVE  document' \in Document
<1>1. TypeOK /\ document \in Document
  BY DEF TypeInv, TypeOK
<1>2. /\ request[c].key \in Namespace /\ request[c].mount \in Backend \cup {NoMount}
      /\ request[c].address \in Address /\ request[c].locator \in Locator
  BY RequestTypes
<1> QED BY <1>1, <1>2, ChangeEffect, DocumentTypes DEF Document

LEMMA VerdictIsCode == ASSUME NEW doc, NEW change PROVE Verdict(doc, change) \in Codes
  BY DEF Verdict, Codes

LEMMA AnswerTypes ==
  ASSUME NEW code \in Codes
  PROVE  Answer(code) \in [code : Codes, backend : Backend \cup {NoBackend}]
  BY DEF Answer

LEMMA StepTypes ==
  ASSUME TypeInv, NEW c \in Command, Step(c)
  PROVE  TypeInv'
<1> DEFINE op == request[c].op
<1>0. /\ document \in Document /\ held \in [Backend -> SUBSET Address]
      /\ calls \in 0 .. MaxCalls /\ faults \in 0 .. MaxFaults
      /\ AdmittedAt(c)
  BY DEF TypeInv, TypeOK, Admission
\* How a step that observes may end.
<1>1. ASSUME NEW code \in Codes, Ends(c, code), document' \in Document,
             held' \in [Backend -> SUBSET Address], calls' = calls, faults' \in 0 .. MaxFaults
      PROVE  TypeInv'
  BY <1>1, AnswerTypes, EndTypes DEF Ends
<1>2. {"Ok", "Denied", "NotFound", "Conflict", "Unsupported", "Unavailable", "TooLarge"} \subseteq Codes
  BY DEF Codes
<1>3. ASSUME Observes
      PROVE  /\ document' \in Document /\ held' \in [Backend -> SUBSET Address]
             /\ calls' = calls /\ faults' = faults /\ faults' \in 0 .. MaxFaults
  BY <1>0, <1>3 DEF Observes
<1>4. ASSUME pc[c] # "idle" PROVE request[c] \in Requests
  BY <1>0, <1>4 DEF AdmittedAt, TypeInv, TypeOK
<1>5. CASE Admit(c)
  <2>1. CASE ~Allowed(c) /\ Ends(c, "Denied")
    BY <1>1, <1>2, <1>3, <1>5, <2>1 DEF Admit
  <2>2. CASE Allowed(c) /\ Opens(c)
    <3>1. PICK found \in Environments :
            /\ registered' = [registered EXCEPT ![c] = Registered(found)]
            /\ usable' = [usable EXCEPT ![c] = Usable(found)]
      BY <2>2 DEF Opens
    <3>2. request[c] \in Requests /\ pc[c] = "admit"
      BY <1>4, <1>5 DEF Admit
    <3>3. pc' = [pc EXCEPT ![c] = IF op = "unbind" THEN "change" ELSE "lookup"]
      BY <2>2 DEF Opens, Goto
    <3>4. UNCHANGED <<request, mount, reply>>
      BY <2>2 DEF Opens
    <3>5. TypeOK'
      BY <1>3, <1>5, <3>1, <3>3, <3>4, RegisteredTypes, <1>0 DEF TypeInv, TypeOK, Admit, Observes
    <3>6. ASSUME NEW d \in Command PROVE AdmittedAt(d)'
      <4>1. CASE d = c
        <5>1. /\ pc'[c] \in {"change", "lookup"} /\ (pc'[c] = "change" => op = "unbind")
              /\ registered'[c] = Registered(found) /\ request'[c] = request[c]
          BY <3>1, <3>3, <3>4 DEF TypeInv, TypeOK
        <5>2. Allowed(c)' /\ request[c] # NoRequest
          BY <2>2, <3>2, <3>4, FederationAssumption DEF Allowed
        <5> QED BY <4>1, <5>1, <5>2 DEF AdmittedAt, Entered, Routed, ConfigOps
      <4>2. CASE d # c
        <5>1. /\ pc'[d] = pc[d] /\ registered'[d] = registered[d] /\ usable'[d] = usable[d]
          BY <4>2, <3>1, <3>3 DEF TypeInv, TypeOK
        <5> QED BY <3>4, <5>1 DEF TypeInv, Admission, AdmittedAt, Allowed
      <4> QED BY <4>1, <4>2
    <3> QED BY <3>5, <3>6 DEF TypeInv, Admission
  <2> QED BY <1>5, <2>1, <2>2 DEF Admit
<1>6. CASE LookUpAdd(c)
  <2>1. pc[c] = "lookup" /\ op = "add" /\ Observes
    BY <1>6 DEF LookUpAdd
  <2>2. CASE \E code \in {"Conflict", "NotFound"} : Ends(c, code)
    BY <1>1, <1>2, <1>3, <2>1, <2>2
  <2>3. CASE Continues(c, "change")
    BY <1>3, <2>1, <2>3, ContinueTypes DEF Entered, Routed, ConfigOps
  <2> QED BY <1>6, <2>2, <2>3 DEF LookUpAdd
<1>7. CASE LookUpRemove(c) \/ LookUpSetMount(c)
  <2>1. pc[c] = "lookup" /\ op \in {"remove", "set_mount"} /\ Observes
    BY <1>7 DEF LookUpRemove, LookUpSetMount
  <2>2. CASE \E code \in {"Conflict", "NotFound"} : Ends(c, code)
    BY <1>1, <1>2, <1>3, <2>1, <2>2
  <2>3. CASE op = "remove" /\ Present(c) /\ Captures(c, MountedOn(c), "bindings")
    BY <1>3, <1>4, <2>1, <2>3, MoveTypes, MountTypes DEF Captures, Entered, Routed
  <2>4. CASE op = "set_mount" /\ Present(c) /\ Captures(c, MountedOn(c), "secrets")
    BY <1>3, <1>4, <2>1, <2>4, MoveTypes, MountTypes DEF Captures, Entered, Routed
  <2> QED BY <1>7, <2>2, <2>3, <2>4 DEF LookUpRemove, LookUpSetMount
<1>8. CASE LookUpBind(c)
  <2>1. pc[c] = "lookup" /\ op = "bind" /\ Observes
    BY <1>8 DEF LookUpBind
  <2>2. CASE Ends(c, "NotFound")
    BY <1>1, <1>2, <1>3, <2>1, <2>2
  <2>3. CASE Continues(c, "change")
    BY <1>3, <2>1, <2>3, ContinueTypes DEF Entered, Routed, ConfigOps
  <2> QED BY <1>8, <2>2, <2>3 DEF LookUpBind
<1>9. CASE CheckBindings(c)
  <2>1. pc[c] = "bindings" /\ op = "remove" /\ mount[c] \in Backend /\ Observes
    BY <1>0, <1>9 DEF CheckBindings, AdmittedAt
  <2>2. CASE Ends(c, "Conflict")
    BY <1>1, <1>2, <1>3, <2>1, <2>2
  <2>3. CASE Continues(c, "secrets")
    BY <1>3, <2>1, <2>3, ContinueTypes DEF Entered, Routed
  <2> QED BY <1>9, <2>2, <2>3 DEF CheckBindings
<1>10. CASE CheckSecrets(c)
  <2>1. pc[c] = "secrets" /\ op \in {"remove", "set_mount"} /\ Observes
    BY <1>0, <1>10 DEF CheckSecrets, AdmittedAt
  <2>2. CASE Ends(c, "Conflict")
    BY <1>1, <1>2, <1>3, <2>1, <2>2
  <2>3. CASE Continues(c, "change")
    BY <1>3, <2>1, <2>3, ContinueTypes DEF Entered, Routed, ConfigOps
  <2> QED BY <1>10, <2>2, <2>3 DEF CheckSecrets
<1>11. CASE ChangeConfig(c)
  <2>1. pc[c] = "change" /\ op \in ConfigOps /\ request[c] \in Requests
    BY <1>0, <1>4, <1>11 DEF ChangeConfig, AdmittedAt
  <2>2. document' \in Document
    BY <1>11, <2>1, ChangeTypes
  <2>3. Ends(c, Verdict(document, ChangeOf(request[c]))) /\ UNCHANGED <<held, calls, faults>>
    BY <1>11 DEF ChangeConfig
  <2> QED BY <1>0, <1>1, <2>2, <2>3, VerdictIsCode
<1>12. CASE Resolve(c)
  <2>1. pc[c] = "lookup" /\ op \in SecretOps /\ Observes
    BY <1>12 DEF Resolve
  <2>2. CASE \E code \in {"Unsupported", "NotFound"} : Ends(c, code)
    BY <1>1, <1>2, <1>3, <2>1, <2>2
  <2>3. CASE Present(c) /\ \E label \in {"locate", "bound_from", "backend"} :
               Captures(c, MountedOn(c), label)
    BY <1>3, <1>4, <2>1, <2>3, MoveTypes, MountTypes DEF Captures, Entered, Routed
  <2> QED BY <1>12, <2>2, <2>3 DEF Resolve
<1>13. CASE Locate(c) \/ CheckFrom(c) \/ CheckTo(c)
  <2>1. /\ pc[c] \in Routed /\ Observes
    BY <1>13 DEF Locate, CheckFrom, CheckTo, Routed
  <2>2. op \in SecretOps /\ mount[c] \in Backend
    BY <1>0, <2>1 DEF AdmittedAt
  <2>3. CASE \E code \in {"Conflict", "NotFound"} : Ends(c, code)
    BY <1>1, <1>2, <1>3, <2>1, <2>3
  <2>4. CASE \E label \in {"bound_from", "bound_to", "backend"} : Continues(c, label)
    BY <1>3, <2>1, <2>2, <2>4, ContinueTypes DEF Entered, Routed
  <2> QED BY <1>13, <2>3, <2>4 DEF Locate, CheckFrom, CheckTo
<1>14. CASE BackendReads(c) \/ BackendLists(c)
  <2>1. pc[c] = "backend" /\ op \in SecretOps /\ mount[c] \in Backend /\ Observes
    BY <1>0, <1>14 DEF BackendReads, BackendLists, Reaching, AdmittedAt, Routed
  <2>2. CASE Ends(c, "NotFound")
    BY <1>1, <1>2, <1>3, <2>1, <2>2
  <2>3. CASE Continues(c, "report")
    BY <1>3, <2>1, <2>3, ContinueTypes DEF Entered, Routed
  <2> QED BY <1>14, <2>2, <2>3 DEF BackendReads, BackendLists
<1>15. CASE BackendWrites(c)
  <2>1. pc[c] = "backend" /\ op = "write" /\ mount[c] \in Backend /\ UNCHANGED <<document, calls, faults>>
    BY <1>0, <1>15 DEF BackendWrites, Reaching, AdmittedAt, Routed
  <2>2. CASE Ends(c, "TooLarge") /\ UNCHANGED held
    BY <1>0, <1>1, <1>2, <2>1, <2>2
  <2>3. CASE Keeps(c, WriteTo(Here(c), request[c].address)) /\ Continues(c, "report")
    <3>1. held' \in [Backend -> SUBSET Address]
      BY <1>0, <1>4, <2>1, <2>3, RequestTypes DEF Keeps, WriteTo, Gives, Here
    <3> QED BY <1>0, <2>1, <2>3, <3>1, ContinueTypes DEF Entered, Routed, SecretOps
  <2> QED BY <1>15, <2>2, <2>3 DEF BackendWrites
<1>16. CASE BackendDeletes(c)
  <2>1. pc[c] = "backend" /\ mount[c] \in Backend /\ UNCHANGED <<document, calls, faults>>
    BY <1>0, <1>16 DEF BackendDeletes, Reaching, AdmittedAt, Routed
  <2>2. held' \in [Backend -> SUBSET Address] /\ \E code \in {"Ok", "NotFound"} : Ends(c, code)
    BY <1>0, <1>16, <2>1 DEF BackendDeletes, Keeps, DeleteFrom, Gives, Here
  <2> QED BY <1>0, <1>1, <1>2, <2>1, <2>2
<1>17. CASE BackendRenames(c)
  <2>1. pc[c] = "backend" /\ mount[c] \in Backend /\ UNCHANGED <<document, calls, faults>>
    BY <1>0, <1>17 DEF BackendRenames, Reaching, AdmittedAt, Routed
  <2>2. PICK given \in RenameIn(Here(c), request[c].address, Renamed(c)) :
          Ends(c, given.code) /\ Keeps(c, given)
    BY <1>17 DEF BackendRenames
  <2>3. given.code \in Codes /\ given.here \subseteq Here(c) \cup {Renamed(c)}
    BY <1>2 DEF RenameIn, Gives
  <2>4. Renamed(c) \in Address
    BY <1>4, <2>1, RequestTypes DEF Renamed
  <2>5. held' \in [Backend -> SUBSET Address]
    BY <1>0, <2>1, <2>2, <2>3, <2>4 DEF Keeps, Here
  <2> QED BY <1>0, <1>1, <2>1, <2>2, <2>3, <2>5
<1>18. CASE AnswersUnreachable(c)
  BY <1>1, <1>2, <1>3, <1>18 DEF AnswersUnreachable
<1>19. CASE Report(c)
  <2>1. pc[c] = "report" /\ Observes
    BY <1>19 DEF Report
  <2>2. CASE Ends(c, "NotFound")
    BY <1>1, <1>2, <1>3, <2>1, <2>2
  <2>3. CASE Present(c) /\ EndsWith(c, [code |-> "Ok", backend |-> MountedOn(c)])
    <3>1. [code |-> "Ok", backend |-> MountedOn(c)] \in [code : Codes, backend : Backend \cup {NoBackend}]
      BY <1>2, <1>4, <2>1, <2>3, MountTypes
    <3> QED BY <1>3, <2>1, <2>3, <3>1, EndTypes
  <2> QED BY <1>19, <2>2, <2>3 DEF Report
<1>20. CASE Fail(c)
  <2>1. faults' \in 0 .. MaxFaults
    BY <1>0, <1>20, FederationAssumption DEF Fail
  <2> QED BY <1>0, <1>1, <1>2, <1>20, <2>1 DEF Fail
<1> QED
  BY <1>5, <1>6, <1>7, <1>8, <1>9, <1>10, <1>11, <1>12, <1>13, <1>14, <1>15, <1>16, <1>17,
     <1>18, <1>19, <1>20, Step(c) DEF Step

LEMMA BeginTypes ==
  ASSUME TypeInv, NEW c \in Command, NEW r \in Requests, Begin(c, r)
  PROVE  TypeInv'
<1>1. TypeOK'
  BY FederationAssumption DEF Begin, Goto, memory, TypeInv, TypeOK
<1>2. ASSUME NEW d \in Command PROVE AdmittedAt(d)'
  <2>0. AdmittedAt(d) /\ AdmittedAt(c) /\ pc[c] = "idle"
    BY DEF TypeInv, Admission, Begin
  <2>1. CASE d = c
    <3>1. pc'[c] = "admit" /\ request'[c] = r /\ r # NoRequest
      BY FederationAssumption DEF Begin, Goto, TypeInv, TypeOK
    <3> QED BY <2>0, <2>1, <3>1 DEF AdmittedAt, Begin, memory, Entered, Routed
  <2>2. CASE d # c
    <3>1. pc'[d] = pc[d] /\ request'[d] = request[d]
      BY <2>2 DEF Begin, Goto, TypeInv, TypeOK
    <3> QED BY <2>0, <3>1 DEF AdmittedAt, Begin, memory, Allowed
  <2> QED BY <2>1, <2>2
<1> QED BY <1>1, <1>2 DEF TypeInv, Admission

LEMMA NextTypes == TypeInv /\ [Next]_vars => TypeInv'
<1>1. TypeInv /\ UNCHANGED vars => TypeInv'
  BY DEF vars, memory, TypeInv, TypeOK, Admission, AdmittedAt, Allowed
<1>2. TypeInv /\ Next => TypeInv'
  BY StepTypes, BeginTypes DEF Next
<1> QED BY <1>1, <1>2

LEMMA TypeInvHolds == Spec => []TypeInv
  BY InitTypes, NextTypes, PTL DEF Spec

(***************************************************************************)
(* Configuration, backends and commands keep their types, however many     *)
(* commands interleave.                                                    *)
(***************************************************************************)
THEOREM FederationTyped == Spec => []TypeOK
<1>1. TypeInv => TypeOK
  BY DEF TypeInv
<1> QED BY <1>1, TypeInvHolds, PTL

-----------------------------------------------------------------------------
(***************************************************************************)
(* What a command has checked, and the commands that overtake it.          *)
(***************************************************************************)
\* What a command has checked when it is about to take a step.
CheckedAt(c) ==
  /\ pc[c] \in {"bindings", "secrets"} \cup Routed => Present(c) /\ mount[c] = MountedOn(c)
  /\ (pc[c] \in {"secrets", "change"} /\ request[c].op = "remove") => ~HasBindings(document, request[c].key)
  /\ (pc[c] = "change" /\ request[c].op \in {"remove", "set_mount"}) =>
       /\ mount[c] = MountedOn(c)
       /\ Unnamed(c) \/ held[mount[c]] \cap AddressesIn(request[c].key) = {}
  /\ (pc[c] = "change" /\ request[c].op = "bind") => Present(c)
  /\ (pc[c] \in {"bound_to", "backend"} /\ request[c].op = "rename") =>
       document.bindings[request[c].address] = Absent
  /\ (pc[c] = "backend" /\ request[c].op = "rename") => document.bindings[Renamed(c)] = Absent
\* Nobody else takes away what routing has found out about the backend.
RoutedAt(c) ==
  /\ pc[c] \in {"bound_from", "bound_to"} => request[c].op = "rename"
  /\ pc[c] \in Routed => Needs(request[c].op) \subseteq Capabilities[mount[c]]
\* A backend that holds something can be asked for it.
HeldIsListed == \A b \in Backend : held[b] # {} => "List" \in Capabilities[b]
RaceInv ==
  /\ TypeInv /\ HeldIsListed
  /\ \A c \in Command : RoutedAt(c) /\ (c \in overtaken \/ CheckedAt(c))

LEMMA InitRace == RaceInit => RaceInv
  BY InitTypes DEF RaceInit, Init, RaceInv, HeldIsListed, RoutedAt, CheckedAt, Routed

LEMMA Moved ==
  ASSUME TypeInv, NEW c \in Command, NEW label, Goto(c, label)
  PROVE  pc'[c] = label /\ \A d \in Command \ {c} : pc'[d] = pc[d]
  BY DEF Goto, TypeInv, TypeOK

\* A command that is not routed and has checked nothing.
LEMMA Unchecked ==
  ASSUME NEW c \in Command,
         \/ pc[c] \in {"idle", "admit", "lookup"}
         \/ pc[c] = "change" /\ request[c].op \in {"add", "unbind"}
  PROVE  RoutedAt(c) /\ CheckedAt(c)
  BY DEF RoutedAt, CheckedAt, Routed

\* What a command looks up in a step of its own, it has checked then.
LEMMA OwnStep ==
  ASSUME RaceInv, NEW c \in Command, Step(c)
  PROVE  RoutedAt(c)' /\ (CheckedAt(c) => CheckedAt(c)')
<1> DEFINE op == request[c].op
<1>0. TypeInv /\ TypeOK /\ AdmittedAt(c) /\ RoutedAt(c) /\ HeldIsListed
  BY DEF RaceInv, TypeInv, Admission
<1> SUFFICES RoutedAt(c)' /\ (CheckedAt(c) => CheckedAt(c)')
  OBVIOUS
<1>1. ASSUME NEW answer, EndsWith(c, answer) PROVE RoutedAt(c)' /\ CheckedAt(c)'
  <2>1. pc'[c] = "idle"
    BY <1>0, <1>1, Moved DEF EndsWith
  <2> QED BY <2>1 DEF RoutedAt, CheckedAt, Routed
<1>2. ASSUME NEW label, Goto(c, label) PROVE pc'[c] = label
  BY <1>0, <1>2, Moved
<1>3. ASSUME UNCHANGED <<document, request>>
      PROVE  /\ Present(c)' = Present(c) /\ MountedOn(c)' = MountedOn(c) /\ Renamed(c)' = Renamed(c)
             /\ \A k : HasBindings(document, k)' = HasBindings(document, k)
  BY <1>3 DEF Present, MountedOn, Renamed, Key
<1>4. CASE Admit(c)
  <2>1. CASE Ends(c, "Denied")
    BY <1>1, <2>1 DEF Ends
  <2>2. CASE Opens(c)
    <3>1. Goto(c, IF op = "unbind" THEN "change" ELSE "lookup") /\ UNCHANGED request
      BY <2>2 DEF Opens
    <3> QED BY <1>2, <3>1 DEF RoutedAt, CheckedAt, Routed
  <2> QED BY <1>4, <2>1, <2>2 DEF Admit
<1>5. CASE LookUpAdd(c)
  <2>1. CASE \E code \in {"Conflict", "NotFound"} : Ends(c, code)
    BY <1>1, <2>1 DEF Ends
  <2>2. CASE Continues(c, "change")
    <3>1. Goto(c, "change") /\ UNCHANGED request /\ op = "add"
      BY <1>5, <2>2 DEF LookUpAdd, Continues
    <3> QED BY <1>2, <3>1 DEF RoutedAt, CheckedAt, Routed
  <2> QED BY <1>5, <2>1, <2>2 DEF LookUpAdd
<1>6. CASE LookUpRemove(c) \/ LookUpSetMount(c)
  <2>1. op \in {"remove", "set_mount"} /\ Observes
    BY <1>6 DEF LookUpRemove, LookUpSetMount
  <2>2. CASE \E code \in {"Conflict", "NotFound"} : Ends(c, code)
    BY <1>1, <2>2 DEF Ends
  <2>3. CASE \E label \in {"bindings", "secrets"} :
               /\ label = "secrets" => op = "set_mount"
               /\ Present(c) /\ Captures(c, MountedOn(c), label)
    <3>1. PICK label \in {"bindings", "secrets"} :
            /\ label = "secrets" => op = "set_mount"
            /\ Present(c) /\ Captures(c, MountedOn(c), label)
      BY <2>3
    <3>2. Goto(c, label) /\ UNCHANGED request /\ mount'[c] = MountedOn(c)
      BY <1>0, <3>1 DEF Captures, TypeOK
    <3> QED BY <1>2, <1>3, <2>1, <3>1, <3>2 DEF RoutedAt, CheckedAt, Routed, Observes
  <2> QED BY <1>6, <2>2, <2>3 DEF LookUpRemove, LookUpSetMount
<1>7. CASE LookUpBind(c)
  <2>1. CASE Ends(c, "NotFound")
    BY <1>1, <2>1 DEF Ends
  <2>2. CASE Present(c) /\ Continues(c, "change")
    <3>1. Goto(c, "change") /\ UNCHANGED <<document, request>> /\ op = "bind"
      BY <1>7, <2>2 DEF LookUpBind, Continues, Observes
    <3> QED BY <1>2, <1>3, <2>2, <3>1 DEF RoutedAt, CheckedAt, Routed
  <2> QED BY <1>7, <2>1, <2>2 DEF LookUpBind
<1>8. CASE CheckBindings(c)
  <2>1. pc[c] = "bindings" /\ op = "remove" /\ Observes
    BY <1>0, <1>8 DEF CheckBindings, AdmittedAt
  <2>2. CASE Ends(c, "Conflict")
    BY <1>1, <2>2 DEF Ends
  <2>3. CASE ~HasBindings(document, request[c].key) /\ Continues(c, "secrets")
    <3>1. Goto(c, "secrets") /\ UNCHANGED <<document, request, mount>>
      BY <2>1, <2>3 DEF Continues, memory, Observes
    <3> QED BY <1>2, <1>3, <2>1, <2>3, <3>1 DEF RoutedAt, CheckedAt, Routed
  <2> QED BY <1>8, <2>2, <2>3 DEF CheckBindings
<1>9. CASE CheckSecrets(c)
  <2>1. pc[c] = "secrets" /\ op \in {"remove", "set_mount"} /\ Observes
    BY <1>0, <1>9 DEF CheckSecrets, AdmittedAt
  <2>2. CASE Ends(c, "Conflict")
    BY <1>1, <2>2 DEF Ends
  <2>3. CASE ~HoldsSecrets(c) /\ Continues(c, "change")
    <3>1. Goto(c, "change") /\ UNCHANGED <<document, held, request, registered, mount>>
      BY <2>1, <2>3 DEF Continues, memory, Observes
    <3>2. mount[c] \in Backend /\ \E found \in Environments : registered[c] = Registered(found)
      BY <1>0, <2>1 DEF AdmittedAt, Entered
    <3>3. CASE mount[c] \notin registered[c]
      <4>1. PICK found \in Environments : registered[c] = Registered(found)
        BY <3>2
      <4>2. Unnamed(c)'
        BY <1>2, <2>1, <3>1, <3>3, <4>1 DEF Unnamed, Registered
      <4> QED BY <1>2, <1>3, <2>1, <3>1, <4>2 DEF RoutedAt, CheckedAt, Routed
    <3>4. CASE mount[c] \in registered[c]
      <4>1. held[mount[c]] \cap AddressesIn(request[c].key) = {}
        BY <1>0, <2>3, <3>2, <3>4 DEF HoldsSecrets, AsksForSecrets, HeldIsListed
      <4> QED BY <1>2, <1>3, <2>1, <3>1, <4>1 DEF RoutedAt, CheckedAt, Routed
    <3> QED BY <3>3, <3>4
  <2> QED BY <1>9, <2>2, <2>3 DEF CheckSecrets
<1>10. CASE ChangeConfig(c)
  BY <1>1, <1>10 DEF ChangeConfig, Ends
<1>11. CASE Resolve(c)
  <2>1. pc[c] = "lookup" /\ op \in SecretOps /\ Observes
    BY <1>11 DEF Resolve
  <2>2. CASE \E code \in {"Unsupported", "NotFound"} : Ends(c, code)
    BY <1>1, <2>2 DEF Ends
  <2>3. CASE \E label \in {"locate", "bound_from", "backend"} :
               /\ label = "bound_from" => op = "rename"
               /\ label = "backend" => op # "rename"
               /\ Present(c) /\ Needs(op) \subseteq Capabilities[MountedOn(c)]
               /\ Captures(c, MountedOn(c), label)
    <3>1. PICK label \in {"locate", "bound_from", "backend"} :
            /\ label = "bound_from" => op = "rename"
            /\ label = "backend" => op # "rename"
            /\ Present(c) /\ Needs(op) \subseteq Capabilities[MountedOn(c)]
            /\ Captures(c, MountedOn(c), label)
      BY <2>3
    <3>2. Goto(c, label) /\ UNCHANGED <<document, request>> /\ mount'[c] = MountedOn(c)
      BY <1>0, <2>1, <3>1 DEF Captures, TypeOK, Observes
    <3>3. RoutedAt(c)'
      BY <1>2, <3>1, <3>2 DEF RoutedAt
    <3>4. CheckedAt(c)'
      BY <1>2, <1>3, <3>1, <3>2 DEF CheckedAt, Routed
    <3> QED BY <3>3, <3>4
  <2> QED BY <1>11, <2>2, <2>3 DEF Resolve
<1>12. CASE Locate(c) \/ CheckFrom(c) \/ CheckTo(c)
  <2>1. pc[c] \in {"locate", "bound_from", "bound_to"} /\ Observes
    BY <1>12 DEF Locate, CheckFrom, CheckTo
  <2>2. CASE \E code \in {"Conflict", "NotFound"} : Ends(c, code)
    BY <1>1, <2>2 DEF Ends
  <2>3. CASE \E label \in {"bound_from", "bound_to", "backend"} :
               /\ Continues(c, label)
               /\ label \in {"bound_from", "bound_to"} => op = "rename"
               /\ label = "bound_to" => document.bindings[request[c].address] = Absent
               /\ (label = "backend" /\ op = "rename" /\ CheckedAt(c)) =>
                    /\ document.bindings[request[c].address] = Absent
                    /\ document.bindings[Renamed(c)] = Absent
    <3>1. PICK label \in {"bound_from", "bound_to", "backend"} :
            /\ Continues(c, label)
            /\ label \in {"bound_from", "bound_to"} => op = "rename"
            /\ label = "bound_to" => document.bindings[request[c].address] = Absent
            /\ (label = "backend" /\ op = "rename" /\ CheckedAt(c)) =>
                 /\ document.bindings[request[c].address] = Absent
                 /\ document.bindings[Renamed(c)] = Absent
      BY <2>3
    <3>2. Goto(c, label) /\ UNCHANGED <<document, request, mount>>
      BY <2>1, <3>1 DEF Continues, memory, Observes
    <3>3. RoutedAt(c)'
      BY <1>0, <1>2, <2>1, <3>1, <3>2 DEF RoutedAt, Routed
    <3>4. CheckedAt(c) => CheckedAt(c)'
      BY <1>2, <1>3, <2>1, <3>1, <3>2 DEF CheckedAt, Routed
    <3> QED BY <3>3, <3>4
  <2>4. CASE Locate(c) \/ CheckFrom(c)
    BY <1>0, <2>2, <2>3, <2>4 DEF Locate, CheckFrom, RoutedAt
  <2>5. CASE CheckTo(c)
    BY <1>0, <2>2, <2>3, <2>5 DEF CheckTo, RoutedAt, CheckedAt
  <2> QED BY <1>12, <2>4, <2>5
<1>13. CASE BackendReads(c) \/ BackendLists(c) \/ BackendWrites(c)
  <2>1. pc[c] = "backend" /\ UNCHANGED document
    BY <1>13 DEF BackendReads, BackendLists, BackendWrites, Reaching, Observes
  <2>2. CASE \E code \in {"NotFound", "TooLarge"} : Ends(c, code)
    BY <1>1, <2>2 DEF Ends
  <2>3. CASE Continues(c, "report")
    <3>1. Goto(c, "report") /\ UNCHANGED <<request, mount>>
      BY <2>3 DEF Continues, memory
    <3> QED BY <1>0, <1>2, <1>3, <2>1, <3>1 DEF RoutedAt, CheckedAt, Routed
  <2> QED BY <1>13, <2>2, <2>3 DEF BackendReads, BackendLists, BackendWrites
<1>14. CASE BackendDeletes(c) \/ BackendRenames(c) \/ AnswersUnreachable(c) \/ Report(c) \/ Fail(c)
  <2>1. \E answer : EndsWith(c, answer)
    BY <1>14 DEF BackendDeletes, BackendRenames, AnswersUnreachable, Report, Fail, Ends
  <2> QED BY <1>1, <2>1
<1> QED
  BY <1>4, <1>5, <1>6, <1>7, <1>8, <1>9, <1>10, <1>11, <1>12, <1>13, <1>14, Step(c) DEF Step

\* What a command has checked stays true until another overtakes it.
LEMMA OthersStep ==
  ASSUME TypeInv, TypeInv', NEW d \in Command, CheckedAt(d), ~Overtakes(d),
         pc'[d] = pc[d], request'[d] = request[d], mount'[d] = mount[d],
         registered'[d] = registered[d]
  PROVE  CheckedAt(d)'
<1> DEFINE r == request[d]
           k == r.key
<1>1. CASE pc[d] \in {"idle", "admit", "lookup"}
  BY <1>1, Unchecked DEF CheckedAt, Routed
<1>2. CASE pc[d] \notin {"idle", "admit", "lookup"}
  <2>1. document'.namespaces[Key(d)] = document.namespaces[Key(d)] /\ Key(d)' = Key(d)
    BY <1>2 DEF Overtakes, Key
  <2>2. Present(d)' = Present(d) /\ MountedOn(d)' = MountedOn(d) /\ Renamed(d)' = Renamed(d)
    BY <2>1 DEF Present, MountedOn, Renamed
  <2>3. Unnamed(d)' = Unnamed(d)
    BY DEF Unnamed
  <2>4. ASSUME pc[d] \in {"secrets", "change"}, r.op = "remove", ~HasBindings(document, k)
        PROVE  ~HasBindings(document', k)
    BY <2>4 DEF Overtakes, Binds, HasBindings
  <2>5. ASSUME pc[d] = "change", r.op \in {"remove", "set_mount"},
               held[mount[d]] \cap AddressesIn(k) = {}
        PROVE  held'[mount[d]] \cap AddressesIn(k) = {}
    BY <2>5 DEF Overtakes, Stores
  <2>6. ASSUME pc[d] \in {"bound_to", "backend"}, r.op = "rename",
               document.bindings[r.address] = Absent
        PROVE  document'.bindings[r.address] = Absent
    BY <2>6 DEF Overtakes, Binds
  <2>7. ASSUME pc[d] = "backend", r.op = "rename", document.bindings[Renamed(d)] = Absent
        PROVE  document'.bindings[Renamed(d)] = Absent
    BY <2>7 DEF Overtakes, Binds
  <2> QED BY <2>2, <2>3, <2>4, <2>5, <2>6, <2>7 DEF CheckedAt
<1> QED BY <1>1, <1>2

\* What a step of a backend makes of what it holds.
LEMMA HeldEffect ==
  ASSUME TypeInv, NEW c \in Command, Step(c)
  PROVE  \/ UNCHANGED held
         \/ /\ pc[c] = "backend" /\ pc'[c] # "backend" /\ mount[c] \in Backend
            /\ request[c] \in Requests /\ request[c].op \in SecretOps /\ UNCHANGED document
            /\ \A b \in Backend : \A a \in held'[b] :
                 \/ a \in held[b]
                 \/ /\ b = mount[c] /\ a \in Address /\ a[1] = request[c].address[1]
                    /\ "Write" \in Needs(request[c].op)
<1> DEFINE r == request[c]
           a0 == request[c].address
<1>0. TypeOK /\ AdmittedAt(c)
  BY DEF TypeInv, Admission
<1>1. CASE BackendWrites(c) \/ BackendDeletes(c) \/ BackendRenames(c)
  <2>1. /\ pc[c] = "backend" /\ mount[c] \in Backend /\ r \in Requests /\ r.op \in SecretOps
        /\ UNCHANGED document
    BY <1>0, <1>1 DEF BackendWrites, BackendDeletes, BackendRenames, Reaching, AdmittedAt, TypeOK, Routed
  <2>2. pc'[c] # "backend"
    BY <1>1, Moved DEF BackendWrites, BackendDeletes, BackendRenames, Ends, EndsWith, Continues
  <2>3. a0 \in Address /\ Renamed(c) \in Address /\ Renamed(c)[1] = a0[1]
    BY <2>1, RequestTypes DEF Renamed
  <2>4. ASSUME NEW here, held' = [held EXCEPT ![mount[c]] = here],
               \A a \in here : \/ a \in held[mount[c]]
                               \/ a \in {a0, Renamed(c)} /\ "Write" \in Needs(r.op)
        PROVE  \A b \in Backend : \A a \in held'[b] :
                 \/ a \in held[b]
                 \/ /\ b = mount[c] /\ a \in Address /\ a[1] = a0[1]
                    /\ "Write" \in Needs(r.op)
    <3>1. \A b \in Backend : held'[b] = IF b = mount[c] THEN here ELSE held[b]
      BY <1>0, <2>1, <2>4 DEF TypeOK
    <3> QED BY <2>3, <2>4, <3>1
  <2>5. CASE BackendWrites(c)
    <3>1. CASE UNCHANGED held
      BY <3>1
    <3>2. CASE Keeps(c, WriteTo(Here(c), a0))
      <4>1. "Write" \in Needs(r.op)
        BY <2>5 DEF BackendWrites, Needs, ActionsOf
      <4>2. held' = [held EXCEPT ![mount[c]] = held[mount[c]] \cup {a0}]
        BY <3>2 DEF Keeps, WriteTo, Gives, Here
      <4> QED BY <2>1, <2>2, <2>4, <4>1, <4>2
    <3> QED BY <2>5, <3>1, <3>2 DEF BackendWrites
  <2>6. CASE BackendDeletes(c)
    <3>1. held' = [held EXCEPT ![mount[c]] = held[mount[c]] \ {a0}]
      BY <2>6 DEF BackendDeletes, Keeps, DeleteFrom, Gives, Here
    <3> QED BY <2>1, <2>2, <2>4, <3>1
  <2>7. CASE BackendRenames(c)
    <3>1. "Write" \in Needs(r.op)
      BY <2>7 DEF BackendRenames, Needs, ActionsOf
    <3>2. PICK given \in RenameIn(Here(c), a0, Renamed(c)) : Keeps(c, given)
      BY <2>7 DEF BackendRenames
    <3>3. given.here \subseteq held[mount[c]] \cup {Renamed(c)}
      BY DEF RenameIn, Gives, Here
    <3> QED BY <2>1, <2>2, <2>4, <3>1, <3>2, <3>3 DEF Keeps
  <2> QED BY <1>1, <2>5, <2>6, <2>7
<1>2. CASE ~(BackendWrites(c) \/ BackendDeletes(c) \/ BackendRenames(c))
  BY <1>2, Step(c) DEF Step, Admit, LookUpAdd, LookUpRemove, LookUpSetMount, LookUpBind, CheckBindings,
     CheckSecrets, ChangeConfig, Resolve, Locate, CheckFrom, CheckTo, BackendReads, BackendLists,
     AnswersUnreachable, Report, Fail, Observes
<1> QED BY <1>1, <1>2

LEMMA HeldStays ==
  ASSUME RaceInv, NEW c \in Command, Step(c)
  PROVE  HeldIsListed'
<1>0. TypeInv /\ RoutedAt(c) /\ HeldIsListed
  BY DEF RaceInv
<1>1. CASE UNCHANGED held
  BY <1>0, <1>1 DEF HeldIsListed
<1>2. CASE /\ pc[c] = "backend" /\ mount[c] \in Backend
           /\ \A b \in Backend : \A a \in held'[b] :
                a \in held[b] \/ (b = mount[c] /\ "Write" \in Needs(request[c].op))
  <2>1. Needs(request[c].op) \subseteq Capabilities[mount[c]]
    BY <1>0, <1>2 DEF RoutedAt, Routed
  <2> QED BY <1>0, <1>2, <2>1, FederationAssumption DEF HeldIsListed
<1> QED BY <1>0, <1>1, <1>2, HeldEffect

LEMMA OthersAlone ==
  ASSUME TypeInv, NEW c \in Command, NEW d \in Command \ {c}, Step(c) \/ \E r \in Requests : Begin(c, r)
  PROVE  /\ pc'[d] = pc[d] /\ request'[d] = request[d] /\ mount'[d] = mount[d]
         /\ registered'[d] = registered[d]
<1>1. ASSUME NEW answer, EndsWith(c, answer)
      PROVE  /\ pc'[d] = pc[d] /\ request'[d] = request[d] /\ mount'[d] = mount[d]
             /\ registered'[d] = registered[d]
  BY <1>1 DEF EndsWith, Goto, TypeInv, TypeOK
<1>2. ASSUME NEW label, Continues(c, label)
      PROVE  /\ pc'[d] = pc[d] /\ request'[d] = request[d] /\ mount'[d] = mount[d]
             /\ registered'[d] = registered[d]
  BY <1>2 DEF Continues, memory, Goto, TypeInv, TypeOK
<1>3. ASSUME NEW b, NEW label, Captures(c, b, label)
      PROVE  /\ pc'[d] = pc[d] /\ request'[d] = request[d] /\ mount'[d] = mount[d]
             /\ registered'[d] = registered[d]
  BY <1>3 DEF Captures, Goto, TypeInv, TypeOK
<1>4. CASE Opens(c)
  BY <1>4 DEF Opens, Goto, TypeInv, TypeOK
<1>5. CASE \E r \in Requests : Begin(c, r)
  BY <1>5 DEF Begin, memory, Goto, TypeInv, TypeOK
<1>6. CASE Step(c)
  <2>1. \/ \E answer : EndsWith(c, answer)
        \/ \E label : Continues(c, label)
        \/ \E b, label : Captures(c, b, label)
        \/ Opens(c)
    BY <1>6, Zenon DEF Step, Admit, LookUpAdd, LookUpRemove, LookUpSetMount, LookUpBind, CheckBindings,
       CheckSecrets, ChangeConfig, Resolve, Locate, CheckFrom, CheckTo, BackendReads, BackendWrites,
       BackendDeletes, BackendRenames, BackendLists, AnswersUnreachable, Report, Fail, Ends
  <2> QED BY <1>1, <1>2, <1>3, <1>4, <2>1
<1> QED BY <1>5, <1>6

LEMMA RaceStep ==
  ASSUME RaceInv, NEW c \in Command, Step(c) \/ \E r \in Requests : Begin(c, r),
         overtaken' = {d \in overtaken \cup {e \in Command \ {c} : Overtakes(e)} : pc'[d] # "idle"}
  PROVE  RaceInv'
<1>0. TypeInv /\ HeldIsListed
  BY DEF RaceInv
<1>1. TypeInv'
  BY <1>0, StepTypes, BeginTypes
<1>2. HeldIsListed'
  <2>1. CASE \E r \in Requests : Begin(c, r)
    BY <1>0, <2>1 DEF HeldIsListed, Begin
  <2> QED BY <2>1, HeldStays
<1>3. RoutedAt(c)' /\ (CheckedAt(c) => CheckedAt(c)')
  <2>1. CASE \E r \in Requests : Begin(c, r)
    <3>1. pc'[c] = "admit"
      BY <1>0, <2>1, Moved DEF Begin
    <3> QED BY <3>1 DEF RoutedAt, CheckedAt, Routed
  <2> QED BY <2>1, OwnStep
<1>4. ASSUME NEW d \in Command, pc'[d] = "idle" PROVE CheckedAt(d)'
  BY <1>4 DEF CheckedAt, Routed
<1>5. c \in overtaken' \/ CheckedAt(c)'
  BY <1>3, <1>4 DEF RaceInv
<1>6. ASSUME NEW d \in Command \ {c} PROVE RoutedAt(d)' /\ (d \in overtaken' \/ CheckedAt(d)')
  <2>1. /\ pc'[d] = pc[d] /\ request'[d] = request[d] /\ mount'[d] = mount[d]
        /\ registered'[d] = registered[d]
    BY <1>0, <1>6, OthersAlone
  <2>2. RoutedAt(d)'
    BY <2>1 DEF RaceInv, RoutedAt
  <2>3. CASE d \in overtaken \/ Overtakes(d)
    BY <1>4, <2>2, <2>3
  <2>4. CASE d \notin overtaken /\ ~Overtakes(d)
    BY <1>0, <1>1, <2>1, <2>2, <2>4, OthersStep DEF RaceInv
  <2> QED BY <2>3, <2>4
<1> QED BY <1>1, <1>2, <1>3, <1>5, <1>6 DEF RaceInv

LEMMA RaceInvHolds == RaceSpec => []RaceInv
<1>1. RaceInv /\ UNCHANGED raceVars => RaceInv'
  <2> SUFFICES ASSUME RaceInv, UNCHANGED raceVars PROVE RaceInv'
    OBVIOUS
  <2>1. TypeInv'
    BY NextTypes DEF RaceInv, raceVars
  <2>2. UNCHANGED <<document, held, request, pc, registered, mount, overtaken>>
    BY DEF raceVars, vars, memory
  <2> QED BY <2>1, <2>2 DEF RaceInv, HeldIsListed, RoutedAt, CheckedAt, Present, MountedOn, Renamed, Key,
             HasBindings, Unnamed
<1>2. RaceInv /\ RaceNext => RaceInv'
  BY RaceStep DEF RaceNext
<1> QED BY <1>1, <1>2, InitRace, PTL DEF RaceSpec

(***************************************************************************)
(* Whichever steps fail and however commands interleave, a secret becomes  *)
(* unreachable only by the step of a command that another overtook, or of  *)
(* a remove or set_mount whose table lacks the backend.                    *)
(***************************************************************************)
THEOREM SecretsStayReachable == RaceSpec => SecretsReachable
<1> DEFINE Excused == \E c \in Command : Moves(c) /\ (c \in overtaken \/ Unnamed(c))
           ns == document.namespaces
<1>1. ASSUME UNCHANGED <<document, held>> PROVE Stranded' \subseteq Stranded
  BY <1>1 DEF Stranded
<1>2. ASSUME RaceInv, NEW c \in Command, Step(c), ~Excused PROVE Stranded' \subseteq Stranded
  <2> DEFINE r == request[c]
  <2>0. /\ TypeInv /\ TypeOK /\ AdmittedAt(c) /\ (c \in overtaken \/ CheckedAt(c))
    BY <1>2 DEF RaceInv, TypeInv, Admission
  <2>1. CASE ChangeConfig(c)
    <3>1. pc[c] = "change" /\ r \in Requests /\ r.op \in ConfigOps /\ UNCHANGED held
      BY <2>0, <2>1 DEF ChangeConfig, AdmittedAt, TypeOK
    <3>2. Moves(c)
      BY <2>0, <2>1, <3>1, Moved DEF ChangeConfig, Ends, EndsWith, Moves
    <3>3. CheckedAt(c) /\ ~Unnamed(c)
      BY <1>2, <2>0, <3>2
    <3>4. r.key \in Namespace /\ ns \in [Namespace -> Backend \cup {NoMount, Absent}]
      BY <2>0, <3>1, RequestTypes, DocumentTypes
    <3>5. ASSUME NEW k \in Namespace, ns'[k] # ns[k], ns[k] # Absent
          PROVE  held[EffectiveMount(ns[k])] \cap AddressesIn(k) = {}
      <4>1. k = r.key /\ r.op \in {"remove", "set_mount"}
        BY <2>0, <2>1, <3>1, <3>4, <3>5, ChangeEffect
      <4>2. mount[c] = EffectiveMount(ns[k])
        BY <3>1, <3>3, <4>1 DEF CheckedAt, MountedOn, Key, NamespaceOps
      <4> QED BY <3>1, <3>3, <4>1, <4>2 DEF CheckedAt
    <3> SUFFICES ASSUME NEW s \in Stranded' PROVE s \in Stranded
      OBVIOUS
    <3>6. /\ s \in Backend \X Address /\ s[2] \in held[s[1]] /\ s[2] \in AddressesIn(s[2][1])
          /\ s[2][1] \in Namespace
          /\ ns'[s[2][1]] = Absent \/ EffectiveMount(ns'[s[2][1]]) # s[1]
      BY <3>1 DEF Stranded, AddressesIn, Address
    <3>7. CASE ns'[s[2][1]] = ns[s[2][1]] \/ ns[s[2][1]] = Absent
      BY <3>6, <3>7 DEF Stranded
    <3>8. CASE ns'[s[2][1]] # ns[s[2][1]] /\ ns[s[2][1]] # Absent
      BY <3>5, <3>6, <3>8 DEF Stranded
    <3> QED BY <3>7, <3>8
  <2>2. CASE UNCHANGED document /\ ~UNCHANGED held
    <3>1. /\ pc[c] = "backend" /\ pc'[c] # "backend" /\ r.op \in SecretOps
          /\ \A b \in Backend : \A a \in held'[b] :
               a \in held[b] \/ (b = mount[c] /\ a[1] = r.address[1])
      BY <1>2, <2>0, <2>2, HeldEffect
    <3>2. CheckedAt(c)
      BY <1>2, <2>0, <3>1 DEF Moves
    <3>3. ns[r.address[1]] # Absent /\ EffectiveMount(ns[r.address[1]]) = mount[c]
      BY <3>1, <3>2 DEF CheckedAt, Routed, Present, MountedOn, Key, NamespaceOps, SecretOps
    <3> SUFFICES ASSUME NEW s \in Stranded' PROVE s \in Stranded
      OBVIOUS
    <3>4. /\ s \in Backend \X Address /\ s[2] \in held'[s[1]]
          /\ ns[s[2][1]] = Absent \/ EffectiveMount(ns[s[2][1]]) # s[1]
      BY <2>2 DEF Stranded
    <3>5. s[2] \in held[s[1]]
      BY <3>1, <3>3, <3>4
    <3> QED BY <3>4, <3>5 DEF Stranded
  <2>3. ChangeConfig(c) \/ UNCHANGED document
    BY <1>2 DEF Step, Admit, LookUpAdd, LookUpRemove, LookUpSetMount, LookUpBind, CheckBindings,
       CheckSecrets, Resolve, Locate, CheckFrom, CheckTo, BackendReads, BackendWrites,
       BackendDeletes, BackendRenames, BackendLists, AnswersUnreachable, Report, Fail, Observes
  <2> QED BY <1>1, <2>1, <2>2, <2>3
<1>3. RaceInv /\ [RaceNext]_raceVars => [Stranded' \subseteq Stranded \/ Excused]_raceVars
  BY <1>1, <1>2 DEF RaceNext, Begin
<1> HIDE DEF Excused
<1>4. RaceSpec => [][Stranded' \subseteq Stranded \/ Excused]_raceVars
  BY <1>3, RaceInvHolds, PTL DEF RaceSpec
<1> QED BY <1>4 DEF Excused, SecretsReachable

(***************************************************************************)
(* However commands interleave, a binding is left without its namespace    *)
(* only by a bind or a removal that another command overtook.              *)
(***************************************************************************)
THEOREM BindingsKeepNamespace == RaceSpec => BindingsHaveNamespace
<1> DEFINE Excused == \E c \in Command : Moves(c) /\ c \in overtaken
           ns == document.namespaces
           bs == document.bindings
<1>1. ASSUME UNCHANGED document PROVE Homeless' \subseteq Homeless
  BY <1>1 DEF Homeless
<1>2. ASSUME RaceInv, NEW c \in Command, ChangeConfig(c), ~Excused PROVE Homeless' \subseteq Homeless
  <2> DEFINE r == request[c]
  <2>0. /\ TypeInv /\ TypeOK /\ AdmittedAt(c) /\ (c \in overtaken \/ CheckedAt(c))
    BY <1>2 DEF RaceInv, TypeInv, Admission
  <2>1. pc[c] = "change" /\ r \in Requests /\ r.op \in ConfigOps
    BY <1>2, <2>0 DEF ChangeConfig, AdmittedAt, TypeOK
  <2>2. Moves(c)
    BY <1>2, <2>0, <2>1, Moved DEF ChangeConfig, Ends, EndsWith, Moves
  <2>3. CheckedAt(c)
    BY <1>2, <2>0, <2>2
  <2>4. /\ r.key \in Namespace /\ r.mount \in Backend \cup {NoMount} /\ r.address \in Address
        /\ ns \in [Namespace -> Backend \cup {NoMount, Absent}]
        /\ bs \in [Address -> Locator \cup {Absent}]
    BY <2>0, <2>1, RequestTypes, DocumentTypes
  <2> SUFFICES ASSUME NEW a \in Homeless' PROVE a \in Homeless
    OBVIOUS
  <2>5. a \in Address /\ a[1] \in Namespace /\ a \in AddressesIn(a[1]) /\ bs'[a] # Absent /\ ns'[a[1]] = Absent
    BY DEF Homeless, Address, AddressesIn
  <2>6. CASE r.op = "remove"
    <3>1. \A x \in AddressesIn(r.key) : bs[x] = Absent
      BY <2>1, <2>3, <2>6 DEF CheckedAt, HasBindings
    <3>2. bs' = bs /\ \A k \in Namespace \ {r.key} : ns'[k] = ns[k]
      BY <1>2, <2>0, <2>1, <2>4, <2>6, ChangeEffect
    <3> QED BY <2>5, <3>1, <3>2 DEF Homeless
  <2>7. CASE r.op = "bind"
    <3>1. ns[r.address[1]] # Absent
      BY <2>1, <2>3, <2>7 DEF CheckedAt, Present, Key, NamespaceOps
    <3>2. ns' = ns /\ \A x \in Address \ {r.address} : bs'[x] = bs[x]
      BY <1>2, <2>0, <2>1, <2>4, <2>7, ChangeEffect
    <3> QED BY <2>5, <3>1, <3>2 DEF Homeless
  <2>8. CASE r.op = "unbind"
    <3>1. ns' = ns /\ \A x \in Address : bs'[x] = bs[x] \/ bs'[x] = Absent
      BY <1>2, <2>0, <2>1, <2>4, <2>8, ChangeEffect
    <3> QED BY <2>5, <3>1 DEF Homeless
  <2>9. CASE r.op \in {"add", "set_mount"}
    <3>1. bs' = bs /\ \A k \in Namespace : ns'[k] = ns[k] \/ ns'[k] # Absent
      BY <1>2, <2>0, <2>1, <2>4, <2>9, ChangeEffect, DocumentAssumption
    <3> QED BY <2>5, <3>1 DEF Homeless
  <2> QED BY <2>1, <2>6, <2>7, <2>8, <2>9 DEF ConfigOps
<1>3. ASSUME NEW c \in Command, Step(c) PROVE ChangeConfig(c) \/ UNCHANGED document
  BY <1>3 DEF Step, Admit, LookUpAdd, LookUpRemove, LookUpSetMount, LookUpBind, CheckBindings,
     CheckSecrets, Resolve, Locate, CheckFrom, CheckTo, BackendReads, BackendWrites,
     BackendDeletes, BackendRenames, BackendLists, AnswersUnreachable, Report, Fail, Observes
<1>4. RaceInv /\ [RaceNext]_raceVars => [Homeless' \subseteq Homeless \/ Excused]_raceVars
  BY <1>1, <1>2, <1>3 DEF RaceNext, Begin
<1> HIDE DEF Excused
<1>5. RaceSpec => [][Homeless' \subseteq Homeless \/ Excused]_raceVars
  BY <1>4, RaceInvHolds, PTL DEF RaceSpec
<1> QED BY <1>5 DEF Excused, BindingsHaveNamespace

(***************************************************************************)
(* However commands interleave, a secret is renamed from or to a bound     *)
(* name only if the name was bound after rename had looked it up.          *)
(***************************************************************************)
THEOREM BindingsStay == RaceSpec => BindingsNeverMove
<1>1. RaceInv /\ [RaceNext]_raceVars =>
        [\A c \in Command :
           (Moves(c) /\ pc[c] = "backend" /\ request[c].op = "rename" /\ reply'[c].code = "Ok") =>
             \/ c \in overtaken
             \/ document.bindings[request[c].address] = Absent /\ document.bindings[Renamed(c)] = Absent]_raceVars
  BY DEF RaceInv, CheckedAt
<1> QED BY <1>1, RaceInvHolds, PTL DEF RaceSpec, BindingsNeverMove
=============================================================================
