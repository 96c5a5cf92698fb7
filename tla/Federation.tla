----------------------------- MODULE Federation -----------------------------
(***************************************************************************)
(* FederatedStorage (crates/secrets-federation/src/lib.rs) under the local *)
(* commands of secretsctl: a command of a scope that is not admitted ends  *)
(* at once, every secret command resolves its address to one backend, and  *)
(* every namespace or binding command checks before it changes anything.   *)
(* Each await is one step, so commands of two processes interleave between *)
(* a check and what it guards.  The configuration is the atomic store      *)
(* FileConfig implements, each backend a set of addresses it holds a       *)
(* secret for.                                                             *)
(***************************************************************************)
EXTENDS ConfiguredBackends, StoragePort, FiniteSets

CONSTANTS
  Command,         \* processes, one command in flight each
  Requests,        \* what they are run with
  Environments,    \* what a process may find when it starts: tables, tokens, a keychain
  Capabilities,    \* [Backend -> SUBSET {"Read", "Write", "Delete", "List"}]
  BindingRequired, \* the backends that read by locator
  Remotes,         \* the backends that refuse a value at the port's bound
  NoRequest, NoBackend,
  MaxOpen,         \* bound: commands in flight at once
  MaxCalls,        \* bound: commands
  MaxFaults        \* bound: answers of a backend or of the file that it cannot be used

ASSUME FederationAssumption ==
  /\ \A found \in Environments :
       DOMAIN found.table \subseteq Backend /\ \A b \in DOMAIN found.table : found.table[b] \in Entry
  /\ BindingRequired \subseteq Backend /\ Remotes \subseteq Backend
  /\ Capabilities \in [Backend -> SUBSET {"Read", "Write", "Delete", "List"}]
  /\ \A b \in Backend : "Write" \in Capabilities[b] => "List" \in Capabilities[b]
  /\ NoBackend \notin Backend
  /\ NoRequest \notin Requests
  /\ \A r \in Requests :
       /\ r.op \in Operations \cup {"describe"}
       /\ r.key \in Namespace /\ r.mount \in Backend \cup {NoMount}
       /\ r.address \in Address /\ r.new_name \in Name /\ r.locator \in Locator
  /\ MaxOpen \in Nat /\ MaxCalls \in Nat /\ MaxFaults \in Nat

VARIABLES
  document,    \* the configuration
  held,        \* the addresses each backend holds a secret for
  request, pc,
  registered,  \* the backends each process registered when it started
  usable,      \* those of them it can reach
  mount,       \* the backend a command has resolved or captured
  reply,       \* the code, and the backend the printed report names
  calls, faults

memory == <<registered, usable, mount>>
vars == <<document, held, request, pc, memory, reply, calls, faults>>

Answer(code) == [code |-> code, backend |-> NoBackend]
Codes == {"none", "Ok", "Denied", "NotFound", "Conflict", "Unsupported", "Unavailable",
          "TooLarge"}
SecretOps == {"read", "write", "delete", "rename", "list", "describe"}

TypeOK ==
  /\ document \in Document
  /\ held \in [Backend -> SUBSET Address]
  /\ request \in [Command -> Requests \cup {NoRequest}]
  /\ pc \in [Command -> {"idle", "admit", "lookup", "bindings", "secrets", "change", "locate",
                         "bound_from", "bound_to", "backend", "report"}]
  /\ registered \in [Command -> SUBSET Backend] /\ usable \in [Command -> SUBSET Backend]
  /\ mount \in [Command -> Backend \cup {NoBackend}]
  /\ reply \in [Command -> [code : Codes, backend : Backend \cup {NoBackend}]]
  /\ calls \in 0 .. MaxCalls /\ faults \in 0 .. MaxFaults

Init ==
  /\ document = WithDefault(EmptyDocument)
  /\ held = [b \in Backend |-> {}]
  /\ request = [c \in Command |-> NoRequest]
  /\ pc = [c \in Command |-> "idle"]
  /\ registered = [c \in Command |-> {}] /\ usable = [c \in Command |-> {}]
  /\ mount = [c \in Command |-> NoBackend]
  /\ reply = [c \in Command |-> Answer("none")]
  /\ calls = 0 /\ faults = 0

Open == {c \in Command : pc[c] # "idle"}
Key(c) == IF request[c].op \in NamespaceOps THEN request[c].key
          ELSE request[c].address[1]
Present(c) == document.namespaces[Key(c)] # Absent
MountedOn(c) == EffectiveMount(document.namespaces[Key(c)])

Goto(c, label) == pc' = [pc EXCEPT ![c] = label]
EndsWith(c, answer) ==
  /\ Goto(c, "idle")
  /\ reply' = [reply EXCEPT ![c] = answer]
  /\ request' = [request EXCEPT ![c] = NoRequest]
  /\ registered' = [registered EXCEPT ![c] = {}] /\ usable' = [usable EXCEPT ![c] = {}]
  /\ mount' = [mount EXCEPT ![c] = NoBackend]
Ends(c, code) == EndsWith(c, Answer(code))
Continues(c, label) == Goto(c, label) /\ UNCHANGED <<request, memory, reply>>
Captures(c, b, label) ==
  /\ Goto(c, label)
  /\ mount' = [mount EXCEPT ![c] = b]
  /\ UNCHANGED <<request, registered, usable, reply>>
Observes == UNCHANGED <<document, held, calls, faults>>

Begin(c, r) ==
  /\ pc[c] = "idle" /\ calls < MaxCalls /\ Cardinality(Open) < MaxOpen
  /\ calls' = calls + 1
  /\ request' = [request EXCEPT ![c] = r]
  /\ Goto(c, "admit")
  /\ UNCHANGED <<document, held, memory, reply, faults>>

Allowed(c) == Admitted(request[c].op, request[c])
Opens(c) ==
  /\ \E found \in Environments :
       /\ registered' = [registered EXCEPT ![c] = Registered(found)]
       /\ usable' = [usable EXCEPT ![c] = Usable(found)]
  /\ Goto(c, IF request[c].op = "unbind" THEN "change" ELSE "lookup")
  /\ UNCHANGED <<request, mount, reply>>
\* The scope is decided before anything is opened; then Local::open registers
\* what the `backends` table names.
Admit(c) ==
  /\ pc[c] = "admit"
  /\ \/ ~Allowed(c) /\ Ends(c, "Denied")
     \/ Allowed(c) /\ Opens(c)
  /\ Observes

\* The namespace is read once; what a command does next is decided from that.
LookUpAdd(c) ==
  /\ pc[c] = "lookup" /\ request[c].op = "add"
  /\ \/ Present(c) /\ Ends(c, "Conflict")
     \/ /\ ~Present(c) /\ EffectiveMount(request[c].mount) \notin registered[c]
        /\ Ends(c, "NotFound")
     \/ /\ ~Present(c) /\ EffectiveMount(request[c].mount) \in registered[c]
        /\ Continues(c, "change")
  /\ Observes
LookUpRemoveGone(c) ==  \* mutant
  /\ pc[c] = "lookup" /\ request[c].op = "remove"
  /\ \/ request[c].key = DefaultNamespace /\ Ends(c, "Conflict")
     \/ request[c].key # DefaultNamespace /\ Captures(c, MountedOn(c), "bindings")
  /\ Observes
LookUpRemove(c) ==
  /\ pc[c] = "lookup" /\ request[c].op = "remove"
  /\ \/ request[c].key = DefaultNamespace /\ Ends(c, "Conflict")
     \/ request[c].key # DefaultNamespace /\ ~Present(c) /\ Ends(c, "NotFound")
     \/ /\ request[c].key # DefaultNamespace /\ Present(c)
        /\ Captures(c, MountedOn(c), "bindings")
  /\ Observes
LookUpSetMount(c) ==
  /\ pc[c] = "lookup" /\ request[c].op = "set_mount"
  /\ \/ (~Present(c) \/ request[c].mount \notin registered[c]) /\ Ends(c, "NotFound")
     \/ Present(c) /\ request[c].mount \in registered[c] /\ Captures(c, MountedOn(c), "secrets")
  /\ Observes
LookUpBind(c) ==
  /\ pc[c] = "lookup" /\ request[c].op = "bind"
  /\ \/ ~Present(c) /\ Ends(c, "NotFound")
     \/ Present(c) /\ Continues(c, "change")
  /\ Observes

BindingsUnchecked(c) ==  \* mutant
  pc[c] = "bindings" /\ Continues(c, "secrets") /\ Observes
\* remove_namespace: bindings, then secrets, then the change.
CheckBindings(c) ==
  /\ pc[c] = "bindings"
  /\ \/ HasBindings(document, request[c].key) /\ Ends(c, "Conflict")
     \/ ~HasBindings(document, request[c].key) /\ Continues(c, "secrets")
  /\ Observes

\* holds_secrets asks the mount the command captured, and nobody if this
\* process registered no such backend or the backend cannot list.
AsksForSecrets(c) == mount[c] \in registered[c] /\ "List" \in Capabilities[mount[c]]
HoldsSecrets(c) ==
  /\ AsksForSecrets(c)
  /\ held[mount[c]] \cap AddressesIn(request[c].key) # {}
CheckSecrets(c) ==
  /\ pc[c] = "secrets" /\ ~(AsksForSecrets(c) /\ mount[c] \notin usable[c])
  /\ \/ HoldsSecrets(c) /\ Ends(c, "Conflict")
     \/ ~HoldsSecrets(c) /\ Continues(c, "change")
  /\ Observes

\* The one change of the command, atomic in the configuration store.
ChangeOf(r) ==
  CASE r.op = "add" -> [op |-> "insert_namespace", key |-> r.key, mount |-> r.mount]
    [] r.op = "remove" -> [op |-> "remove_namespace", key |-> r.key]
    [] r.op = "set_mount" -> [op |-> "set_mount", key |-> r.key, mount |-> r.mount]
    [] r.op = "bind" -> [op |-> "insert_binding", address |-> r.address, locator |-> r.locator]
    [] r.op = "unbind" -> [op |-> "remove_binding", address |-> r.address]
ChangeConfig(c) ==
  LET change == ChangeOf(request[c])
      verdict == Verdict(document, change)
  IN  /\ pc[c] = "change"
      /\ document' = IF verdict = "Ok" THEN Apply(document, change) ELSE document
      /\ Ends(c, verdict)
      /\ UNCHANGED <<held, calls, faults>>

\* resolve: the namespace, its mount, the capability, and the binding of the
\* address where the backend reads by locator.  A refusal calls no backend.
Resolve(c) ==
  LET b == MountedOn(c)
      next == IF b \in BindingRequired THEN "locate"
              ELSE IF request[c].op = "rename" THEN "bound_from" ELSE "backend"
  IN  /\ pc[c] = "lookup" /\ request[c].op \in SecretOps
      /\ \/ (~Present(c) \/ b \notin registered[c]) /\ Ends(c, "NotFound")
         \/ /\ Present(c) /\ b \in registered[c]
            /\ ~(Needs(request[c].op) \subseteq Capabilities[b]) /\ Ends(c, "Unsupported")
         \/ /\ Present(c) /\ b \in registered[c]
            /\ Needs(request[c].op) \subseteq Capabilities[b] /\ Captures(c, b, next)
      /\ Observes
Locate(c) ==
  /\ pc[c] = "locate"
  /\ \/ document.bindings[request[c].address] = Absent /\ Ends(c, "NotFound")
     \/ /\ document.bindings[request[c].address] # Absent
        /\ Continues(c, IF request[c].op = "rename" THEN "bound_from" ELSE "backend")
  /\ Observes

\* rename: neither name may be bound.
Renamed(c) == <<request[c].address[1], request[c].new_name>>
CheckFrom(c) ==
  /\ pc[c] = "bound_from"
  /\ \/ document.bindings[request[c].address] # Absent /\ Ends(c, "Conflict")
     \/ document.bindings[request[c].address] = Absent /\ Continues(c, "bound_to")
  /\ Observes
ToUnchecked(c) ==  \* mutant
  pc[c] = "bound_to" /\ Continues(c, "backend") /\ Observes
CheckTo(c) ==
  /\ pc[c] = "bound_to"
  /\ \/ document.bindings[Renamed(c)] # Absent /\ Ends(c, "Conflict")
     \/ document.bindings[Renamed(c)] = Absent /\ Continues(c, "backend")
  /\ Observes

\* A registered backend that could not be built, asked for anything.
AnswersUnreachable(c) ==
  /\ pc[c] = "backend" \/ (pc[c] = "secrets" /\ AsksForSecrets(c))
  /\ mount[c] \notin usable[c]
  /\ Ends(c, "Unavailable") /\ Observes

\* The backend's answer is the command's.  A backend that reads by locator
\* answers from its vault, the others from what they hold.
Reaching(c) == pc[c] = "backend" /\ mount[c] \in usable[c]
Here(c) == held[mount[c]]
Keeps(c, given) == held' = [held EXCEPT ![mount[c]] = given.here]
BackendReads(c) ==
  /\ Reaching(c) /\ request[c].op = "read"
  /\ \/ mount[c] \in BindingRequired /\ (Continues(c, "report") \/ Ends(c, "NotFound"))
     \/ /\ mount[c] \notin BindingRequired
        /\ IF ReadFrom(Here(c), request[c].address).code = "Ok" THEN Continues(c, "report")
           ELSE Ends(c, "NotFound")
  /\ Observes
BackendWrites(c) ==
  /\ Reaching(c) /\ request[c].op = "write"
  /\ \/ mount[c] \in Remotes /\ request[c].value = "limit"
        /\ Ends(c, "TooLarge") /\ UNCHANGED held
     \/ /\ mount[c] \notin Remotes \/ request[c].value # "limit"
        /\ Keeps(c, WriteTo(Here(c), request[c].address))
        /\ Continues(c, "report")
  /\ UNCHANGED <<document, calls, faults>>
BackendDeletes(c) ==
  LET given == DeleteFrom(Here(c), request[c].address)
  IN  /\ Reaching(c) /\ request[c].op = "delete"
      /\ Ends(c, given.code) /\ Keeps(c, given)
      /\ UNCHANGED <<document, calls, faults>>
BackendRenames(c) ==
  /\ Reaching(c) /\ request[c].op = "rename"
  /\ \E given \in RenameIn(Here(c), request[c].address, Renamed(c)) :
       Ends(c, given.code) /\ Keeps(c, given)
  /\ UNCHANGED <<document, calls, faults>>
\* The rows of a scope; describe looks for one of them.
BackendLists(c) ==
  /\ Reaching(c) /\ request[c].op \in {"list", "describe"}
  /\ IF request[c].op = "describe" /\ request[c].address \notin Here(c) THEN Ends(c, "NotFound")
     ELSE Continues(c, "report")
  /\ Observes

\* put, read, list and describe print the backend of the scope, which mount_of
\* looks up again.
Report(c) ==
  /\ pc[c] = "report"
  /\ \/ ~Present(c) /\ Ends(c, "NotFound")
     \/ Present(c) /\ EndsWith(c, [code |-> "Ok", backend |-> MountedOn(c)])
  /\ Observes

\* The file or the backend cannot be used at this step.
Fail(c) ==
  /\ pc[c] # "idle" /\ faults < MaxFaults
  /\ pc[c] = "admit" => Allowed(c)
  /\ faults' = faults + 1
  /\ Ends(c, "Unavailable")
  /\ UNCHANGED <<document, held, calls>>

Step(c) ==
  \/ Admit(c) \/ LookUpAdd(c) \/ LookUpRemove(c) \/ LookUpSetMount(c) \/ LookUpBind(c)
  \/ CheckBindings(c) \/ CheckSecrets(c) \/ ChangeConfig(c)
  \/ Resolve(c) \/ Locate(c) \/ CheckFrom(c) \/ CheckTo(c)
  \/ BackendReads(c) \/ BackendWrites(c) \/ BackendDeletes(c) \/ BackendRenames(c)
  \/ BackendLists(c) \/ AnswersUnreachable(c) \/ Report(c) \/ Fail(c)
Next == \E c \in Command : Step(c) \/ \E r \in Requests : Begin(c, r)
Spec == Init /\ [][Next]_vars

=============================================================================
