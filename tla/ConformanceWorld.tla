-------------------------- MODULE ConformanceWorld --------------------------
(***************************************************************************)
(* The conformance runner's storage targets (checks/conformance,           *)
(* target.rs, storage.rs, cli.rs): a scenario forces the outcome of some   *)
(* commands, and for each command the target arranges the world the        *)
(* outcome is answered in, sends the command to the stack - in this        *)
(* process, or as one run of secretsctl - and reads the branch off the     *)
(* answer and off what the world shows.  The stack is Federation, with the *)
(* target as its one caller.                                               *)
(***************************************************************************)
EXTENDS Federation

CONSTANTS
  Targets,        \* the components run, of {"library", "cli"}
  Inputs,         \* what scenarios send
  Kind,           \* [Backend -> {"keychain", "remote", "onepassword"}]
  Fakes,          \* recording fakes; the keychain kind's can be switched off
  ReadOnlyFake, ReadWriteFake,  \* the two an arrangement adds under labels of its own
  FixtureName, FixtureLocator,
  NoInput

ASSUME WorldAssumption ==
  /\ Targets \subseteq {"library", "cli"}
  /\ Kind \in [Backend -> {"keychain", "remote", "onepassword"}]
  /\ {ReadOnlyFake, ReadWriteFake} \subseteq Fakes /\ Fakes \subseteq Backend
  /\ Kind[ReadOnlyFake] = "onepassword" /\ Kind[ReadWriteFake] = "keychain"
  /\ FixtureName \in Name /\ FixtureLocator \in Locator
  /\ NoInput \notin Inputs

VARIABLES
  target,      \* the component this scenario is answered by
  phase,
  configured,  \* World.mounted, World.configured: the backends there are
  armed,       \* keychain entries whose next call fails
  switch,      \* what is switched off for the command under way
  forcing,     \* the outcome control the scenario has set, for one command
  doing, forced,  \* the command under way, and the outcome forced for it
  before,      \* what the target noted before it sent the command
  reached,     \* what the counters around the backends and the store show
  holding,     \* which branches' conditions hold for the command: for the properties
  scopes,      \* the namespaces a command addressed, which the view is read over
  last         \* the last command and the branch it took

scenario == <<target, configured, armed, scopes>>
command == <<doing, forced, switch, before, reached, holding>>
worldVars == <<vars, phase, scenario, command, forcing, last>>

PortRefusals == {"invalid-name", "too-large"}
NoForce == [op |-> "none", outcome |-> "none"]
NothingDown == [config |-> FALSE, backends |-> {}, entries |-> {}]
NothingNoted == [mount |-> Absent, bound |-> FALSE]
NothingReached == [backends |-> {}, config |-> FALSE, write |-> "none"]
NothingDone == [op |-> "none", forced |-> "none", branch |-> "none", holding |-> {}]

The == CHOOSE c \in Command : TRUE  \* there is one caller
Scope(i) == IF i.op \in NamespaceOps THEN i.key ELSE i.address[1]
NewAddress(i) == <<i.address[1], i.new_name>>
Mount(doc, k) == EffectiveMount(doc.namespaces[k])
Shipped == {b \in Backend \ Fakes : Kind[b] = "keychain"}  \* keychains on the mock store

-----------------------------------------------------------------------------
(***************************************************************************)
(* Arranging.  A world is a record of what arrangement reads and changes;  *)
(* `ok` is FALSE once something could not be arranged.                     *)
(***************************************************************************)
World == [document |-> document, held |-> held, configured |-> configured,
          down |-> NothingDown, ok |-> TRUE]

Impossible(w) == [w EXCEPT !.ok = FALSE]
Switched(w, down) == [w EXCEPT !.down = down]
Configure(w, b) == [w EXCEPT !.configured = @ \cup {b}]
UnconfiguredUnchecked(w, b) == w  \* mutant
Unconfigured(w, b) == IF b \in w.configured THEN Impossible(w) ELSE w

EnsureNamespace(w, k, m) ==
  IF w.document.namespaces[k] # Absent THEN w ELSE [w EXCEPT !.document.namespaces[k] = m]
EnsureBinding(w, a) ==
  IF w.document.bindings[a] # Absent THEN w
  ELSE [w EXCEPT !.document.bindings[a] = FixtureLocator]

\* Fixtures go through the backend itself, which an armed entry makes fail.
Calls(w, b, as) == IF \E a \in as : <<b, a>> \in armed THEN Impossible(w) ELSE w
EnsureSecret(w, b, a) ==
  IF a \in w.held[b] THEN Calls(w, b, {a})
  ELSE IF "Write" \notin Capabilities[b] THEN Impossible(w)
  ELSE [Calls(w, b, {a}) EXCEPT !.held[b] = @ \cup {a}]
RefuseSecret(w, b, a) == IF a \in w.held[b] THEN Impossible(w) ELSE Calls(w, b, {a})
ClearSecret(w, b, a) == [Calls(w, b, {a}) EXCEPT !.held[b] = @ \ {a}]
\* A secret in the namespace, a fixture when it lists none.
Occupy(w, k) ==
  LET b == Mount(w.document, k)
      here == w.held[b] \cap AddressesIn(k)
  IN  IF "List" \notin Capabilities[b] THEN Impossible(w)
      ELSE IF here # {} THEN Calls(w, b, here)
      ELSE EnsureSecret(w, b, <<k, FixtureName>>)

FaultOfDefault(w, i) == Switched(w, [NothingDown EXCEPT !.backends = {DefaultBackend}])  \* mutant
FaultAtFixture(w, i) ==  \* mutant
  Switched(w, [NothingDown EXCEPT !.entries = {<<DefaultBackend, <<Scope(i), FixtureName>>>>}])
\* The fault of the backend the command's namespace is mounted on: in this
\* process a fake that is switched off, an entry armed to fail, a database that
\* takes no connection.
LibraryFault(w, b, i) ==
  IF b \in Fakes \/ Kind[b] = "remote" THEN Switched(w, [NothingDown EXCEPT !.backends = {b}])
  ELSE IF i.op = "list" THEN Impossible(w)
  ELSE Switched(w, [NothingDown EXCEPT !.entries = {<<b, i.address>>}])
\* From outside the keychains are one file, and a fake lives inside each run.
CliFault(w, b) ==
  CASE Kind[b] = "remote" -> Switched(w, [NothingDown EXCEPT !.backends = {b}])
    [] Kind[b] = "keychain" -> Switched(w, [NothingDown EXCEPT !.backends = Shipped])
    [] OTHER -> Impossible(w)
Fault(w, i) ==
  LET b == Mount(w.document, Scope(i))
  IN  IF target = "library" THEN LibraryFault(w, b, i) ELSE CliFault(w, b)

\* The namespace on a new fake when there is none; the CLI's fakes are read-only.
OnFake(w, k, fake) ==
  IF w.document.namespaces[k] # Absent THEN w
  ELSE EnsureNamespace(Configure(w, fake), k, fake)

ArrangeUnresolved(w, i) ==
  LET k == Scope(i)
      unbound == /\ target = "library" /\ i.op # "list"
                 /\ Mount(w.document, k) \in BindingRequired
                 /\ w.document.bindings[i.address] = Absent
  IN  IF w.document.namespaces[k] = Absent \/ unbound THEN w ELSE Impossible(w)
ArrangeUnsupported(w, i) ==
  LET on == OnFake(w, Scope(i), ReadOnlyFake)
  IN  IF Needs(i.op) \subseteq Capabilities[Mount(on.document, Scope(i))] THEN Impossible(on) ELSE on
ArrangeUnavailable(w, i) ==
  Fault(IF target = "library" THEN OnFake(w, Scope(i), ReadWriteFake)
        ELSE EnsureNamespace(w, Scope(i), NoMount), i)
ArrangeStored(w, i, f) ==
  LET b == Mount(w.document, Scope(i))
  IN  CASE i.op = "list" -> w
        [] f = "not-found" \/ (i.op = "write" /\ f = "created") -> RefuseSecret(w, b, i.address)
        [] i.op \in {"write", "read", "delete"} /\ f = "none" -> EnsureSecret(w, b, i.address)
        [] i.op = "rename" /\ f = "none" ->
             ClearSecret(EnsureSecret(w, b, i.address), b, NewAddress(i))
        [] i.op = "rename" /\ f = "taken" ->
             EnsureSecret(EnsureSecret(w, b, i.address), b, NewAddress(i))
        [] i.op = "rename" /\ f = "bound" ->
             EnsureBinding(EnsureSecret(w, b, i.address), i.address)
        [] OTHER -> w
ArrangeSecret(w, i, f) ==
  CASE f = "unresolved" -> ArrangeUnresolved(w, i)
    [] f = "unsupported" -> ArrangeUnsupported(w, i)
    [] f = "unavailable" -> ArrangeUnavailable(w, i)
    [] OTHER -> ArrangeStored(EnsureNamespace(w, Scope(i), NoMount), i, f)

ArrangeManage(w, i, f) ==
  LET k == Scope(i)
      there == EnsureNamespace(w, k, NoMount)
      m == EffectiveMount(i.mount)
  IN  CASE f = "unavailable" -> Switched(w, [NothingDown EXCEPT !.config = TRUE])
        [] i.op = "add" /\ f = "exists" -> there
        [] i.op \in {"add", "set_mount"} /\ f = "no-backend" ->
             Unconfigured(IF i.op = "add" THEN w ELSE there, m)
        [] i.op = "add" /\ f = "none" -> Configure(w, m)
        [] i.op = "remove" /\ f = "none" -> there
        [] i.op = "remove" /\ f = "in-use" -> Occupy(there, k)
        [] i.op = "set_mount" /\ f = "none" -> Configure(there, m)
        [] i.op = "set_mount" /\ f = "in-use" -> Occupy(Configure(there, m), k)
        [] i.op = "bind" /\ f = "none" -> there
        [] i.op = "bind" /\ f = "already-bound" -> EnsureBinding(there, i.address)
        [] i.op = "unbind" /\ f = "none" -> EnsureBinding(there, i.address)
        [] OTHER -> w

Arranged(i, f) ==
  IF ~Admitted(i.op, i) THEN World
  ELSE IF i.op \in SecretOps THEN ArrangeSecret(World, i, f) ELSE ArrangeManage(World, i, f)

-----------------------------------------------------------------------------
(***************************************************************************)
(* The input: an unforced segment over 64 bytes is rewritten to a name of  *)
(* the same length that is within bounds, and a forced refusal of the port *)
(* is made true on the input, where a value exactly at the bound is what   *)
(* the remote backend refuses on its own.                                  *)
(***************************************************************************)
OnRemote(i) ==
  /\ document.namespaces[Scope(i)] # Absent
  /\ Kind[Mount(document, Scope(i))] = "remote"
Segmented(text) == IF text = "segment" THEN "ok" ELSE text
Within(i) == [i EXCEPT !.name = Segmented(@), !.to = Segmented(@)]
CanRefuse(i, f) ==
  IF f = "too-large" THEN i.op = "write" ELSE i.op \notin {"remove", "set_mount", "list"}
Refusing(i, f) ==
  CASE f = "too-large" -> [i EXCEPT !.value = IF OnRemote(i) THEN "limit" ELSE "over"]
    [] i.op = "add" -> [i EXCEPT !.namespace = "grammar"]
    [] OTHER -> [i EXCEPT !.name = "segment"]

\* What the port's checks see of an input.
Text(i) == [tenant |-> i.tenant, user |-> i.user, namespace |-> i.namespace, label |-> i.label,
            name |-> i.name, new_name |-> i.to, value |-> i.value]
Refused(i) == Refusal(i.op, Text(i))
\* The library arranges a refusal only on an input the port accepts.
Prepared(i, f) ==
  IF ~Admitted(i.op, i) THEN i
  ELSE IF f = "none" THEN Within(i)
  ELSE IF f \in PortRefusals /\ (target = "cli" \/ Refused(i) = Accepted) THEN Refusing(i, f)
  ELSE i

NameOps == {"bind", "write", "read", "delete", "rename"}
\* The branch a refusal of the port is.
RefusalBranch(op, refusal) ==
  CASE refusal.part = "value" -> "too-large"
    [] refusal.part = "label" -> "undeclared"
    [] refusal.part = "name" /\ refusal.reason = "too_long" /\ op \in NameOps -> "name-too-long"
    [] refusal.part = "new_name" /\ refusal.reason = "too_long" -> "new-name-too-long"
    [] refusal.part = "namespace" /\ refusal.reason = "too_long" /\ op = "add" -> "name-too-long"
    [] op \in NameOps \cup {"add"} -> "invalid-name"
    [] OTHER -> "undeclared"

-----------------------------------------------------------------------------
(***************************************************************************)
(* Reading the branch off the answer.                                      *)
(***************************************************************************)
SuccessOf ==
  [add |-> "added", remove |-> "removed", set_mount |-> "set", bind |-> "bound",
   unbind |-> "unbound", read |-> "read", write |-> "replaced", delete |-> "deleted",
   rename |-> "renamed", list |-> "listed"]
SuccessBranch(i) ==
  IF i.op = "write" /\ reached.write = "Created" THEN "created" ELSE SuccessOf[i.op]

\* What tells two branches of one code apart.
Existed == before.mount # Absent
StoreAsBound(i) ==  \* mutant
  [resolved |-> reached.backends # {}, default |-> ~reached.config,
   bound |-> reached.config, asked |-> reached.backends # {}]
\* In this process the counters, from outside what the configuration held before.
LibraryHints ==
  [resolved |-> reached.backends # {}, default |-> ~reached.config,
   bound |-> reached.backends = {}, asked |-> reached.backends # {}]
CliHints(i) ==
  [resolved |-> Existed, default |-> i.key = DefaultNamespace,
   bound |-> before.bound, asked |-> FALSE]
Hints(i) == IF target = "library" THEN LibraryHints ELSE CliHints(i)

Either(condition, yes, no) == IF condition THEN yes ELSE no
RefusedBranch(i, code) ==
  LET h == Hints(i)
      is(op, what) == i.op = op /\ code = what
  IN  CASE code = "Unavailable" -> "unavailable"
        [] is("add", "Conflict") -> "exists"
        [] is("add", "NotFound") -> "no-backend"
        [] is("remove", "Conflict") -> Either(h.default, "is-default", "in-use")
        [] is("remove", "NotFound") \/ is("unbind", "NotFound") -> "not-found"
        [] is("set_mount", "NotFound") -> Either(Existed, "no-backend", "no-namespace")
        [] is("set_mount", "Conflict") -> "in-use"
        [] is("bind", "NotFound") -> "no-namespace"
        [] is("bind", "Conflict") -> "already-bound"
        [] is("write", "TooLarge") -> "too-large"
        [] i.op \in {"read", "delete", "rename"} /\ code = "NotFound" ->
             Either(h.resolved, "not-found", "unresolved")
        [] i.op \in {"write", "list"} /\ code = "NotFound" /\ ~h.resolved -> "unresolved"
        [] i.op \in SecretOps \ {"read"} /\ code = "Unsupported" /\ ~h.asked -> "unsupported"
        [] is("rename", "Conflict") -> Either(h.bound, "bound", "taken")
        [] OTHER -> "undeclared"

\* Exactly one backend, the one the namespace was mounted on, and no fallback.
Strayed == target = "library" /\ ~(reached.backends \subseteq {before.mount})
Untouched == target = "cli" \/ (reached.backends = {} /\ ~reached.config)
BranchOf(i, code) ==
  IF Strayed THEN "undeclared"
  ELSE IF code = "Ok" THEN SuccessBranch(i)
  ELSE IF code = "Denied" THEN Either(Untouched, Decision(i.op, i), "undeclared")
  ELSE RefusedBranch(i, code)

-----------------------------------------------------------------------------
(***************************************************************************)
(* The branches whose conditions hold for a command, as the specification  *)
(* (spec/domains/storage.yaml) words them, read off the whole world.       *)
(***************************************************************************)
Reachable(i) ==  \* resolution reaches a backend for the command
  /\ document.namespaces[Scope(i)] # Absent
  /\ Mount(document, Scope(i)) \in configured
  /\ \/ i.op = "list" \/ Mount(document, Scope(i)) \notin BindingRequired
     \/ document.bindings[i.address] # Absent
Stored(i, a) ==
  document.namespaces[Scope(i)] # Absent /\ a \in held[Mount(document, Scope(i))]
Bound(a) == document.bindings[a] # Absent
Occupied(k) == \E b \in Backend : held[b] \cap AddressesIn(k) # {}
SomethingDown == switch # NothingDown \/ armed # {}
\* The condition an outcome names.
Named(i, o) ==
  LET exists == document.namespaces[Scope(i)] # Absent
      is(op, what) == i.op = op /\ o = what
  IN  CASE o \in {"denied", "denied-user"} -> Decision(i.op, i) = o
        [] o = "unavailable" -> SomethingDown
        [] o = "exists" -> i.op = "add" /\ exists
        [] o = "no-backend" -> i.op \in {"add", "set_mount"} /\ EffectiveMount(i.mount) \notin configured
        [] o = "no-namespace" -> i.op \in {"set_mount", "bind"} /\ ~exists
        [] o = "is-default" -> i.op = "remove" /\ i.key = DefaultNamespace
        [] is("remove", "in-use") -> HasBindings(document, i.key) \/ Occupied(i.key)
        [] is("remove", "not-found") -> ~exists
        [] is("set_mount", "in-use") -> Occupied(i.key)
        [] o = "already-bound" -> i.op = "bind" /\ Bound(i.address)
        [] is("bind", "bound") \/ is("unbind", "not-found") -> ~Bound(i.address)
        [] o = "unbound" -> i.op = "unbind" /\ Bound(i.address)
        [] o = "unresolved" -> i.op \in SecretOps /\ ~Reachable(i)
        [] o = "unsupported" ->
             /\ i.op \in SecretOps /\ exists
             /\ ~(Needs(i.op) \subseteq Capabilities[Mount(document, Scope(i))])
        [] o = "too-large" -> i.op = "write" /\ i.value = "limit" /\ OnRemote(i)
        [] o = "not-found" -> i.op \in {"read", "delete", "rename"} /\ ~Stored(i, i.address)
        [] is("rename", "bound") -> Bound(i.address) \/ Bound(NewAddress(i))
        [] o = "taken" -> i.op = "rename" /\ Stored(i, NewAddress(i))
        [] o = "created" -> i.op = "write" /\ ~Stored(i, i.address)
        [] o \in {"replaced", "read", "deleted"} -> SuccessOf[i.op] = o /\ Stored(i, i.address)
        [] o = "renamed" ->
             i.op = "rename" /\ Stored(i, i.address) /\ ~Stored(i, NewAddress(i))
        [] o = "listed" -> i.op = "list"
        [] o = "added" -> i.op = "add" /\ ~exists
        [] o \in {"removed", "set"} -> SuccessOf[i.op] = o /\ exists /\ ~Occupied(i.key)
        [] OTHER -> FALSE
Resolves ==  \* the branches a backend was reached for
  {"too-large", "not-found", "taken", "created", "replaced", "read", "deleted", "renamed", "listed"}
\* The branches a command may take: the resolution before the backend, the
\* namespace before the rest of a namespace or binding command.
Condition(i, o) ==
  LET exists == document.namespaces[Scope(i)] # Absent
  IN  /\ Named(i, o)
      /\ i.op \in SecretOps /\ o \in Resolves => Reachable(i)
      /\ i.op = "add" /\ o = "no-backend" => ~exists
      /\ i.op \in {"set_mount", "bind"} /\ o \in {"no-backend", "in-use", "already-bound", "bound"} => exists
StackBranches ==
  {"denied", "denied-user", "unavailable", "exists", "no-backend", "no-namespace", "is-default",
   "in-use", "already-bound", "unresolved", "unsupported", "too-large", "not-found", "bound",
   "taken", "created", "replaced", "read", "deleted", "renamed", "listed", "added", "removed",
   "set", "unbound"}

\* The same for an input the port refuses: both lengths are guards, whatever
\* else is wrong, and a denial comes before every name refusal.
TooLong(i) == i.op \in NameOps /\ i.name = "too_long"
NewTooLong(i) == i.op = "rename" /\ i.to = "too_long"
IllFormed(i) ==
  \/ i.namespace # "ok"
  \/ i.op \in {"add", "set_mount"} /\ i.label # "ok"
  \/ i.op \in NameOps /\ i.name # "ok"
  \/ i.op = "rename" /\ i.to # "ok"
PortCondition(i, o) ==
  CASE o \in {"denied", "denied-user"} -> Decision(i.op, i) = o
    [] o = "name-too-long" -> TooLong(i) \/ (i.op = "add" /\ i.namespace = "too_long")
    [] o = "new-name-too-long" -> NewTooLong(i) /\ ~TooLong(i)
    [] o = "invalid-name" -> IllFormed(i) /\ ~TooLong(i) /\ ~NewTooLong(i)
    [] o = "too-large" -> i.op = "write" /\ i.value = "over" /\ ~IllFormed(i)
    [] o = "undeclared" -> IllFormed(i) /\ i.op \notin NameOps
PortBranches ==
  {"denied", "denied-user", "name-too-long", "new-name-too-long", "invalid-name", "too-large",
   "undeclared"}
=============================================================================
