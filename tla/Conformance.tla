----------------------------- MODULE Conformance -----------------------------
(***************************************************************************)
(* One scenario after another against a storage target (SecretsTarget in   *)
(* checks/conformance/src/target.rs over the worlds of storage.rs and      *)
(* cli.rs): begin, force an outcome, send commands, end.                   *)
(***************************************************************************)
EXTENDS ConformanceWorld

CONSTANT Outcomes  \* [op -> the outcomes a scenario may force for it]

\* World::open: namespace `default` on the default mount, and nothing else.
FreshWorld ==
  /\ Init
  /\ configured = {DefaultBackend} /\ armed = {} /\ scopes = {}
  /\ doing = NoInput /\ forced = "none" /\ switch = NothingDown
  /\ before = NothingNoted /\ reached = NothingReached /\ holding = {}
WorldInit ==
  /\ FreshWorld /\ target \in Targets /\ phase = "closed"
  /\ forcing = NoForce /\ last = NothingDone

Begun ==
  /\ document' = WithDefault(EmptyDocument) /\ held' = [b \in Backend |-> {}]
  /\ configured' = {DefaultBackend} /\ armed' = {} /\ scopes' = {}
  /\ doing' = NoInput /\ forced' = "none" /\ switch' = NothingDown
  /\ before' = NothingNoted /\ reached' = NothingReached /\ holding' = {}
  /\ calls' = 0 /\ last' = NothingDone
  /\ UNCHANGED <<request, pc, memory, reply, faults, target>>
\* begin_scenario closes what is open and opens a world of its own.
BeginScenario ==
  phase \in {"closed", "open", "errored"} /\ phase' = "open" /\ forcing' = NoForce /\ Begun
EndScenario ==
  phase \in {"open", "errored"} /\ phase' = "closed" /\ forcing' = NoForce /\ Begun
\* configure_external_outcome: for the scenario's next such command.
ForceOutcome(op, outcome) ==
  /\ phase = "open" /\ outcome \in Outcomes[op]
  /\ forcing' = [op |-> op, outcome |-> outcome]
  /\ last' = NothingDone
  /\ UNCHANGED <<vars, phase, scenario, command>>

Answered(i, f, branch, holds) ==
  last' = [op |-> i.op, forced |-> f, branch |-> branch, holding |-> holds]
Errors ==  \* a TargetError: the runner records an error and ends the scenario
  phase' = "errored" /\ UNCHANGED <<vars, scenario, command, last>>

Takes(i) == IF forcing.op = i.op THEN forcing.outcome ELSE "none"
Spends(i) == forcing' = IF forcing.op = i.op THEN NoForce ELSE forcing
Unarrangeable(i, f) ==
  /\ Admitted(i.op, i) /\ f \in PortRefusals /\ ~CanRefuse(i, f)
  /\ target = "cli" \/ Refused(i) = Accepted
\* The port's answer, or on to the stack.  A denied scope is answered as a
\* denial whatever the port would refuse.
ExecuteCommand(i) ==
  LET f == Takes(i)
      p == Prepared(i, f)
  IN  /\ phase = "open" /\ Spends(i)
      /\ \/ Unarrangeable(i, f) /\ Errors
         \/ /\ ~Unarrangeable(i, f) /\ Refused(p) # Accepted
            /\ Answered(i, f,
                 IF Admitted(i.op, i) THEN RefusalBranch(i.op, Refused(p)) ELSE Decision(i.op, i),
                 {o \in PortBranches : PortCondition(p, o)})
            /\ UNCHANGED <<vars, phase, scenario, command>>
         \/ /\ ~Unarrangeable(i, f) /\ Refused(p) = Accepted /\ calls < MaxCalls
            /\ phase' = "arrange" /\ doing' = p /\ forced' = f
            /\ last' = NothingDone
            /\ UNCHANGED <<vars, scenario, switch, before, reached, holding>>

SecretScopes(i) == IF i.op \in SecretOps THEN scopes \cup {Scope(i)} ELSE scopes  \* mutant
Addressed(i) == IF Admitted(i.op, i) THEN scopes \cup {Scope(i)} ELSE scopes
\* The scopes addressed, the arrangement, and what the target notes before.
Arrange ==
  LET w == Arranged(doing, forced)
  IN  /\ phase = "arrange"
      /\ \/ ~w.ok /\ Errors
         \/ /\ w.ok /\ phase' = "send"
            /\ document' = w.document /\ held' = w.held /\ configured' = w.configured
            /\ switch' = w.down
            /\ scopes' = Addressed(doing)
            /\ UNCHANGED <<request, pc, memory, reply, calls, faults>>
            /\ UNCHANGED <<target, armed, doing, forced, before, reached, holding, last>>
      /\ UNCHANGED forcing

\* The switches are flipped, the counters marked, and the command sent.
Send ==
  /\ phase = "send" /\ phase' = "run"
  /\ armed' = armed \cup switch.entries
  /\ before' = [mount |-> IF document.namespaces[Scope(doing)] = Absent THEN Absent
                          ELSE Mount(document, Scope(doing)),
                bound |-> doing.op = "rename" /\ (Bound(doing.address) \/ Bound(NewAddress(doing)))]
  /\ holding' = {o \in StackBranches : Condition(doing, o)}
  /\ Begin(The, doing)
  /\ UNCHANGED <<target, configured, scopes, doing, forced, switch, reached, forcing, last>>

ReadsConfig ==
  /\ pc[The] \in {"lookup", "bindings", "change", "locate", "bound_from", "bound_to", "report"}
  /\ ~(pc[The] = "lookup" /\ doing.op = "remove" /\ doing.key = DefaultNamespace)
\* What the process that the command runs in mounts: a run of secretsctl mounts
\* keychain/default alone when the file does not parse.
Mounted == IF target = "cli" /\ switch.config THEN {DefaultBackend} ELSE configured
AsksBackend ==
  \/ pc[The] = "backend"
  \/ /\ pc[The] = "secrets" /\ mount[The] \in registered[The]
     /\ "List" \in Capabilities[mount[The]]
\* The keychain entries the backend's call goes to.
Entries ==
  {mount[The]} \X
    (IF pc[The] = "secrets" \/ doing.op = "list" THEN AddressesIn(Scope(doing))
     ELSE IF doing.op = "rename" /\ doing.address \in held[mount[The]]
     THEN {doing.address, NewAddress(doing)} ELSE {doing.address})
Breaking ==
  \/ switch.config /\ ReadsConfig
  \/ AsksBackend /\ (mount[The] \in switch.backends \/ armed \cap Entries # {})
Counts ==
  reached' = [backends |-> reached.backends \cup (IF AsksBackend THEN {mount[The]} ELSE {}),
              config |-> reached.config \/ ReadsConfig,
              write |-> IF pc[The] = "backend" /\ doing.op = "write"
                        THEN WriteTo(Here(The), doing.address).code ELSE reached.write]

\* The fakes that stand in for 1Password keep nothing a locator could find.
ReadsNothing == pc[The] = "backend" /\ mount[The] \in BindingRequired /\ doing.op = "read"

Finished == pc[The] = "idle" \/ (target = "library" /\ pc[The] = "report")
\* The stack takes its next step, which fails where something is down.
Run ==
  /\ phase = "run" /\ ~Finished
  /\ IF Breaking THEN Ends(The, "Unavailable") /\ Observes ELSE Step(The)
  /\ pc[The] = "admit" /\ pc'[The] # "idle" => registered'[The] = Mounted
  /\ Breaking \/ ~ReadsNothing \/ reply'[The].code = "NotFound"
  /\ armed' = IF AsksBackend THEN armed \ Entries ELSE armed
  /\ Counts
  /\ UNCHANGED <<target, configured, scopes, doing, forced, switch, before, holding>>
  /\ UNCHANGED <<phase, forcing, last>>

\* The switches are undone (an armed entry has made its one failing call) and
\* the branch is read off.
Observe ==
  LET code == IF pc[The] = "report" THEN "Ok" ELSE reply[The].code
  IN  /\ phase = "run" /\ Finished
      /\ phase' = "open"
      /\ Answered(doing, forced, BranchOf(doing, code), holding)
      /\ EndsWith(The, Answer("none"))
      /\ doing' = NoInput /\ forced' = "none" /\ switch' = NothingDown
      /\ before' = NothingNoted /\ reached' = NothingReached /\ holding' = {}
      /\ Observes /\ UNCHANGED <<scenario, forcing>>

WorldNext ==
  \/ BeginScenario \/ EndScenario
  \/ \E op \in DOMAIN Outcomes : \E outcome \in Outcomes[op] : ForceOutcome(op, outcome)
  \/ \E i \in Inputs : ExecuteCommand(i)
  \/ Arrange \/ Send \/ Run \/ Observe
WorldSpec == WorldInit /\ [][WorldNext]_worldVars

-----------------------------------------------------------------------------
(***************************************************************************)
(* "The adapter never decides a branch; it arranges the world the branch   *)
(* is answered in" (storage.rs:15): whatever counters, codes and earlier   *)
(* look-ups the branch is read off, its condition held in the world the    *)
(* command was sent in.  From outside the process a read that resolution   *)
(* refused for want of a binding cannot be told from one of nothing        *)
(* (cli.rs, interpret): that branch is guessed.                            *)
(***************************************************************************)
Guessed ==
  /\ target = "cli" /\ last.op = "read" /\ last.branch = "not-found"
  /\ "unresolved" \in last.holding
TrueBranch == last.op # "none" => last.branch \in last.holding \/ Guessed

(***************************************************************************)
(* "Forced, exactly the named condition is made true" (storage.rs:55):     *)
(* what is sent meets the condition, whatever the scenario did before.     *)
(* Four outcomes of namespace and binding commands are arranged nothing    *)
(* and not looked at either (manage), so a world in which an earlier       *)
(* command added or removed the record is sent the command all the same.   *)
(***************************************************************************)
Unchecked ==
  {<<"remove", "not-found">>, <<"unbind", "not-found">>,
   <<"set_mount", "no-namespace">>, <<"bind", "no-namespace">>}
ArrangedHolds ==
  /\ phase = "send" /\ Admitted(doing.op, doing)
  /\ forced # "none" /\ <<doing.op, forced>> \notin Unchecked
  => Named(doing, forced)

(***************************************************************************)
(* In a world of its own a forced command takes the branch it was forced   *)
(* to: arrangement, stack and observation agree.  Only a denial and the    *)
(* removal of `default` are decided before anything arranged is met.       *)
(***************************************************************************)
ForcedTaken ==
  /\ last.forced # "none" /\ calls = 1 /\ last.forced \in last.holding
  /\ last.branch \notin {"denied", "denied-user", "is-default"}
  => last.branch = last.forced

(***************************************************************************)
(* "An armed entry fails its next call only; the command made that call"   *)
(* (unflip, storage.rs:571).  A rename that a binding refuses makes no     *)
(* call: the entry stays armed and fails a later command, or its           *)
(* arrangement.  No other command leaves one.                              *)
(***************************************************************************)
FaultSpent ==
  [][phase = "run" /\ phase' = "open" =>
       switch.entries \cap armed = {} \/ last'.branch = "bound"]_worldVars

Listed ==
  UNION {LET b == Mount(document, k)
         IN  IF "List" \in Capabilities[b] THEN held[b] \cap AddressesIn(k) ELSE {} :
         k \in {x \in scopes : document.namespaces[x] # Absent}}
(***************************************************************************)
(* The SecretMetadata view a scenario ends with lists the scopes the       *)
(* commands addressed (views, rows): it shows every secret any backend     *)
(* keeps, fixtures included.                                               *)
(***************************************************************************)
ViewShowsAll == phase = "open" => Listed = UNION {held[b] : b \in Backend}
=============================================================================
