----------------------------- MODULE StoragePort -----------------------------
(***************************************************************************)
(* The storage port (crates/secrets-core, storage.rs, authorize.rs and     *)
(* storage/testing.rs): in which order the parts of an input are refused,  *)
(* who may do what, what each kind of backend can do, and what a backend   *)
(* that keeps secrets by address answers.  A text is only as long or as    *)
(* ill-formed as its class says.                                           *)
(***************************************************************************)
EXTENDS Naturals, Sequences

\* "other" is well formed and is not `default`.  "segment" is a name whose only
\* fault is a segment over 64 bytes, "too_long" one over its total length.
TextClass == {"ok", "other", "too_long", "segment", "grammar"}
ValueClass == {"fits", "limit", "over"}  \* under, at and over 1 MiB

Operations == {"add", "remove", "set_mount", "bind", "unbind",
               "read", "write", "delete", "rename", "list"}
NamespaceOps == {"add", "remove", "set_mount"}

Length(part) == [part |-> part, rule |-> "length"]
Grammar(part) == [part |-> part, rule |-> "grammar"]
Size(part) == [part |-> part, rule |-> "size"]

ScopeChecks == <<Grammar("tenant"), Grammar("namespace"), Grammar("user")>>
KeyChecks == <<Length("namespace"), Grammar("tenant"), Grammar("namespace")>>
AddressChecks == <<Length("name")>> \o ScopeChecks \o <<Grammar("name")>>
\* Both lengths are guards of the specification: they come before any grammar.
RenameChecks ==
  <<Length("name"), Length("new_name")>> \o ScopeChecks \o <<Grammar("name"), Grammar("new_name")>>

\* The port's checks of a command, in the order they are made.
ChecksOf(op) ==
  CASE op \in {"add", "set_mount"} -> KeyChecks \o <<Grammar("label")>>
    [] op = "remove" -> KeyChecks
    [] op = "list" -> ScopeChecks
    [] op = "rename" -> RenameChecks
    [] op = "write" -> AddressChecks \o <<Size("value")>>
    [] OTHER -> AddressChecks

Breaks(text, check) ==
  CASE check.rule = "length" -> text[check.part] = "too_long"
    [] check.rule = "grammar" -> text[check.part] \notin {"ok", "other"}
    [] check.rule = "size" -> text[check.part] = "over"

Accepted == [part |-> "none", reason |-> "none"]
\* The first rule an input breaks.
Refusal(op, text) ==
  LET checks == ChecksOf(op)
      broken == {i \in DOMAIN checks : Breaks(text, checks[i])}
  IN  IF broken = {} THEN Accepted
      ELSE LET first == checks[CHOOSE i \in broken : \A j \in broken : i <= j]
           IN  [part |-> first.part, reason |-> text[first.part]]

-----------------------------------------------------------------------------
\* LocalAuthorizer: the tenant, then the user of a secret command.
Decision(op, text) ==
  IF text.tenant # "ok" THEN "denied"
  ELSE IF op \notin NamespaceOps /\ text.user # "ok" THEN "denied-user" ELSE "admitted"

\* The actions Authorized asks about before it calls what it wraps.
ActionsOf(op) ==
  CASE op = "read" -> {"Read"} [] op = "write" -> {"Write"} [] op = "delete" -> {"Delete"}
    [] op = "rename" -> {"Write", "Delete"}
    [] op \in {"list", "describe"} -> {"List"}
    [] OTHER -> {"ManageNamespace"}
Admitted(op, text) == \A action \in ActionsOf(op) : Decision(op, text) = "admitted"

\* What routing asks of the backend, and what each kind of backend offers.
Needs(op) == ActionsOf(op)
KindCapabilities(kind) ==
  IF kind = "onepassword" THEN {"Read"} ELSE {"Read", "Write", "Delete", "List"}

-----------------------------------------------------------------------------
\* A backend that keeps secrets by address: its answer and what it keeps then.
Gives(code, here) == [code |-> code, here |-> here]
ReadFrom(here, a) == Gives(IF a \in here THEN "Ok" ELSE "NotFound", here)
WriteTo(here, a) == Gives(IF a \in here THEN "Replaced" ELSE "Created", here \cup {a})
DeleteFrom(here, a) == Gives(IF a \in here THEN "Ok" ELSE "NotFound", here \ {a})
\* Which of two refusals comes first differs: the fake looks at the new name
\* first, the keychain and the service at the old one.
RenameIn(here, from, to) ==
  LET refusals == (IF from \notin here THEN {"NotFound"} ELSE {})
                  \cup (IF to \in here THEN {"Conflict"} ELSE {})
  IN  IF refusals = {} THEN {Gives("Ok", (here \ {from}) \cup {to})}
      ELSE {Gives(code, here) : code \in refusals}
=============================================================================
