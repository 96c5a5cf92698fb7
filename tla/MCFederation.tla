---------------------------- MODULE MCFederation ----------------------------
(***************************************************************************)
(* An instance of FederationRaces for TLC: the default namespace and       *)
(* another one, the keychain, a remote service and a read-only vault that  *)
(* reads by locator.                                                       *)
(***************************************************************************)
EXTENDS FederationRaces, TLC

CONSTANTS c1, c2, dn, wn, kc, rm, op, n1, n2, loc

All == {"Read", "Write", "Delete", "List"}
MCCapabilities == (kc :> All) @@ (rm :> All) @@ (op :> {"Read"})
\* Everything reachable, the token of the service unset, no credential store, or
\* a table that does not parse.
Table(token) == (rm :> RemoteEntry("https", token)) @@ (op :> FakeEntry)
MCEnvironments ==
  {Found(Table("env"), TRUE, TRUE), Found(Table("unset"), TRUE, TRUE), Found(Table("env"), FALSE, TRUE),
   Found(Table("env"), TRUE, FALSE)}

\* A request of the one user; the fields a command does not have are not read.
Mine(o) == [op |-> o, key |-> wn, address |-> <<wn, n1>>, new_name |-> n2, mount |-> rm,
             locator |-> loc, value |-> "fits", tenant |-> "ok", user |-> "ok"]
NamespaceRequests ==
  {[Mine("add") EXCEPT !.mount = m] : m \in {rm, NoMount}}
  \cup {[Mine("remove") EXCEPT !.key = k] : k \in {dn, wn}}
  \cup {[Mine("set_mount") EXCEPT !.mount = m] : m \in {kc, op}}
BindingRequests ==
  {[Mine("bind") EXCEPT !.address = <<wn, n>>] : n \in Name} \cup {Mine("unbind")}
SecretRequests == {Mine(o) : o \in SecretOps} \cup {[Mine("write") EXCEPT !.value = "limit"]}
DeniedRequests == {[Mine("remove") EXCEPT !.tenant = "other"], [Mine("write") EXCEPT !.user = "other"]}
AllRequests == NamespaceRequests \cup BindingRequests \cup SecretRequests \cup DeniedRequests
\* The processes are alike.
Processes == Permutations(Command)
=============================================================================
