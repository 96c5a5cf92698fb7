--------------------------- MODULE MCConformance ---------------------------
(***************************************************************************)
(* An instance of Conformance for TLC.                                     *)
(***************************************************************************)
EXTENDS Conformance, TLC

CONSTANTS me, dn, wn, kc, rm, vault, ro, rw, n1, nf, loc

MCKind == [b \in Backend |-> IF b = rm THEN "remote"
                             ELSE IF b \in {vault, ro} THEN "onepassword" ELSE "keychain"]
MCCapabilities == [b \in Backend |-> KindCapabilities(MCKind[b])]
\* What a world is configured with is reachable until a fault says otherwise.
MCEnvironments ==
  {Found([b \in names |-> IF b = rm THEN RemoteEntry("loopback", "env")
                                ELSE IF MCKind[b] = "keychain" THEN KeychainEntry ELSE FakeEntry], TRUE, TRUE) :
   names \in SUBSET Backend}

Basic(o) == [op |-> o, key |-> wn, address |-> <<wn, n1>>, new_name |-> nf, mount |-> rm,
             locator |-> loc, tenant |-> "ok", user |-> "ok", namespace |-> "ok", label |-> "ok",
             name |-> "ok", to |-> "ok", value |-> "fits"]
MCInputs ==
  {Basic(o) : o \in Operations}
  \cup {[Basic("set_mount") EXCEPT !.mount = m] : m \in {kc, vault}}
  \cup {[Basic("remove") EXCEPT !.key = dn], [Basic("add") EXCEPT !.mount = NoMount],
        [Basic("bind") EXCEPT !.address = <<wn, nf>>]}
  \cup {[Basic(o) EXCEPT !.address = <<dn, n1>>] : o \in {"read", "rename"}}
  \cup {[Basic("write") EXCEPT !.user = "other"], [Basic("add") EXCEPT !.tenant = "other"],
        [Basic("bind") EXCEPT !.name = "grammar", !.tenant = "other"],
        [Basic("rename") EXCEPT !.name = "segment", !.to = "segment"],
        [Basic("rename") EXCEPT !.namespace = "grammar", !.to = "too_long"],
        [Basic("rename") EXCEPT !.name = "too_long", !.to = "too_long"],
        [Basic("write") EXCEPT !.name = "grammar", !.value = "over"],
        [Basic("set_mount") EXCEPT !.label = "grammar"]}
\* What reaches the stack: the inputs as the target prepares them.
MCRequests ==
  {[i EXCEPT !.name = Segmented(@), !.to = Segmented(@)] : i \in MCInputs}
  \cup {[i EXCEPT !.value = "limit"] : i \in {x \in MCInputs : x.op = "write"}}
MCOutcomes ==
  [add |-> {"exists", "no-backend", "unavailable", "invalid-name"},
   remove |-> {"in-use", "unavailable", "not-found"},
   set_mount |-> {"no-backend", "in-use", "no-namespace", "unavailable"},
   bind |-> {"already-bound", "no-namespace", "unavailable", "invalid-name"},
   unbind |-> {"not-found", "unavailable"},
   read |-> {"unresolved", "not-found", "unavailable"},
   write |-> {"too-large", "unresolved", "unsupported", "unavailable", "created"},
   delete |-> {"unresolved", "unsupported", "not-found", "unavailable"},
   rename |-> {"unresolved", "unsupported", "not-found", "unavailable", "taken", "bound"},
   list |-> {"unresolved", "unsupported", "unavailable"}]
=============================================================================
