--------------------------- MODULE FederationRaces ---------------------------
(***************************************************************************)
(* What commands that overtake each other can do to what Federation keeps. *)
(* A command looks up the namespace, the bindings and the secrets it       *)
(* relies on in steps of their own; the history variable `overtaken` holds *)
(* the commands for which another command has since changed what they     *)
(* looked up.  The steps are those of Federation, and none reads it.      *)
(***************************************************************************)
EXTENDS Federation

VARIABLE overtaken
raceVars == <<vars, overtaken>>

\* A step that makes false what d has seen at the label it has reached.
Binds(a) == document.bindings[a] = Absent /\ document'.bindings[a] # Absent
Stores(b, a) == a \notin held[b] /\ a \in held'[b]
Overtakes(d) ==
  \/ /\ pc[d] \notin {"idle", "admit", "lookup"}
     /\ document'.namespaces[Key(d)] # document.namespaces[Key(d)]
  \/ /\ pc[d] \in {"secrets", "change"} /\ request[d].op = "remove"
     /\ \E a \in AddressesIn(request[d].key) : Binds(a)
  \/ /\ pc[d] = "change" /\ request[d].op \in {"remove", "set_mount"}
     /\ \E a \in AddressesIn(request[d].key) : Stores(mount[d], a)
  \/ /\ pc[d] \in {"bound_to", "backend"} /\ request[d].op = "rename"
     /\ Binds(request[d].address) \/ (pc[d] = "backend" /\ Binds(Renamed(d)))

RaceInit == Init /\ overtaken = {}
RaceNext ==
  \E c \in Command :
    /\ Step(c) \/ \E r \in Requests : Begin(c, r)
    /\ overtaken' = {d \in overtaken \cup {e \in Command \ {c} : Overtakes(e)} : pc'[d] # "idle"}
RaceSpec == RaceInit /\ [][RaceNext]_raceVars

Moves(c) == pc'[c] # pc[c]
\* The table c's process found names no such backend: routing takes a namespace
\* that is mounted on it to hold nothing (lib.rs, holds_secrets).
Unnamed(c) ==
  /\ pc[c] = "change" /\ request[c].op \in {"remove", "set_mount"}
  /\ \E found \in Environments :
       registered[c] = Registered(found) /\ mount[c] \notin DOMAIN Mounts(found)

\* Secrets no command of their namespace reaches, and bindings of no namespace.
Stranded ==
  {s \in Backend \X Address :
     /\ s[2] \in held[s[1]]
     /\ \/ document.namespaces[s[2][1]] = Absent
        \/ EffectiveMount(document.namespaces[s[2][1]]) # s[1]}
Homeless ==
  {a \in Address : document.bindings[a] # Absent /\ document.namespaces[a[1]] = Absent}

-----------------------------------------------------------------------------
(***************************************************************************)
(* Every secret stored through a namespace stays reachable through it:     *)
(* RemoveNamespace "is refused while secrets remain" (storage.yaml:252),   *)
(* set_mount asks the old backend first, and a write goes where the        *)
(* namespace is mounted.  Only two commands may strand a secret: one that  *)
(* another overtook between its look-ups and its effect, and a remove or   *)
(* set_mount whose process found a table that lacks the old backend.       *)
(***************************************************************************)
SecretsReachable ==
  [][Stranded' \subseteq Stranded \/ \E c \in Command : Moves(c) /\ (c \in overtaken \/ Unnamed(c))]_raceVars

(***************************************************************************)
(* Every binding is of a namespace that exists: bind looks the namespace   *)
(* up, and remove_namespace looks for bindings.  Only a command that       *)
(* another overtook may leave a binding without its namespace.             *)
(***************************************************************************)
BindingsHaveNamespace ==
  [][Homeless' \subseteq Homeless \/ \E c \in Command : Moves(c) /\ c \in overtaken]_raceVars

(***************************************************************************)
(* "Bindings never move" (lib.rs:26): a secret is renamed from or to a     *)
(* bound name, so that a binding comes to stand for another secret, only   *)
(* if the name was bound between rename's look-up of it and its effect.    *)
(***************************************************************************)
BindingsNeverMove ==
  [][\A c \in Command :
       (Moves(c) /\ pc[c] = "backend" /\ request[c].op = "rename" /\ reply'[c].code = "Ok") =>
         \/ c \in overtaken
         \/ document.bindings[request[c].address] = Absent /\ document.bindings[Renamed(c)] = Absent]_raceVars
=============================================================================
