--------------------------- MODULE ConfigDocument ---------------------------
(***************************************************************************)
(* What a namespace configuration says (crates/secrets-federation,         *)
(* config.rs and file.rs): the namespaces with their mounts, the bindings, *)
(* and the five changes with the collisions each refuses.  The TOML text   *)
(* and the keys of the file the store does not own are left out.           *)
(***************************************************************************)
CONSTANTS
  Namespace,         \* the keys of the local tenant
  DefaultNamespace,
  Backend,           \* what a mount names
  DefaultBackend,    \* BackendRef::default_mount, keychain/default
  Name,              \* the secret names of one namespace
  Locator,
  NoMount,           \* Option::None in a namespace record: the default mount
  Absent             \* no such record

ASSUME DocumentAssumption ==
  /\ DefaultNamespace \in Namespace /\ DefaultBackend \in Backend
  /\ NoMount \notin Backend /\ Absent \notin Backend \cup Locator \cup {NoMount}

Address == Namespace \X Name
AddressesIn(k) == {a \in Address : a[1] = k}
Document == [namespaces : [Namespace -> Backend \cup {NoMount, Absent}],
             bindings : [Address -> Locator \cup {Absent}]]

Change ==
       [op : {"insert_namespace"}, key : Namespace, mount : Backend \cup {NoMount}]
  \cup [op : {"remove_namespace"}, key : Namespace]
  \cup [op : {"set_mount"}, key : Namespace, mount : Backend]
  \cup [op : {"insert_binding"}, address : Address, locator : Locator]
  \cup [op : {"remove_binding"}, address : Address]

EffectiveMount(mount) == IF mount = NoMount THEN DefaultBackend ELSE mount
HasBindings(doc, k) == \E a \in AddressesIn(k) : doc.bindings[a] # Absent

\* What a missing file stands for; Document::parse adds the namespace to any file.
EmptyDocument == [namespaces |-> [k \in Namespace |-> Absent],
                  bindings |-> [a \in Address |-> Absent]]
WithDefault(doc) ==
  IF doc.namespaces[DefaultNamespace] # Absent THEN doc
  ELSE [doc EXCEPT !.namespaces[DefaultNamespace] = NoMount]

Collides(doc, ch) ==
  \/ ch.op = "insert_namespace" /\ doc.namespaces[ch.key] # Absent
  \/ ch.op = "remove_namespace" /\ ch.key = DefaultNamespace
  \/ ch.op = "insert_binding" /\ doc.bindings[ch.address] # Absent
Lacks(doc, ch) ==
  \/ ch.op \in {"remove_namespace", "set_mount"} /\ doc.namespaces[ch.key] = Absent
  \/ ch.op = "remove_binding" /\ doc.bindings[ch.address] = Absent
Verdict(doc, ch) ==
  IF Collides(doc, ch) THEN "Conflict" ELSE IF Lacks(doc, ch) THEN "NotFound" ELSE "Ok"

Apply(doc, ch) ==
  CASE ch.op \in {"insert_namespace", "set_mount"} ->
         [doc EXCEPT !.namespaces[ch.key] = ch.mount]
    [] ch.op = "remove_namespace" -> [doc EXCEPT !.namespaces[ch.key] = Absent]
    [] ch.op = "insert_binding" -> [doc EXCEPT !.bindings[ch.address] = ch.locator]
    [] ch.op = "remove_binding" -> [doc EXCEPT !.bindings[ch.address] = Absent]

\* The document says what the change made it say.
Reflects(doc, ch) == Apply(doc, ch) = doc
=============================================================================
